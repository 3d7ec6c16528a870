---- MODULE InstanceCommands ----
(***************************************************************************)
(* One registered profile of one user, as the commands of several shells   *)
(* see it: the directory under instances/, the keychain entries of the     *)
(* profile, the default in the configuration file, and the commands        *)
(* register, setup, connect, refresh, upgrade, install, delete and use.    *)
(*                                                                         *)
(* A process runs a program, a sequence of commands. An action is what a   *)
(* command does up to its next effect that another process can see: a read *)
(* or write of a file, of a keychain entry, or a request. A process may    *)
(* die between any two of them.                                            *)
(*                                                                         *)
(* The source is src/src/nexus/: cli/auth.py, cli/oauth.py, cli/wizard.py, *)
(* cli/commands_instance.py, cli/commands_setup.py, instances/oauth.py,    *)
(* instances/registry.py, auth/keychain.py.                                *)
(***************************************************************************)
EXTENDS InstanceServer, Sequences

CONSTANTS Procs,       \* processes of the user
          Worlds,      \* the situations to start from, each with its bounds on
                       \* time, crashes and registrations elsewhere
          Buffer,      \* _REFRESH_BUFFER, in ticks
          Skew         \* ticks a command may spend between a clock reading
                       \* and the end of its token writes

Commands == {"register", "setup", "connect", "refresh", "upgrade", "install", "use", "delete"}

\* what is left of time, crashes and registrations elsewhere
Limits == [time : Nat, crashes : Nat, foreign : Nat]

\* A registered profile keeps the secret of its application, and a token that runs
\* out within a lifetime.
Situations ==
    {w \in [registered : BOOLEAN, app : BOOLEAN, lacksToken : BOOLEAN, others : Nat,
            expires : 0..Lifetime, programs : [Procs -> Seq(Commands)],
            bounds : Limits] :
       w.registered => w.app}

ASSUME WorldsAssumption ==
    /\ \A w \in Worlds : w \in Situations
    /\ 1 \in Apps
\* _REFRESH_BUFFER is five minutes; the requests of a refresh time out after thirty
\* seconds and the writes around them wait for nobody.
ASSUME BufferAssumption == Skew \in Nat /\ Buffer \in Nat /\ 2 * Skew <= Buffer

None == [app |-> 0, expires |-> 0]

VARIABLES clock,     \* the time
          sn,        \* the instance: secrets, the last secret drawn, plugins
          meta,      \* meta.json: is it there and whole, and its content
          inventory, \* plugins.json: 0 for none, else the scanned state + 1
          keys,      \* the keychain entries of the profile
          default,   \* instances.default: "", "ours" or "another"
          procs,     \* the processes
          others,    \* how many other profiles are registered
          history    \* for the properties only

vars == <<clock, sn, meta, inventory, keys, default, procs, others, history>>

NoKeys == [secret |-> 0, access |-> None, refresh |-> FALSE]

\* what a process that loads meta.json gets, and what one that writes it leaves
Readable == meta.is = "whole"

MetaIs(state) == [is |-> state, app |-> 0, expires |-> 0]

Whole(app, expires) == [is |-> "whole", app |-> app, expires |-> expires]

IdleProc == [at |-> "idle", todo |-> <<>>, again |-> FALSE,
             app |-> 0, secret |-> 0, token |-> None, now |-> 0, expires |-> 0,
             via |-> "", found |-> 0, default |-> ""]

Init ==
    \E w \in Worlds :
      /\ clock = 0
      /\ sn = [secret |-> [a \in Apps |-> IF a = 1 /\ w.app THEN 1 ELSE 0],
               drawn |-> 1, plugins |-> 0]
      /\ meta = IF w.registered THEN Whole(1, w.expires) ELSE MetaIs("no dir")
      /\ inventory = IF w.registered THEN 1 ELSE 0
      /\ keys = IF w.registered
                THEN [secret |-> 1, access |-> IF w.lacksToken THEN None
                                                   ELSE [app |-> 1, expires |-> w.expires],
                      refresh |-> TRUE]
                ELSE NoKeys
      /\ default = IF w.registered THEN "ours" ELSE ""
      /\ procs = [p \in Procs |-> [IdleProc EXCEPT !.todo = w.programs[p]]]
      /\ others = w.others
      /\ history = [left |-> w.bounds, clash |-> FALSE, foreign |-> {}, deleted |-> FALSE]

(***************************************************************************)
(* Control of one process                                                  *)
(***************************************************************************)
Me(p) == procs[p]
At(p, place) == procs[p].at = place
Command(p) == Head(procs[p].todo)
Busy(p) == procs[p].at # "idle"

\* p goes on at place, as the process record me
Goto(p, place, me) == procs' = [procs EXCEPT ![p] = [me EXCEPT !.at = place]]

\* what p is when it asks for a grant; it has read the clock before
Asking(p, via, app, secret) ==
    [Me(p) EXCEPT !.via = via, !.app = app, !.secret = secret, !.now = clock]

\* the command is over, whether it returned, exited or raised
End(p) == procs' = [procs EXCEPT ![p] = [IdleProc EXCEPT !.todo = Tail(Me(p).todo)]]

Server == <<clock, sn, others>>
Files == <<meta, inventory, default>>
Same(things) == UNCHANGED things

\* commands that give a profile its identity or take it away
Founding == {"register", "setup", "delete"}

FirstStep(c) ==
    CASE c \in {"upgrade", "install"} -> "plugins for"
      [] c = "register" -> "exists"
      [] c = "setup" -> "scan dirs"
      [] OTHER -> "resolve"

Start(p) ==
    /\ ~Busy(p)
    /\ Me(p).todo # <<>>
    /\ Goto(p, FirstStep(Command(p)), Me(p))
    /\ history' = [history EXCEPT
         !.clash = @ \/ \E q \in Procs \ {p} :
                           Busy(q) /\ {Command(p), Command(q)} \cap Founding # {},
         !.deleted = @ /\ Command(p) \notin {"register", "setup"}]
    /\ Same(<<Server, Files, keys>>)

(***************************************************************************)
(* resolve_profile and acquire_token                                       *)
(***************************************************************************)
AfterResolve(c) ==
    CASE c = "delete" -> "delete secret"
      [] c = "use" -> "set default"
      [] OTHER -> "acquire"

\* _plugins_for: a plugin command starts from the stored inventory
PluginsFor(p) ==
    /\ At(p, "plugins for")
    /\ IF Readable /\ inventory # 0 THEN Goto(p, "resolve", Me(p)) ELSE End(p)
    /\ Same(<<Server, Files, keys, history>>)

\* registry.load; a torn file raises, a missing one exits
ResolveProfile(p) ==
    /\ At(p, "resolve")
    /\ IF Readable
       THEN Goto(p, AfterResolve(Command(p)),
                 [Me(p) EXCEPT !.expires = meta.expires, !.app = meta.app])
       ELSE End(p)
    /\ Same(<<Server, Files, keys, history>>)

Work(p) ==
    CASE Me(p).again -> "rescan"
      [] Command(p) = "connect" -> "probe"
      [] Command(p) = "refresh" -> "scan"
      [] OTHER -> "operate"

\* Variant: no buffer
StillFresh_NoBuffer(p) == clock < Me(p).expires

StillFresh(p) == clock + Buffer < Me(p).expires

\* get_bearer_token, the stored token is good enough: nothing is saved
HandStored(p) ==
    /\ At(p, "acquire")
    /\ StillFresh(p)
    /\ IF keys.access = None THEN End(p)
       ELSE Goto(p, Work(p), [Me(p) EXCEPT !.token = keys.access])
    /\ Same(<<Server, Files, keys, history>>)

\* get_bearer_token, up to its request; now is read before it
BeginRefresh(p) ==
    /\ At(p, "acquire")
    /\ ~StillFresh(p)
    /\ IF keys.secret = 0 \/ ~keys.refresh THEN End(p)
       ELSE Goto(p, "refreshing", Asking(p, "refresh", Me(p).app, keys.secret))
    /\ Same(<<Server, Files, keys, history>>)

\* the grant is given and its answer arrives
Granted(p) ==
    /\ \E place \in {"refreshing", "reconnecting", "exchanging"} : At(p, place)
    /\ Authentic(sn, Me(p).app, Me(p).secret)
    /\ Goto(p, "store secret", [Me(p) EXCEPT !.token = TokenAt(clock, Me(p).app)])
    /\ Same(<<Server, Files, keys, history>>)

\* a wrong secret, a wrong password, a lost answer: OAuthError or httpx error
GrantFails(p) ==
    /\ \E place \in {"refreshing", "reconnecting", "exchanging"} : At(p, place)
    /\ End(p)
    /\ Same(<<Server, Files, keys, history>>)

\* invalid_grant: the refresh token is used up, revoked or too old
SessionExpired(p) ==
    /\ At(p, "refreshing")
    /\ Goto(p, "prompt", Me(p))
    /\ Same(<<Server, Files, keys, history>>)

\* the user types the password, at some later time: acquire_token and reconnect
Reconnect(p) ==
    /\ At(p, "prompt")
    /\ IF keys.secret = 0 THEN End(p)
       ELSE Goto(p, "reconnecting", Asking(p, "password", Me(p).app, keys.secret))
    /\ Same(<<Server, Files, keys, history>>)

\* _store_tokens: three entries, one after the other
StoreSecret(p) ==
    /\ At(p, "store secret")
    /\ keys' = [keys EXCEPT !.secret = Me(p).secret]
    /\ Goto(p, "store access", Me(p))
    /\ Same(<<Server, Files, history>>)

StoreAccess(p) ==
    /\ At(p, "store access")
    /\ keys' = [keys EXCEPT !.access = Me(p).token]
    /\ Goto(p, "store refresh", Me(p))
    /\ Same(<<Server, Files, history>>)

\* and what the caller of the grant does next: a refreshed token is counted
\* from before its request, a reconnected one from after its storage
StoreRefresh(p) ==
    /\ At(p, "store refresh")
    /\ keys' = [keys EXCEPT !.refresh = TRUE]
    /\ \/ /\ Me(p).via = "refresh"
          /\ Goto(p, "save expiry", [Me(p) EXCEPT !.expires = Me(p).now + Lifetime])
       \/ /\ Me(p).via = "password"
          /\ Goto(p, "save expiry", [Me(p) EXCEPT !.expires = clock + Lifetime])
       \/ Me(p).via = "exchange" /\ Goto(p, "describe", Me(p))
       \/ Me(p).via = "reauth" /\ End(p)
    /\ Same(<<Server, Files, history>>)

(***************************************************************************)
(* registry.save: the directory is checked, the file truncated, the text   *)
(* written, in place. A file that was removed meanwhile stays removed.     *)
(***************************************************************************)
Truncate(p, from, to) ==
    /\ At(p, from)
    /\ IF meta.is = "no dir" THEN End(p) /\ UNCHANGED meta
       ELSE Goto(p, to, Me(p)) /\ meta' = MetaIs("torn")
    /\ Same(<<Server, inventory, default, keys, history>>)

WriteText(p) ==
    meta' = IF meta.is \in {"no dir", "no file"} THEN meta ELSE Whole(Me(p).app, Me(p).expires)

\* acquire_token saves the new expiry and hands the token out
SaveExpiry(p) == Truncate(p, "save expiry", "write expiry")

WriteExpiry(p) ==
    /\ At(p, "write expiry")
    /\ WriteText(p)
    /\ Goto(p, Work(p), Me(p))
    /\ Same(<<Server, inventory, default, keys, history>>)

\* connect and refresh save their copy of meta once more when they are done
SaveMeta(p) == Truncate(p, "save meta", "write meta")

WriteMeta(p) ==
    /\ At(p, "write meta")
    /\ WriteText(p)
    /\ End(p)
    /\ Same(<<Server, inventory, default, keys, history>>)

(***************************************************************************)
(* connect, refresh, upgrade, install                                      *)
(***************************************************************************)
Probe(p) ==
    /\ At(p, "probe")
    /\ \/ Goto(p, "save meta", Me(p))
       \/ End(p)
    /\ Same(<<Server, Files, keys, history>>)

\* the snapshot and the plugin scan together: a failed snapshot ends the
\* command, a failed plugin scan only keeps the stored inventory
Scan(p) ==
    /\ At(p, "scan")
    /\ \/ \E found \in {0, sn.plugins + 1} : Goto(p, "save scan", [Me(p) EXCEPT !.found = found])
       \/ End(p)
    /\ Same(<<Server, Files, keys, history>>)

Keep(p) == inventory' = IF Me(p).found = 0 THEN inventory ELSE Me(p).found

\* save_snapshot and save_plugin_inventory replace whole files
SaveScan(p) ==
    /\ At(p, "save scan")
    /\ IF meta.is = "no dir" THEN End(p) /\ UNCHANGED inventory
       ELSE Goto(p, "save meta", Me(p)) /\ Keep(p)
    /\ Same(<<Server, meta, default, keys, history>>)

\* the executor runs; whatever it reports, it may have changed the instance.
\* Only a successful upgrade (batch, apply) acquires a token again and rescans.
Operate(p) ==
    /\ At(p, "operate")
    /\ \/ /\ sn' = [sn EXCEPT !.plugins = @ + 1]
          /\ IF Command(p) = "upgrade" THEN Goto(p, "resolve", [Me(p) EXCEPT !.again = TRUE])
                                       ELSE End(p)
       \/ /\ sn' \in {sn, [sn EXCEPT !.plugins = @ + 1]}
          /\ End(p)
    /\ Same(<<clock, others, Files, keys, history>>)

\* _rescan_plugin_inventory: an error of the scan is only shown
Rescan(p) ==
    /\ At(p, "rescan")
    /\ \/ Goto(p, "save rescan", [Me(p) EXCEPT !.found = sn.plugins + 1])
       \/ End(p)
    /\ Same(<<Server, Files, keys, history>>)

SaveRescan(p) ==
    /\ At(p, "save rescan")
    /\ IF meta.is = "no dir" THEN UNCHANGED inventory ELSE Keep(p)
    /\ End(p)
    /\ Same(<<Server, meta, default, keys, history>>)

(***************************************************************************)
(* register and setup                                                      *)
(***************************************************************************)
\* Variant: register does not look
Exists_Never(p) ==
    /\ At(p, "exists")
    /\ Goto(p, "find app", Me(p))
    /\ Same(<<Server, Files, keys, history>>)

Exists(p) ==
    /\ At(p, "exists")
    /\ IF meta.is = "no dir" THEN Goto(p, "find app", Me(p)) ELSE End(p)
    /\ Same(<<Server, Files, keys, history>>)

\* _setup_main: corrupted profiles stop it, no profile at all means a new
\* registration, a profile without access token means a new exchange
ScanDirs(p) ==
    /\ At(p, "scan dirs")
    /\ \/ /\ meta.is = "no dir" /\ others = 0
          /\ Goto(p, "find app", Me(p))
       \/ /\ Readable /\ keys.access = None
          /\ Goto(p, "recover", [Me(p) EXCEPT !.app = meta.app])
       \/ /\ \/ meta.is \in {"no file", "torn"}
             \/ meta.is = "no dir" /\ others # 0
             \/ Readable /\ keys.access # None
          /\ End(p)
    /\ Same(<<Server, Files, keys, history>>)

\* _run_inline_reauth: the expiry in meta.json is left as it is
Recover(p) ==
    /\ At(p, "recover")
    /\ IF keys.secret = 0 THEN End(p)
       ELSE Goto(p, "exchanging", Asking(p, "reauth", Me(p).app, keys.secret))
    /\ Same(<<Server, Files, keys, history>>)

\* find_oauth_entity_by_name: exactly one, or as good as none
FindApp(p) ==
    /\ At(p, "find app")
    /\ \/ \E a \in Apps : /\ Existing(sn) = {a}
                          /\ Goto(p, "rotate", [Me(p) EXCEPT !.app = a])
       \/ Goto(p, "list apps", Me(p))
    /\ Same(<<Server, Files, keys, history>>)

\* _rotate_oauth_secret: done, refused, or done and the answer lost
Rotate(p) ==
    /\ At(p, "rotate")
    /\ \/ /\ sn' = Rotated(sn, Me(p).app)
          /\ \/ Goto(p, "exchanging", Asking(p, "exchange", Me(p).app, NewSecret(sn)))
             \/ Goto(p, "list apps", Me(p))
       \/ /\ UNCHANGED sn
          /\ Goto(p, "list apps", Me(p))
    /\ Same(<<clock, others, Files, keys, history>>)

\* fetch_existing_nexus_oauth_apps and pick_existing_oauth_app: the user may
\* take an application that is there, with its secret or one that was valid
PickApp(p) ==
    /\ At(p, "list apps")
    /\ \/ \E a \in Existing(sn) : \E s \in {sn.secret[a], keys.secret} :
            Goto(p, "exchanging", Asking(p, "exchange", a, s))
       \/ Goto(p, "post app", Me(p))
    /\ Same(<<Server, Files, keys, history>>)

\* the POST of provision_oauth: created, refused, or created and lost
PostApp(p) ==
    /\ At(p, "post app")
    /\ \/ /\ HasRoom(sn)
          /\ sn' = Created(sn)
          /\ \/ Goto(p, "exchanging", Asking(p, "exchange", FreeApp(sn), NewSecret(sn)))
             \/ Goto(p, "by hand", Me(p))
       \/ /\ UNCHANGED sn
          /\ Goto(p, "by hand", Me(p))
    /\ Same(<<clock, others, Files, keys, history>>)

\* the fallback of provision_oauth: the user types both values, or gives up
ByHand(p) ==
    /\ At(p, "by hand")
    /\ \/ \E a \in Existing(sn) :
            Goto(p, "exchanging", Asking(p, "exchange", a, sn.secret[a]))
       \/ End(p)
    /\ Same(<<Server, Files, keys, history>>)

\* detect_sn_version answers or raises on a body that is not JSON; then
\* InstanceMeta.create reads the clock and registry.register makes the directory
Describe(p) ==
    /\ At(p, "describe")
    /\ \/ /\ Goto(p, "truncate new", [Me(p) EXCEPT !.expires = clock + Lifetime])
          /\ meta' = IF meta.is = "no dir" THEN MetaIs("no file") ELSE meta
       \/ End(p) /\ UNCHANGED meta
    /\ Same(<<Server, inventory, default, keys, history>>)

TruncateNew(p) == Truncate(p, "truncate new", "write new")

WriteNew(p) ==
    /\ At(p, "write new")
    /\ WriteText(p)
    /\ IF Command(p) = "register" THEN Goto(p, "first default", Me(p)) ELSE End(p)
    /\ Same(<<Server, inventory, default, keys, history>>)

\* the first profile becomes the default; the test and the write are apart
FirstDefault(p) ==
    /\ At(p, "first default")
    /\ IF default = "" THEN Goto(p, "set default", Me(p)) ELSE End(p)
    /\ Same(<<Server, Files, keys, history>>)

\* set_default_profile
SetDefault(p) ==
    /\ At(p, "set default")
    /\ default' = "ours"
    /\ End(p)
    /\ Same(<<Server, meta, inventory, keys, history>>)

(***************************************************************************)
(* delete                                                                  *)
(***************************************************************************)
\* delete_tokens goes through the accounts; a missing entry is no error
DeleteSecret(p) ==
    /\ At(p, "delete secret")
    /\ keys' = [keys EXCEPT !.secret = 0]
    /\ Goto(p, "delete access", Me(p))
    /\ Same(<<Server, Files, history>>)

DeleteAccess(p) ==
    /\ At(p, "delete access")
    /\ keys' = [keys EXCEPT !.access = None]
    /\ Goto(p, "delete refresh", Me(p))
    /\ Same(<<Server, Files, history>>)

DeleteRefresh(p) ==
    /\ At(p, "delete refresh")
    /\ keys' = [keys EXCEPT !.refresh = FALSE]
    /\ Goto(p, "remove files", Me(p))
    /\ Same(<<Server, Files, history>>)

\* registry.delete: rmtree removes the files, then the directory, and raises
\* when it finds a file that somebody wrote in between
RemoveFiles(p) ==
    /\ At(p, "remove files")
    /\ IF meta.is = "no dir" THEN End(p) /\ UNCHANGED <<meta, inventory>>
       ELSE /\ Goto(p, "remove dir", Me(p))
            /\ meta' = MetaIs("no file")
            /\ inventory' = 0
    /\ Same(<<Server, default, keys, history>>)

RemoveDir(p) ==
    /\ At(p, "remove dir")
    /\ IF meta.is = "no file" /\ inventory = 0
       THEN Goto(p, "read default", Me(p)) /\ meta' = MetaIs("no dir")
       ELSE End(p) /\ UNCHANGED meta
    /\ Same(<<Server, inventory, default, keys, history>>)

\* Variant: with several profiles left the default stays
ReadDefault_Stays(p) ==
    /\ At(p, "read default")
    /\ IF default = "ours" /\ others = 1
       THEN /\ Goto(p, "write default", [Me(p) EXCEPT !.default = "another"])
            /\ UNCHANGED history
       ELSE /\ End(p)
            /\ history' = [history EXCEPT !.deleted = TRUE]
    /\ Same(<<Server, Files, keys>>)

\* the last profile left becomes the default, with more the default is cleared
ReadDefault(p) ==
    /\ At(p, "read default")
    /\ IF default = "ours"
       THEN /\ Goto(p, "write default",
                    [Me(p) EXCEPT !.default = IF others = 1 THEN "another" ELSE ""])
            /\ UNCHANGED history
       ELSE /\ End(p)
            /\ history' = [history EXCEPT !.deleted = TRUE]
    /\ Same(<<Server, Files, keys>>)

WriteDefault(p) ==
    /\ At(p, "write default")
    /\ default' = Me(p).default
    /\ End(p)
    /\ history' = [history EXCEPT !.deleted = TRUE]
    /\ Same(<<Server, meta, inventory, keys>>)

(***************************************************************************)
(* The environment                                                         *)
(***************************************************************************)
\* places between a clock reading and the last write that depends on it,
\* where no user is waited for
InFlight == {"refreshing", "reconnecting", "exchanging", "store secret",
             "store access", "store refresh", "describe", "save expiry",
             "write expiry"}

Tick ==
    /\ clock < history.left.time
    /\ \A p \in Procs : Me(p).at \in InFlight => clock < Me(p).now + Skew
    /\ clock' = clock + 1
    /\ Same(<<sn, others, Files, keys, procs, history>>)

Spent(left, bound) == [left EXCEPT ![bound] = @ - 1]

\* another machine of the user registers the same profile name: provision_oauth
\* there rotates the secret of the application this machine uses
ForeignRegister ==
    /\ history.left.foreign > 0
    /\ \E a \in Apps : /\ Existing(sn) = {a}
                       /\ sn' = Rotated(sn, a)
                       /\ history' = [history EXCEPT !.foreign = @ \cup {a},
                                                  !.left = Spent(history.left, "foreign")]
    /\ Same(<<clock, others, Files, keys, procs>>)

\* a process dies; the user goes on with the next command
Crash(p) ==
    /\ Busy(p)
    /\ history.left.crashes > 0
    /\ history' = [history EXCEPT !.left = Spent(history.left, "crashes")]
    /\ End(p)
    /\ Same(<<Server, Files, keys>>)

Acquire(p) ==
    \/ PluginsFor(p) \/ ResolveProfile(p) \/ HandStored(p) \/ BeginRefresh(p)
    \/ Granted(p) \/ GrantFails(p) \/ SessionExpired(p) \/ Reconnect(p)
    \/ StoreSecret(p) \/ StoreAccess(p) \/ StoreRefresh(p)
    \/ SaveExpiry(p) \/ WriteExpiry(p)

Use(p) ==
    \/ Probe(p) \/ Scan(p) \/ SaveScan(p) \/ SaveMeta(p) \/ WriteMeta(p)
    \/ Operate(p) \/ Rescan(p) \/ SaveRescan(p)

Found(p) ==
    \/ Exists(p) \/ ScanDirs(p) \/ Recover(p) \/ FindApp(p) \/ Rotate(p)
    \/ PickApp(p) \/ PostApp(p) \/ ByHand(p) \/ Describe(p) \/ TruncateNew(p)
    \/ WriteNew(p) \/ FirstDefault(p) \/ SetDefault(p)

Delete(p) ==
    \/ DeleteSecret(p) \/ DeleteAccess(p) \/ DeleteRefresh(p)
    \/ RemoveFiles(p) \/ RemoveDir(p) \/ ReadDefault(p) \/ WriteDefault(p)

Next ==
    \/ \E p \in Procs : \/ Start(p) \/ Acquire(p) \/ Use(p) \/ Found(p)
                        \/ Delete(p) \/ Crash(p)
    \/ Tick
    \/ ForeignRegister

Spec == Init /\ [][Next]_vars

(***************************************************************************)
(* Properties                                                              *)
(***************************************************************************)
Tokens == {None} \cup [app : Apps, expires : Nat]

Places ==
    {"idle", "plugins for", "resolve", "acquire", "refreshing", "prompt", "reconnecting",
     "store secret", "store access", "store refresh", "save expiry", "write expiry",
     "probe", "scan", "save scan", "save meta", "write meta", "operate", "rescan",
     "save rescan", "exists", "scan dirs", "recover", "find app", "rotate", "list apps",
     "post app", "by hand", "exchanging", "describe", "truncate new", "write new",
     "first default", "set default", "delete secret", "delete access", "delete refresh",
     "remove files", "remove dir", "read default", "write default"}

Process ==
    [at : Places, todo : Seq(Commands), again : BOOLEAN,
     app : Apps \cup {0}, secret : Nat, token : Tokens, now : Nat, expires : Nat,
     via : {"", "refresh", "password", "exchange", "reauth"}, found : Nat,
     default : {"", "ours", "another"}]

\* Types, and nothing of a directory that is gone is left.
TypeOK ==
    /\ clock \in Nat /\ others \in Nat
    /\ sn \in [secret : [Apps -> Nat], drawn : Nat, plugins : Nat]
    /\ meta \in [is : {"no dir", "no file", "torn", "whole"}, app : Apps \cup {0},
                 expires : Nat]
    /\ Readable => meta.app \in Existing(sn)
    /\ inventory \in Nat
    /\ meta.is = "no dir" => inventory = 0
    /\ keys \in [secret : Nat, access : Tokens, refresh : BOOLEAN]
    /\ default \in {"", "ours", "another"}
    /\ procs \in [Procs -> Process]
    /\ history \in [left : Limits, clash : BOOLEAN, foreign : SUBSET Apps, deleted : BOOLEAN]

\* A command that is handed the stored access token without asking the server
\* (get_bearer_token's early return) gets one the server still accepts, whatever
\* other commands refreshed, reconnected, registered or deleted meanwhile and
\* wherever they died: the expiry in meta.json and the token in the keychain are
\* written apart, by several processes, and only the buffer keeps them together.
HandedTokenIsLive ==
    [][\A p \in Procs :
          At(p, "acquire") /\ procs'[p].at = Work(p) => Live(procs'[p].token, clock)]_vars

Quiet == \A p \in Procs : ~Busy(p)

\* The client secret in the keychain of a registered profile is the one its
\* application has now, so that its tokens can be refreshed, unless another
\* machine rotated it or two commands that found or end the profile overlapped.
\* provision_oauth rotates secrets without knowing who uses them; register's
\* refusal of an existing directory is what protects this machine from itself.
SecretIsCurrent ==
    Quiet /\ Readable /\ ~history.clash /\ history.foreign = {} /\ keys.secret # 0
      => keys.secret = sn.secret[meta.app]

\* When delete has run to its end and nobody interfered, nothing of the profile is
\* left, even if an earlier delete or registration died half way: no directory,
\* no keychain entry, and the default does not name it.
DeletedIsGone ==
    Quiet /\ history.deleted /\ ~history.clash
      => meta.is = "no dir" /\ keys = NoKeys /\ default # "ours"
====
