---- MODULE InstanceCommandsProofs ----
(***************************************************************************)
(* What InstanceCommands keeps true for every set of processes, programs,  *)
(* lifetimes and clock drifts, with machine-checked proofs.                *)
(***************************************************************************)
EXTENDS InstanceCommands, TLAPS

(***************************************************************************)
(* The inductive invariant. Every part but the globals speaks of one       *)
(* process record me; Apart and OneApp of two.                             *)
(***************************************************************************)
DeletePlaces == {"delete secret", "delete access", "delete refresh", "remove files",
                 "remove dir", "read default", "write default"}

\* the search for an application of a new profile
SearchPlaces == {"find app", "rotate", "list apps", "post app", "by hand"}

FoundPlaces == SearchPlaces \cup
    {"exists", "scan dirs", "recover", "exchanging", "describe", "truncate new",
     "write new", "first default"}

StorePlaces == {"store secret", "store access", "store refresh"}

UsePlaces == {"acquire", "refreshing", "prompt", "reconnecting", "save expiry",
              "write expiry", "probe", "scan", "save scan", "save meta", "write meta",
              "operate", "rescan", "save rescan"}

Creating == {"register", "setup"}

Working(me) == me.at # "idle"
CommandOf(me) == Head(me.todo)

\* a process works on a profile it has read, and is not about to found or end it
Uses(me) == me.at \in UsePlaces \/ (me.at \in StorePlaces /\ me.via \in {"refresh", "password"})

\* where a process is tells what it runs and how it came by its grant
Fits(me) ==
    /\ Working(me) => me.todo # <<>>
    /\ me.at \in DeletePlaces => CommandOf(me) = "delete"
    /\ me.at \in FoundPlaces => CommandOf(me) \in Creating
    /\ me.at \in UsePlaces \cup {"plugins for"} => CommandOf(me) \notin Founding
    /\ me.at = "resolve" => CommandOf(me) \notin Creating
    /\ me.at = "first default" => CommandOf(me) = "register"
    /\ me.at = "set default" => CommandOf(me) \in {"use", "register"}
    /\ me.at = "refreshing" => me.via = "refresh"
    /\ me.at = "reconnecting" => me.via = "password"
    /\ me.at = "exchanging" => me.via \in {"exchange", "reauth"}
    /\ me.at = "describe" => me.via = "exchange"
    /\ me.at \in StorePlaces =>
         \/ me.via \in {"exchange", "reauth"} /\ CommandOf(me) \in Creating
         \/ me.via \in {"refresh", "password"} /\ CommandOf(me) \notin Founding
    /\ Uses(me) \/ me.at \in StorePlaces \cup {"rotate", "recover", "exchanging", "describe",
                                              "truncate new", "write new"}
         => me.app \in Apps

\* and its application exists
Known(me) == me.app \in Apps => sn.secret[me.app] # 0

\* while nothing clashed, who founds or ends the profile is alone
Apart(me, other) ==
    Working(me) /\ Working(other) =>
      CommandOf(me) \notin Founding /\ CommandOf(other) \notin Founding

\* every expiry a process goes by is at most 2 * Skew past the stored token's
Timely(me) ==
    /\ me.expires <= clock + Lifetime
    /\ keys.access # None => me.expires <= keys.access.expires + 2 * Skew
    /\ me.at \in InFlight => me.now <= clock /\ clock <= me.now + Skew
    /\ me.at \in {"store secret", "store access"} => me.now + Lifetime <= me.token.expires
    /\ me.at \in {"store refresh", "describe"} /\ keys.access # None =>
         me.now + Lifetime <= keys.access.expires + Skew

MetaTimely ==
    /\ meta.expires <= clock + Lifetime
    /\ keys.access # None => meta.expires <= keys.access.expires + 2 * Skew

Undisturbed == ~history.clash /\ history.foreign = {}

\* the secret of the keychain, if there is one, is the one that app has now
Opens(app) == keys.secret # 0 => keys.secret = sn.secret[app]

MetaOpens == Readable => Opens(meta.app)

Founds(me) ==
    /\ me.at \in SearchPlaces => meta.is = "no dir"
    /\ me.at \in StorePlaces \cup {"exchanging", "describe"} /\ me.via = "exchange" =>
         meta.is = "no dir"
    /\ me.at = "recover" => Readable /\ meta.app = me.app
    /\ me.at \in StorePlaces \cup {"exchanging"} /\ me.via = "reauth" =>
         Readable /\ meta.app = me.app
    /\ me.at = "store secret" => me.secret = sn.secret[me.app]
    /\ me.at \in {"store access", "store refresh", "describe", "truncate new", "write new"} =>
         Opens(me.app)

Shares(me) ==
    Uses(me) => Opens(me.app) /\ (Readable => meta.app = me.app)

OneApp(me, other) == Uses(me) /\ Uses(other) => me.app = other.app

Gone == meta.is = "no dir" /\ keys = NoKeys /\ default # "ours"

Clears(me) ==
    /\ me.at \in {"delete access", "delete refresh"} => keys.secret = 0
    /\ me.at = "delete refresh" => keys.access = None
    /\ me.at \in {"remove files", "remove dir", "read default", "write default"} => keys = NoKeys
    /\ me.at \in {"read default", "write default"} => meta.is = "no dir"
    /\ me.at = "write default" => me.default # "ours"
    /\ history.deleted => me.at \in {"idle", "plugins for", "resolve"}

IInv ==
    /\ TypeOK
    /\ MetaTimely
    /\ Undisturbed => MetaOpens
    /\ ~history.clash /\ history.deleted => Gone
    /\ \A p \in Procs :
         /\ Fits(procs[p]) /\ Known(procs[p]) /\ Timely(procs[p])
         /\ Undisturbed => Founds(procs[p]) /\ Shares(procs[p])
         /\ ~history.clash => Clears(procs[p])
    /\ \A p, q \in Procs :
         /\ ~history.clash /\ p # q => Apart(procs[p], procs[q])
         /\ Undisturbed => OneApp(procs[p], procs[q])

(***************************************************************************)
(* Steps of one process that leave the profile and its clients' secrets    *)
(* as they are                                                             *)
(***************************************************************************)
QuietStep ==
    /\ UNCHANGED clock /\ UNCHANGED meta /\ UNCHANGED keys
    /\ UNCHANGED default /\ UNCHANGED others
    /\ sn' \in [secret : {sn.secret}, drawn : Nat, plugins : Nat]
    /\ inventory' \in Nat
    /\ meta.is = "no dir" => inventory' = 0
    /\ history' \in [left : Limits, clash : {history.clash}, foreign : {history.foreign},
                    deleted : {history.deleted}]

\* r is a record that p may take without a change of anything else
Fitting(p, r) ==
    /\ Fits(r) /\ Known(r) /\ Timely(r)
    /\ Undisturbed => Founds(r) /\ Shares(r)
    /\ ~history.clash => Clears(r)
    /\ r.at = "idle" \/ (Working(procs[p]) /\ r.todo = procs[p].todo)
    /\ Undisturbed /\ Uses(r) =>
         \/ Uses(procs[p]) /\ r.app = procs[p].app
         \/ Readable /\ r.app = meta.app

\* One such step keeps the invariant.
LEMMA QuietKeeps ==
    ASSUME IInv, NEW p \in Procs, NEW r \in Process, procs' = [procs EXCEPT ![p] = r],
           QuietStep, Fitting(p, r)
    PROVE  IInv'
<1>1. /\ UNCHANGED clock /\ UNCHANGED meta /\ UNCHANGED keys
      /\ UNCHANGED default /\ UNCHANGED others
      /\ sn'.secret = sn.secret
      /\ history'.clash = history.clash
      /\ history'.deleted = history.deleted
      /\ history'.foreign = history.foreign
      BY DEF QuietStep
<1>2. /\ procs' \in [Procs -> Process]
      /\ procs'[p] = r
      /\ \A q \in Procs : q # p => procs'[q] = procs[q]
      BY DEF IInv, TypeOK
<1>3. TypeOK'
      BY <1>1, <1>2 DEF IInv, TypeOK, Readable, Existing, QuietStep
<1>4. /\ MetaTimely'
      /\ (Undisturbed => MetaOpens)'
      /\ (~history.clash /\ history.deleted => Gone)'
      BY <1>1 DEF IInv, MetaTimely, Undisturbed, MetaOpens, Opens, Readable, Gone
<1>5. ASSUME NEW q \in Procs
      PROVE  (/\ Fits(procs[q]) /\ Known(procs[q]) /\ Timely(procs[q])
              /\ Undisturbed => Founds(procs[q]) /\ Shares(procs[q])
              /\ ~history.clash => Clears(procs[q]))'
  <2>1. CASE q = p
        <3>1. Fits(procs[q])' BY ZenonT(60), <1>2, <2>1 DEF Fitting, Fits, Uses, Working, CommandOf
        <3>2. Known(procs[q])' BY <1>1, <1>2, <2>1 DEF Fitting, Known
        <3>3. Timely(procs[q])' BY <1>1, <1>2, <2>1 DEF Fitting, Timely
        <3>4. (Undisturbed => Founds(procs[q]) /\ Shares(procs[q]))'
              BY <1>1, <1>2, <2>1 DEF Fitting, Undisturbed, Founds, Shares, Uses, Opens, Readable
        <3>5. (~history.clash => Clears(procs[q]))'
              BY <1>1, <1>2, <2>1 DEF Fitting, Clears
        <3> QED BY <3>1, <3>2, <3>3, <3>4, <3>5
  <2>2. CASE q # p
        <3>1. Fits(procs[q])' BY <1>2, <2>2 DEF IInv, Fits, Uses, Working, CommandOf
        <3>2. Known(procs[q])' BY <1>1, <1>2, <2>2 DEF IInv, Known
        <3>3. Timely(procs[q])' BY <1>1, <1>2, <2>2 DEF IInv, Timely
        <3>4. (Undisturbed => Founds(procs[q]) /\ Shares(procs[q]))'
              BY <1>1, <1>2, <2>2 DEF IInv, Undisturbed, Founds, Shares, Uses, Opens, Readable
        <3>5. (~history.clash => Clears(procs[q]))'
              BY <1>1, <1>2, <2>2 DEF IInv, Clears
        <3> QED BY <3>1, <3>2, <3>3, <3>4, <3>5
  <2> QED BY <2>1, <2>2
<1>6. ASSUME NEW q \in Procs, NEW w \in Procs
      PROVE  (~history.clash /\ q # w => Apart(procs[q], procs[w]))'
  <2>1. ~history.clash /\ q # w => Apart(procs[q], procs[w])
        BY DEF IInv
  <2>2. CASE q # p /\ w # p
        BY <1>1, <1>2, <2>1, <2>2 DEF Apart, Working, CommandOf
  <2>3. CASE q = p /\ w # p
        BY <1>1, <1>2, <2>1, <2>3 DEF Apart, Working, CommandOf, Fitting
  <2>4. CASE q # p /\ w = p
        BY <1>1, <1>2, <2>1, <2>4 DEF Apart, Working, CommandOf, Fitting
  <2> QED BY <2>2, <2>3, <2>4
<1>7. ASSUME NEW q \in Procs, NEW w \in Procs
      PROVE  (Undisturbed => OneApp(procs[q], procs[w]))'
  <2>1. /\ Undisturbed => OneApp(procs[q], procs[w]) /\ Shares(procs[q]) /\ Shares(procs[w])
        /\ Undisturbed' = Undisturbed
        BY <1>1 DEF IInv, Undisturbed
  <2>2. CASE q # p /\ w # p
        BY <1>1, <1>2, <2>1, <2>2 DEF OneApp, Uses
  <2>3. CASE q = p /\ w # p
        BY <1>1, <1>2, <2>1, <2>3 DEF OneApp, Uses, Fitting, Shares
  <2>4. CASE q # p /\ w = p
        BY <1>1, <1>2, <2>1, <2>4 DEF OneApp, Uses, Fitting, Shares
  <2>5. CASE q = p /\ w = p
        BY <1>2, <2>5 DEF OneApp
  <2> QED BY <2>2, <2>3, <2>4, <2>5
<1> QED BY <1>3, <1>4, <1>5, <1>6, <1>7 DEF IInv

\* What a step that says UNCHANGED leaves.
LEMMA StillKeeps ==
    ASSUME IInv, Same(<<Server, Files, keys, history>>)
    PROVE  QuietStep
  BY DEF IInv, TypeOK, QuietStep, Same, Server, Files

\* A process that is over fits anywhere.
LEMMA EndFits ==
    ASSUME IInv, NEW p \in Procs, Busy(p)
    PROVE  \E r \in Process :
             /\ r = [IdleProc EXCEPT !.todo = Tail(Me(p).todo)]
             /\ r.at = "idle"
             /\ Fitting(p, r)
<1> DEFINE r == [IdleProc EXCEPT !.todo = Tail(procs[p].todo)]
<1>1. procs[p] \in Process /\ procs[p].todo # <<>>
      BY DEF IInv, TypeOK, Fits, Working, Busy, Me
<1>2. r \in Process
  <2>1. procs[p].todo \in Seq(Commands) /\ procs[p].todo # <<>>
        BY <1>1 DEF Process
  <2>2. Tail(procs[p].todo) \in Seq(Commands)
        BY <2>1
  <2>3. None \in Tokens /\ "idle" \in Places
        BY DEF Tokens, Places
  <2> QED BY <2>2, <2>3 DEF Process, IdleProc
<1>3. r.at = "idle" /\ r.app = 0 /\ r.expires = 0
      BY DEF IdleProc
<1>4. Fits(r) /\ Known(r)
      BY <1>3, AppsAssumption DEF Fits, Known, Uses, Working, DeletePlaces, FoundPlaces,
                  SearchPlaces, UsePlaces, StorePlaces
<1>5. Timely(r)
  <2>1. /\ clock \in Nat /\ keys.access \in Tokens
        BY DEF IInv, TypeOK
  <2>2. keys.access # None => keys.access.expires \in Nat
        BY <2>1 DEF Tokens
  <2>3. r.expires <= clock + Lifetime
        BY <1>3, <2>1, LifetimeAssumption
  <2>4. keys.access # None => r.expires <= keys.access.expires + 2 * Skew
        BY <1>3, <2>2, BufferAssumption
  <2> QED BY <1>3, <2>3, <2>4 DEF Timely, InFlight
<1>6. Founds(r) /\ Shares(r) /\ Clears(r) /\ ~Uses(r)
      BY <1>3 DEF Founds, Shares, Clears, Uses, SearchPlaces, UsePlaces, StorePlaces
<1> QED BY <1>2, <1>3, <1>4, <1>5, <1>6 DEF Fitting, Me

\* The end of a command, wherever it is, keeps the invariant.
LEMMA EndKeeps ==
    ASSUME IInv, NEW p \in Procs, Busy(p), End(p), QuietStep
    PROVE  IInv'
  BY EndFits, QuietKeeps DEF End

\* So does a move to a place that fits.
LEMMA TurnKeeps ==
    ASSUME IInv, NEW p \in Procs, NEW place, NEW me, Goto(p, place, me), QuietStep,
           [me EXCEPT !.at = place] \in Process, Fitting(p, [me EXCEPT !.at = place])
    PROVE  IInv'
  BY QuietKeeps DEF Goto

\* A process that has just read the clock.
LEMMA AskTimely ==
    ASSUME IInv, NEW p \in Procs, NEW r, r.expires = procs[p].expires, r.now = clock,
           r.at \in {"refreshing", "reconnecting", "exchanging"}
    PROVE  Timely(r)
<1>1. clock \in Nat
      BY DEF IInv, TypeOK
<1>2. clock <= clock /\ clock <= clock + Skew
      BY <1>1, BufferAssumption
<1>3. Timely(procs[p])
      BY DEF IInv
<1> QED BY <1>2, <1>3 DEF Timely

USE DEF DeletePlaces, FoundPlaces, SearchPlaces, UsePlaces, StorePlaces, InFlight,
        CommandOf, Creating, Founding, Working, Me

\* A plugin command reads the stored inventory.
LEMMA PluginsForKeeps ==
    ASSUME IInv, NEW p \in Procs, PluginsFor(p)
    PROVE  IInv'
<1>1. /\ QuietStep /\ Busy(p) /\ procs[p] \in Process
      /\ procs[p].at = "plugins for"
      BY StillKeeps DEF PluginsFor, Busy, At, IInv, TypeOK
<1>2. CASE Goto(p, "resolve", Me(p))
  <2> DEFINE r == [procs[p] EXCEPT !.at = "resolve"]
  <2>1. r \in Process
        BY <1>1, <1>2 DEF Process, Places
  <2>2. Fitting(p, r)
        BY ZenonT(60), <1>1, <1>2
        DEF Fitting, IInv, Fits, Known, Timely, Founds, Shares, Clears, Uses, Process
  <2> HIDE DEF r
  <2> QED BY <1>1, <1>2, <2>1, <2>2, QuietKeeps DEF Goto, r, Asking
<1>3. CASE End(p)
      BY <1>1, <1>3, EndKeeps
<1> QED BY <1>1, <1>2, <1>3 DEF PluginsFor

\* The user is asked for the password.
LEMMA SessionExpiredKeeps ==
    ASSUME IInv, NEW p \in Procs, SessionExpired(p)
    PROVE  IInv'
<1>1. /\ QuietStep /\ Busy(p) /\ procs[p] \in Process
      /\ procs[p].at = "refreshing"
      BY StillKeeps DEF SessionExpired, Busy, At, IInv, TypeOK
<1>2. CASE Goto(p, "prompt", Me(p))
  <2> DEFINE r == [procs[p] EXCEPT !.at = "prompt"]
  <2>1. r \in Process
        BY <1>1, <1>2 DEF Process, Places
  <2>2. Fitting(p, r)
        BY ZenonT(60), <1>1, <1>2
        DEF Fitting, IInv, Fits, Known, Timely, Founds, Shares, Clears, Uses, Process
  <2> HIDE DEF r
  <2> QED BY <1>1, <1>2, <2>1, <2>2, QuietKeeps DEF Goto, r, Asking
<1> QED BY <1>1, <1>2 DEF SessionExpired

\* A request that fails.
LEMMA GrantFailsKeeps ==
    ASSUME IInv, NEW p \in Procs, GrantFails(p)
    PROVE  IInv'
<1>1. /\ QuietStep /\ Busy(p) /\ procs[p] \in Process
      /\ procs[p].at \in {"refreshing", "reconnecting", "exchanging"}
      BY StillKeeps DEF GrantFails, Busy, At, IInv, TypeOK
<1>2. CASE End(p)
      BY <1>1, <1>2, EndKeeps
<1> QED BY <1>1, <1>2 DEF GrantFails

\* The probe of connect.
LEMMA ProbeKeeps ==
    ASSUME IInv, NEW p \in Procs, Probe(p)
    PROVE  IInv'
<1>1. /\ QuietStep /\ Busy(p) /\ procs[p] \in Process
      /\ procs[p].at = "probe"
      BY StillKeeps DEF Probe, Busy, At, IInv, TypeOK
<1>2. CASE Goto(p, "save meta", Me(p))
  <2> DEFINE r == [procs[p] EXCEPT !.at = "save meta"]
  <2>1. r \in Process
        BY <1>1, <1>2 DEF Process, Places
  <2>2. Fitting(p, r)
        BY ZenonT(60), <1>1, <1>2
        DEF Fitting, IInv, Fits, Known, Timely, Founds, Shares, Clears, Uses, Process
  <2> HIDE DEF r
  <2> QED BY <1>1, <1>2, <2>1, <2>2, QuietKeeps DEF Goto, r, Asking
<1>3. CASE End(p)
      BY <1>1, <1>3, EndKeeps
<1> QED BY <1>1, <1>2, <1>3 DEF Probe

\* register looks for the directory.
LEMMA ExistsKeeps ==
    ASSUME IInv, NEW p \in Procs, Exists(p)
    PROVE  IInv'
<1>1. /\ QuietStep /\ Busy(p) /\ procs[p] \in Process
      /\ procs[p].at = "exists"
      BY StillKeeps DEF Exists, Busy, At, IInv, TypeOK
<1>2. CASE meta.is = "no dir" /\ Goto(p, "find app", Me(p))
  <2> DEFINE r == [procs[p] EXCEPT !.at = "find app"]
  <2>1. r \in Process
        BY <1>1, <1>2 DEF Process, Places
  <2>2. Fitting(p, r)
        BY ZenonT(60), <1>1, <1>2
        DEF Fitting, IInv, Fits, Known, Timely, Founds, Shares, Clears, Uses, Process
  <2> HIDE DEF r
  <2> QED BY <1>1, <1>2, <2>1, <2>2, QuietKeeps DEF Goto, r, Asking
<1>3. CASE End(p)
      BY <1>1, <1>3, EndKeeps
<1> QED BY <1>1, <1>2, <1>3 DEF Exists

\* register looks at the default.
LEMMA FirstDefaultKeeps ==
    ASSUME IInv, NEW p \in Procs, FirstDefault(p)
    PROVE  IInv'
<1>1. /\ QuietStep /\ Busy(p) /\ procs[p] \in Process
      /\ procs[p].at = "first default"
      BY StillKeeps DEF FirstDefault, Busy, At, IInv, TypeOK
<1>2. CASE Goto(p, "set default", Me(p))
  <2> DEFINE r == [procs[p] EXCEPT !.at = "set default"]
  <2>1. r \in Process
        BY <1>1, <1>2 DEF Process, Places
  <2>2. Fitting(p, r)
        BY ZenonT(60), <1>1, <1>2
        DEF Fitting, IInv, Fits, Known, Timely, Founds, Shares, Clears, Uses, Process
  <2> HIDE DEF r
  <2> QED BY <1>1, <1>2, <2>1, <2>2, QuietKeeps DEF Goto, r, Asking
<1>3. CASE End(p)
      BY <1>1, <1>3, EndKeeps
<1> QED BY <1>1, <1>2, <1>3 DEF FirstDefault

\* The stored token is handed out.
LEMMA HandStoredKeeps ==
    ASSUME IInv, NEW p \in Procs, HandStored(p)
    PROVE  IInv'
<1>1. /\ QuietStep /\ Busy(p) /\ procs[p] \in Process
      /\ procs[p].at = "acquire"
      BY StillKeeps DEF HandStored, Busy, At, IInv, TypeOK
<1>2. CASE keys.access # None /\ Goto(p, Work(p), [Me(p) EXCEPT !.token = keys.access])
  <2> DEFINE r == [procs[p] EXCEPT !.token = keys.access, !.at = Work(p)]
  <2>1. keys.access \in Tokens /\ keys \in [secret : Nat, access : Tokens, refresh : BOOLEAN]
        BY DEF IInv, TypeOK
  <2>2. Work(p) \in {"rescan", "probe", "scan", "operate"}
        BY DEF Work
  <2>3. r \in Process
        BY <1>1, <1>2, <2>1, <2>2 DEF Process, Places
  <2>4. Fits(r) /\ Known(r)
        BY <1>1, <1>2, <2>1, <2>2 DEF IInv, Fits, Known, Uses, Process
  <2>5. Timely(r)
        BY <1>1, <1>2, <2>1, <2>2 DEF IInv, Timely, Process
  <2>6. Undisturbed => Founds(r)
        BY <1>1, <1>2, <2>1, <2>2 DEF IInv, Fits, Founds, Process
  <2>7. Undisturbed => Shares(r)
        BY <1>1, <1>2, <2>1, <2>2 DEF IInv, Fits, Shares, Uses, Process
  <2>8. ~history.clash => Clears(r)
        BY <1>1, <1>2, <2>1, <2>2 DEF IInv, Fits, Clears, Process
  <2>9. r.at = "idle" \/ (Working(procs[p]) /\ r.todo = procs[p].todo)
        BY <1>1 DEF Process
  <2>10. Undisturbed /\ Uses(r) =>
           \/ Uses(procs[p]) /\ r.app = procs[p].app
           \/ Readable /\ r.app = meta.app
        BY <1>1, <1>2, <2>1, <2>2 DEF IInv, Fits, Uses, Process
  <2> HIDE DEF r
  <2>11. Fitting(p, r)
        BY <2>4, <2>5, <2>6, <2>7, <2>8, <2>9, <2>10 DEF Fitting
  <2> QED BY <1>1, <1>2, <2>3, <2>11, QuietKeeps DEF Goto, r, Asking, TokenAt
<1>3. CASE End(p)
      BY <1>1, <1>3, EndKeeps
<1> QED BY <1>1, <1>2, <1>3 DEF HandStored

\* The refresh grant is asked for.
LEMMA BeginRefreshKeeps ==
    ASSUME IInv, NEW p \in Procs, BeginRefresh(p)
    PROVE  IInv'
<1>1. /\ QuietStep /\ Busy(p) /\ procs[p] \in Process
      /\ procs[p].at = "acquire"
      BY StillKeeps DEF BeginRefresh, Busy, At, IInv, TypeOK
<1>2. CASE Goto(p, "refreshing", Asking(p, "refresh", Me(p).app, keys.secret))
  <2> DEFINE r == [procs[p] EXCEPT !.via = "refresh", !.app = procs[p].app,
                                   !.secret = keys.secret, !.now = clock,
                                   !.at = "refreshing"]
  <2>1. clock \in Nat /\ keys.secret \in Nat
        BY DEF IInv, TypeOK
  <2>2. Skew \in Nat
        BY BufferAssumption
  <2>3. r \in Process
        BY <1>1, <1>2, <2>1, <2>2 DEF Process, Places
  <2>4. Fits(r) /\ Known(r)
        BY ZenonT(60), <1>1, <1>2, <2>1, <2>2 DEF IInv, Fits, Known, Uses, Process
  <2>5. Timely(r)
        BY <1>1, AskTimely DEF Process
  <2>6. Undisturbed => Founds(r)
        BY <1>1, <1>2, <2>1, <2>2 DEF IInv, Fits, Founds, Process
  <2>7. Undisturbed => Shares(r)
        BY <1>1, <1>2, <2>1, <2>2 DEF IInv, Fits, Shares, Uses, Process
  <2>8. ~history.clash => Clears(r)
        BY <1>1, <1>2, <2>1, <2>2 DEF IInv, Fits, Clears, Process
  <2>9. r.at = "idle" \/ (Working(procs[p]) /\ r.todo = procs[p].todo)
        BY <1>1 DEF Process
  <2>10. Undisturbed /\ Uses(r) =>
           \/ Uses(procs[p]) /\ r.app = procs[p].app
           \/ Readable /\ r.app = meta.app
        BY <1>1, <1>2, <2>1, <2>2 DEF IInv, Fits, Uses, Process
  <2> HIDE DEF r
  <2>11. Fitting(p, r)
        BY <2>4, <2>5, <2>6, <2>7, <2>8, <2>9, <2>10 DEF Fitting
  <2> QED BY <1>1, <1>2, <2>3, <2>11, QuietKeeps DEF Goto, r, Asking, TokenAt
<1>3. CASE End(p)
      BY <1>1, <1>3, EndKeeps
<1> QED BY <1>1, <1>2, <1>3 DEF BeginRefresh

\* The password grant is asked for.
LEMMA ReconnectKeeps ==
    ASSUME IInv, NEW p \in Procs, Reconnect(p)
    PROVE  IInv'
<1>1. /\ QuietStep /\ Busy(p) /\ procs[p] \in Process
      /\ procs[p].at = "prompt"
      BY StillKeeps DEF Reconnect, Busy, At, IInv, TypeOK
<1>2. CASE Goto(p, "reconnecting", Asking(p, "password", Me(p).app, keys.secret))
  <2> DEFINE r == [procs[p] EXCEPT !.via = "password", !.app = procs[p].app,
                                   !.secret = keys.secret, !.now = clock,
                                   !.at = "reconnecting"]
  <2>1. clock \in Nat /\ keys.secret \in Nat
        BY DEF IInv, TypeOK
  <2>2. Skew \in Nat
        BY BufferAssumption
  <2>3. r \in Process
        BY <1>1, <1>2, <2>1, <2>2 DEF Process, Places
  <2>4. Fits(r) /\ Known(r)
        BY ZenonT(60), <1>1, <1>2, <2>1, <2>2 DEF IInv, Fits, Known, Uses, Process
  <2>5. Timely(r)
        BY <1>1, AskTimely DEF Process
  <2>6. Undisturbed => Founds(r)
        BY <1>1, <1>2, <2>1, <2>2 DEF IInv, Fits, Founds, Process
  <2>7. Undisturbed => Shares(r)
        BY <1>1, <1>2, <2>1, <2>2 DEF IInv, Fits, Shares, Uses, Process
  <2>8. ~history.clash => Clears(r)
        BY <1>1, <1>2, <2>1, <2>2 DEF IInv, Fits, Clears, Process
  <2>9. r.at = "idle" \/ (Working(procs[p]) /\ r.todo = procs[p].todo)
        BY <1>1 DEF Process
  <2>10. Undisturbed /\ Uses(r) =>
           \/ Uses(procs[p]) /\ r.app = procs[p].app
           \/ Readable /\ r.app = meta.app
        BY <1>1, <1>2, <2>1, <2>2 DEF IInv, Fits, Uses, Process
  <2> HIDE DEF r
  <2>11. Fitting(p, r)
        BY <2>4, <2>5, <2>6, <2>7, <2>8, <2>9, <2>10 DEF Fitting
  <2> QED BY <1>1, <1>2, <2>3, <2>11, QuietKeeps DEF Goto, r, Asking, TokenAt
<1>3. CASE End(p)
      BY <1>1, <1>3, EndKeeps
<1> QED BY <1>1, <1>2, <1>3 DEF Reconnect

\* A new exchange for a profile without token.
LEMMA RecoverKeeps ==
    ASSUME IInv, NEW p \in Procs, Recover(p)
    PROVE  IInv'
<1>1. /\ QuietStep /\ Busy(p) /\ procs[p] \in Process
      /\ procs[p].at = "recover"
      BY StillKeeps DEF Recover, Busy, At, IInv, TypeOK
<1>2. CASE Goto(p, "exchanging", Asking(p, "reauth", Me(p).app, keys.secret))
  <2> DEFINE r == [procs[p] EXCEPT !.via = "reauth", !.app = procs[p].app,
                                   !.secret = keys.secret, !.now = clock,
                                   !.at = "exchanging"]
  <2>1. clock \in Nat /\ keys.secret \in Nat
        BY DEF IInv, TypeOK
  <2>2. Skew \in Nat
        BY BufferAssumption
  <2>3. r \in Process
        BY <1>1, <1>2, <2>1, <2>2 DEF Process, Places
  <2>4. Fits(r) /\ Known(r)
        BY ZenonT(60), <1>1, <1>2, <2>1, <2>2 DEF IInv, Fits, Known, Uses, Process
  <2>5. Timely(r)
        BY <1>1, AskTimely DEF Process
  <2>6. Undisturbed => Founds(r)
        BY <1>1, <1>2, <2>1, <2>2 DEF IInv, Fits, Founds, Process
  <2>7. Undisturbed => Shares(r)
        BY <1>1, <1>2, <2>1, <2>2 DEF IInv, Fits, Shares, Uses, Process
  <2>8. ~history.clash => Clears(r)
        BY <1>1, <1>2, <2>1, <2>2 DEF IInv, Fits, Clears, Process
  <2>9. r.at = "idle" \/ (Working(procs[p]) /\ r.todo = procs[p].todo)
        BY <1>1 DEF Process
  <2>10. Undisturbed /\ Uses(r) =>
           \/ Uses(procs[p]) /\ r.app = procs[p].app
           \/ Readable /\ r.app = meta.app
        BY <1>1, <1>2, <2>1, <2>2 DEF IInv, Fits, Uses, Process
  <2> HIDE DEF r
  <2>11. Fitting(p, r)
        BY <2>4, <2>5, <2>6, <2>7, <2>8, <2>9, <2>10 DEF Fitting
  <2> QED BY <1>1, <1>2, <2>3, <2>11, QuietKeeps DEF Goto, r, Asking, TokenAt
<1>3. CASE End(p)
      BY <1>1, <1>3, EndKeeps
<1> QED BY <1>1, <1>2, <1>3 DEF Recover

\* A command loads the profile.
LEMMA ResolveProfileKeeps ==
    ASSUME IInv, NEW p \in Procs, ResolveProfile(p)
    PROVE  IInv'
<1>1. /\ QuietStep /\ Busy(p) /\ procs[p] \in Process
      /\ procs[p].at = "resolve"
      BY StillKeeps DEF ResolveProfile, Busy, At, IInv, TypeOK
<1>2. CASE Readable /\ Goto(p, AfterResolve(Command(p)),
                            [Me(p) EXCEPT !.expires = meta.expires, !.app = meta.app])
  <2> DEFINE r == [procs[p] EXCEPT !.expires = meta.expires, !.app = meta.app,
                                   !.at = AfterResolve(Command(p))]
  <2>1. \/ Head(procs[p].todo) = "delete" /\ AfterResolve(Command(p)) = "delete secret"
        \/ Head(procs[p].todo) = "use" /\ AfterResolve(Command(p)) = "set default"
        \/ /\ Head(procs[p].todo) \notin {"delete", "use"}
           /\ AfterResolve(Command(p)) = "acquire"
        BY DEF AfterResolve, Command
  <2>2. /\ meta.app \in Apps /\ sn.secret[meta.app] # 0 /\ meta.expires \in Nat
        /\ meta.is = "whole"
        BY <1>2 DEF IInv, TypeOK, Readable, Existing
  <2>3. /\ meta.expires <= clock + Lifetime
        /\ keys.access # None => meta.expires <= keys.access.expires + 2 * Skew
        BY DEF IInv, MetaTimely
  <2>4. /\ Undisturbed => Opens(meta.app)
        /\ ~history.clash => ~history.deleted
        BY <1>2, <2>2 DEF IInv, MetaOpens, Gone
  <2>5. r \in Process
        BY <1>1, <1>2, <2>1, <2>2, <2>3, <2>4 DEF Process, Places
  <2>6. Fits(r) /\ Known(r)
        BY <1>1, <1>2, <2>1, <2>2, <2>3, <2>4 DEF IInv, Fits, Known, Uses, Process
  <2>7. Timely(r)
        BY <1>1, <1>2, <2>1, <2>2, <2>3 DEF IInv, Timely, Process
  <2>8. Undisturbed => Founds(r)
        BY <1>1, <1>2, <2>1, <2>2, <2>3, <2>4 DEF IInv, Fits, Founds, Process
  <2>9. Undisturbed => Shares(r)
        BY <1>1, <1>2, <2>1, <2>2, <2>3, <2>4 DEF IInv, Fits, Shares, Uses, Process
  <2>10. ~history.clash => Clears(r)
        BY <1>1, <1>2, <2>1, <2>2, <2>3, <2>4 DEF IInv, Fits, Clears, Process
  <2>11. r.at = "idle" \/ (Working(procs[p]) /\ r.todo = procs[p].todo)
        BY <1>1 DEF Process
  <2>12. Undisturbed /\ Uses(r) =>
           \/ Uses(procs[p]) /\ r.app = procs[p].app
           \/ Readable /\ r.app = meta.app
        BY <1>1, <1>2, <2>1, <2>2, <2>3, <2>4 DEF IInv, Fits, Uses, Process
  <2> HIDE DEF r
  <2>13. Fitting(p, r)
        BY <2>6, <2>7, <2>8, <2>9, <2>10, <2>11, <2>12 DEF Fitting
  <2> QED BY <1>1, <1>2, <2>5, <2>13, QuietKeeps DEF Goto, r, Asking, TokenAt
<1>3. CASE End(p)
      BY <1>1, <1>3, EndKeeps
<1> QED BY <1>1, <1>2, <1>3 DEF ResolveProfile

\* The grant is given.
LEMMA GrantedKeeps ==
    ASSUME IInv, NEW p \in Procs, Granted(p)
    PROVE  IInv'
<1>1. /\ QuietStep /\ Busy(p) /\ procs[p] \in Process
      /\ procs[p].at \in {"refreshing", "reconnecting", "exchanging"}
      BY StillKeeps DEF Granted, Busy, At, IInv, TypeOK
<1>2. CASE Goto(p, "store secret", [Me(p) EXCEPT !.token = TokenAt(clock, Me(p).app)])
  <2> DEFINE r == [procs[p] EXCEPT !.token = [app |-> procs[p].app, expires |-> clock + Lifetime],
                                   !.at = "store secret"]
  <2>1. procs[p].app \in Apps
        BY <1>1 DEF IInv, Fits, Uses
  <2>2. clock \in Nat /\ procs[p].now \in Nat
        BY <1>1 DEF IInv, TypeOK, Process
  <2>3. clock + Lifetime \in Nat
        BY <2>2, LifetimeAssumption
  <2>4. [app |-> procs[p].app, expires |-> clock + Lifetime] \in Tokens
        BY <2>1, <2>3 DEF Tokens
  <2>5. procs[p].secret = sn.secret[procs[p].app]
        BY DEF Granted, Authentic
  <2>6. procs[p].now <= clock /\ clock <= procs[p].now + Skew
        BY <1>1 DEF IInv, Timely
  <2>7. procs[p].now + Lifetime <= clock + Lifetime
        BY <2>2, <2>6, LifetimeAssumption
  <2>8. r \in Process
        BY <1>1, <1>2, <2>1, <2>2, <2>3, <2>4, <2>5, <2>6, <2>7 DEF Process, Places
  <2>9. Fits(r) /\ Known(r)
        BY ZenonT(60), <1>1, <1>2, <2>1, <2>2, <2>3, <2>4, <2>5, <2>6, <2>7
        DEF IInv, Fits, Known, Uses, Process
  <2>10. Timely(r)
        BY <1>1, <1>2, <2>6, <2>7 DEF IInv, Timely, Process
  <2>11. Undisturbed => Founds(r)
        BY <1>1, <1>2, <2>1, <2>2, <2>3, <2>4, <2>5, <2>6, <2>7 DEF IInv, Fits, Founds, Process
  <2>12. Undisturbed => Shares(r)
        BY <1>1, <1>2, <2>1, <2>2, <2>3, <2>4, <2>5, <2>6, <2>7
        DEF IInv, Fits, Shares, Uses, Process
  <2>13. ~history.clash => Clears(r)
        BY <1>1, <1>2, <2>1, <2>2, <2>3, <2>4, <2>5, <2>6, <2>7 DEF IInv, Fits, Clears, Process
  <2>14. r.at = "idle" \/ (Working(procs[p]) /\ r.todo = procs[p].todo)
        BY <1>1 DEF Process
  <2>15. Undisturbed /\ Uses(r) =>
           \/ Uses(procs[p]) /\ r.app = procs[p].app
           \/ Readable /\ r.app = meta.app
        BY <1>1, <1>2, <2>1, <2>2, <2>3, <2>4, <2>5, <2>6, <2>7 DEF IInv, Fits, Uses, Process
  <2> HIDE DEF r
  <2>16. Fitting(p, r)
        BY <2>9, <2>10, <2>11, <2>12, <2>13, <2>14, <2>15 DEF Fitting
  <2> QED BY <1>1, <1>2, <2>8, <2>16, QuietKeeps DEF Goto, r, Asking, TokenAt
<1> QED BY <1>1, <1>2 DEF Granted

\* The scan of refresh.
LEMMA ScanKeeps ==
    ASSUME IInv, NEW p \in Procs, Scan(p)
    PROVE  IInv'
<1>1. /\ QuietStep /\ Busy(p) /\ procs[p] \in Process
      /\ procs[p].at = "scan"
      BY StillKeeps DEF Scan, Busy, At, IInv, TypeOK
<1>2. ASSUME NEW found \in {0, sn.plugins + 1},
             Goto(p, "save scan", [Me(p) EXCEPT !.found = found])
      PROVE  IInv'
  <2> DEFINE r == [procs[p] EXCEPT !.found = found, !.at = "save scan"]
  <2>1. sn.plugins \in Nat
        BY DEF IInv, TypeOK
  <2>2. sn.plugins + 1 \in Nat /\ {0, sn.plugins + 1} \subseteq Nat
        BY <2>1
  <2>3. r \in Process
        BY <1>1, <1>2, <2>1, <2>2 DEF Process, Places
  <2>4. Fitting(p, r)
        BY ZenonT(60), <1>1, <1>2, <2>1, <2>2
        DEF Fitting, IInv, Fits, Known, Timely, Founds, Shares, Clears, Uses, Process
  <2> HIDE DEF r
  <2> QED BY <1>1, <1>2, <2>3, <2>4, QuietKeeps DEF Goto, r, Asking
<1>3. CASE End(p)
      BY <1>1, <1>3, EndKeeps
<1> QED BY <1>1, <1>2, <1>3 DEF Scan

\* The scan after an upgrade.
LEMMA RescanKeeps ==
    ASSUME IInv, NEW p \in Procs, Rescan(p)
    PROVE  IInv'
<1>1. /\ QuietStep /\ Busy(p) /\ procs[p] \in Process
      /\ procs[p].at = "rescan"
      BY StillKeeps DEF Rescan, Busy, At, IInv, TypeOK
<1>2. CASE Goto(p, "save rescan", [Me(p) EXCEPT !.found = sn.plugins + 1])
  <2> DEFINE r == [procs[p] EXCEPT !.found = sn.plugins + 1, !.at = "save rescan"]
  <2>1. sn.plugins \in Nat
        BY DEF IInv, TypeOK
  <2>2. sn.plugins + 1 \in Nat /\ {0, sn.plugins + 1} \subseteq Nat
        BY <2>1
  <2>3. r \in Process
        BY <1>1, <1>2, <2>1, <2>2 DEF Process, Places
  <2>4. Fitting(p, r)
        BY ZenonT(60), <1>1, <1>2, <2>1, <2>2
        DEF Fitting, IInv, Fits, Known, Timely, Founds, Shares, Clears, Uses, Process
  <2> HIDE DEF r
  <2> QED BY <1>1, <1>2, <2>3, <2>4, QuietKeeps DEF Goto, r, Asking
<1>3. CASE End(p)
      BY <1>1, <1>3, EndKeeps
<1> QED BY <1>1, <1>2, <1>3 DEF Rescan

\* setup looks at the profiles.
LEMMA ScanDirsKeeps ==
    ASSUME IInv, NEW p \in Procs, ScanDirs(p)
    PROVE  IInv'
<1>1. /\ QuietStep /\ Busy(p) /\ procs[p] \in Process
      /\ procs[p].at = "scan dirs"
      BY StillKeeps DEF ScanDirs, Busy, At, IInv, TypeOK
<1>2. CASE meta.is = "no dir" /\ Goto(p, "find app", Me(p))
  <2> DEFINE r == [procs[p] EXCEPT !.at = "find app"]
  <2>1. r \in Process
        BY <1>1, <1>2 DEF Process, Places
  <2>2. Fitting(p, r)
        BY ZenonT(60), <1>1, <1>2
        DEF Fitting, IInv, Fits, Known, Timely, Founds, Shares, Clears, Uses, Process
  <2> HIDE DEF r
  <2> QED BY <1>1, <1>2, <2>1, <2>2, QuietKeeps DEF Goto, r, Asking
<1>3. CASE Readable /\ keys.access = None
           /\ Goto(p, "recover", [Me(p) EXCEPT !.app = meta.app])
  <2> DEFINE r == [procs[p] EXCEPT !.app = meta.app, !.at = "recover"]
  <2>1. /\ meta.app \in Apps /\ sn.secret[meta.app] # 0
        /\ meta.is = "whole"
        BY <1>3 DEF IInv, TypeOK, Readable, Existing
  <2>2. r \in Process
        BY <1>1, <1>3, <2>1 DEF Process, Places
  <2>3. Fitting(p, r)
        BY ZenonT(60), <1>1, <1>3, <2>1
        DEF Fitting, IInv, Fits, Known, Timely, Founds, Shares, Clears, Uses, Process
  <2> HIDE DEF r
  <2> QED BY <1>1, <1>3, <2>2, <2>3, QuietKeeps DEF Goto, r, Asking
<1>4. CASE End(p)
      BY <1>1, <1>4, EndKeeps
<1> QED BY <1>1, <1>2, <1>3, <1>4 DEF ScanDirs

\* An application of that name is looked for.
LEMMA FindAppKeeps ==
    ASSUME IInv, NEW p \in Procs, FindApp(p)
    PROVE  IInv'
<1>1. /\ QuietStep /\ Busy(p) /\ procs[p] \in Process
      /\ procs[p].at = "find app"
      BY StillKeeps DEF FindApp, Busy, At, IInv, TypeOK
<1>2. ASSUME NEW a \in Apps, Existing(sn) = {a}, Goto(p, "rotate", [Me(p) EXCEPT !.app = a])
      PROVE  IInv'
  <2> DEFINE r == [procs[p] EXCEPT !.app = a, !.at = "rotate"]
  <2>1. sn.secret[a] # 0
        BY <1>2 DEF Existing
  <2>2. r \in Process
        BY <1>1, <1>2, <2>1 DEF Process, Places
  <2>3. Fitting(p, r)
        BY ZenonT(60), <1>1, <1>2, <2>1
        DEF Fitting, IInv, Fits, Known, Timely, Founds, Shares, Clears, Uses, Process
  <2> HIDE DEF r
  <2> QED BY <1>1, <1>2, <2>2, <2>3, QuietKeeps DEF Goto, r, Asking
<1>3. CASE Goto(p, "list apps", Me(p))
  <2> DEFINE r == [procs[p] EXCEPT !.at = "list apps"]
  <2>1. r \in Process
        BY <1>1, <1>3 DEF Process, Places
  <2>2. Fitting(p, r)
        BY ZenonT(60), <1>1, <1>3
        DEF Fitting, IInv, Fits, Known, Timely, Founds, Shares, Clears, Uses, Process
  <2> HIDE DEF r
  <2> QED BY <1>1, <1>3, <2>1, <2>2, QuietKeeps DEF Goto, r, Asking
<1> QED BY <1>1, <1>2, <1>3 DEF FindApp

\* The user may pick an application.
LEMMA PickAppKeeps ==
    ASSUME IInv, NEW p \in Procs, PickApp(p)
    PROVE  IInv'
<1>1. /\ QuietStep /\ Busy(p) /\ procs[p] \in Process
      /\ procs[p].at = "list apps"
      BY StillKeeps DEF PickApp, Busy, At, IInv, TypeOK
<1>2. ASSUME NEW a \in Existing(sn), NEW s \in {sn.secret[a], keys.secret},
             Goto(p, "exchanging", Asking(p, "exchange", a, s))
      PROVE  IInv'
  <2> DEFINE r == [procs[p] EXCEPT !.via = "exchange", !.app = a, !.secret = s,
                                   !.now = clock, !.at = "exchanging"]
  <2>1. a \in Apps /\ sn.secret[a] # 0
        BY <1>2 DEF Existing
  <2>2. sn.secret[a] \in Nat /\ keys.secret \in Nat /\ clock \in Nat
        BY <2>1 DEF IInv, TypeOK
  <2>3. s \in Nat
        BY <1>2, <2>2
  <2>4. r \in Process
        BY <1>1, <1>2, <2>1, <2>2, <2>3 DEF Process, Places
  <2>5. Fits(r) /\ Known(r)
        BY <1>1, <1>2, <2>1, <2>2, <2>3 DEF IInv, Fits, Known, Uses, Process
  <2>6. Timely(r)
        BY <1>1, AskTimely DEF Process
  <2>7. Undisturbed => Founds(r)
        BY <1>1, <1>2, <2>1, <2>2, <2>3 DEF IInv, Fits, Founds, Process
  <2>8. Undisturbed => Shares(r)
        BY <1>1, <1>2, <2>1, <2>2, <2>3 DEF IInv, Fits, Shares, Uses, Process
  <2>9. ~history.clash => Clears(r)
        BY <1>1, <1>2, <2>1, <2>2, <2>3 DEF IInv, Fits, Clears, Process
  <2>10. r.at = "idle" \/ (Working(procs[p]) /\ r.todo = procs[p].todo)
        BY <1>1 DEF Process
  <2>11. Undisturbed /\ Uses(r) =>
           \/ Uses(procs[p]) /\ r.app = procs[p].app
           \/ Readable /\ r.app = meta.app
        BY <1>1, <1>2, <2>1, <2>2, <2>3 DEF IInv, Fits, Uses, Process
  <2> HIDE DEF r
  <2>12. Fitting(p, r)
        BY <2>5, <2>6, <2>7, <2>8, <2>9, <2>10, <2>11 DEF Fitting
  <2> QED BY <1>1, <1>2, <2>4, <2>12, QuietKeeps DEF Goto, r, Asking, TokenAt
<1>3. CASE Goto(p, "post app", Me(p))
  <2> DEFINE r == [procs[p] EXCEPT !.at = "post app"]
  <2>1. r \in Process
        BY <1>1, <1>3 DEF Process, Places
  <2>2. Fitting(p, r)
        BY ZenonT(60), <1>1, <1>3
        DEF Fitting, IInv, Fits, Known, Timely, Founds, Shares, Clears, Uses, Process
  <2> HIDE DEF r
  <2> QED BY <1>1, <1>3, <2>1, <2>2, QuietKeeps DEF Goto, r, Asking
<1> QED BY <1>1, <1>2, <1>3 DEF PickApp

\* The user may type an application's values.
LEMMA ByHandKeeps ==
    ASSUME IInv, NEW p \in Procs, ByHand(p)
    PROVE  IInv'
<1>1. /\ QuietStep /\ Busy(p) /\ procs[p] \in Process
      /\ procs[p].at = "by hand"
      BY StillKeeps DEF ByHand, Busy, At, IInv, TypeOK
<1>2. ASSUME NEW a \in Existing(sn),
             Goto(p, "exchanging", Asking(p, "exchange", a, sn.secret[a]))
      PROVE  IInv'
  <2> DEFINE r == [procs[p] EXCEPT !.via = "exchange", !.app = a, !.secret = sn.secret[a],
                         !.now = clock, !.at = "exchanging"]
  <2>1. a \in Apps /\ sn.secret[a] # 0 /\ sn.secret[a] \in Nat /\ clock \in Nat
        BY <1>2 DEF IInv, TypeOK, Existing
  <2>2. r \in Process
        BY <1>1, <1>2, <2>1 DEF Process, Places
  <2>3. Fits(r) /\ Known(r)
        BY <1>1, <1>2, <2>1 DEF IInv, Fits, Known, Uses, Process
  <2>4. Timely(r)
        BY <1>1, AskTimely DEF Process
  <2>5. Undisturbed => Founds(r)
        BY <1>1, <1>2, <2>1 DEF IInv, Fits, Founds, Process
  <2>6. Undisturbed => Shares(r)
        BY <1>1, <1>2, <2>1 DEF IInv, Fits, Shares, Uses, Process
  <2>7. ~history.clash => Clears(r)
        BY <1>1, <1>2, <2>1 DEF IInv, Fits, Clears, Process
  <2>8. r.at = "idle" \/ (Working(procs[p]) /\ r.todo = procs[p].todo)
        BY <1>1 DEF Process
  <2>9. Undisturbed /\ Uses(r) =>
           \/ Uses(procs[p]) /\ r.app = procs[p].app
           \/ Readable /\ r.app = meta.app
        BY <1>1, <1>2, <2>1 DEF IInv, Fits, Uses, Process
  <2> HIDE DEF r
  <2>10. Fitting(p, r)
        BY <2>3, <2>4, <2>5, <2>6, <2>7, <2>8, <2>9 DEF Fitting
  <2> QED BY <1>1, <1>2, <2>2, <2>10, QuietKeeps DEF Goto, r, Asking, TokenAt
<1>3. CASE End(p)
      BY <1>1, <1>3, EndKeeps
<1> QED BY <1>1, <1>2, <1>3 DEF ByHand

\* What is left of the inventory when a scan is saved.
LEMMA KeepQuiet ==
    ASSUME IInv, NEW p \in Procs, meta.is # "no dir", Keep(p),
           Same(<<Server, meta, default, keys, history>>)
    PROVE  QuietStep
<1>1. inventory \in Nat /\ Me(p).found \in Nat
      BY DEF IInv, TypeOK, Process
<1>2. sn' \in [secret : {sn.secret}, drawn : Nat, plugins : Nat]
      BY DEF IInv, TypeOK, Same, Server
<1>3. history' \in [left : Limits, clash : {history.clash}, foreign : {history.foreign},
                    deleted : {history.deleted}]
      BY DEF IInv, TypeOK, Same
<1> QED BY <1>1, <1>2, <1>3 DEF QuietStep, Keep, Same, Server

\* refresh saves its scan.
LEMMA SaveScanKeeps ==
    ASSUME IInv, NEW p \in Procs, SaveScan(p)
    PROVE  IInv'
<1>1. Busy(p) /\ procs[p] \in Process /\ procs[p].at = "save scan"
      BY DEF SaveScan, Busy, At, IInv, TypeOK
<1>2. CASE meta.is = "no dir"
  <2>1. QuietStep
        BY <1>2 DEF SaveScan, IInv, TypeOK, QuietStep, Same, Server
  <2> QED BY <1>1, <1>2, <2>1, EndKeeps DEF SaveScan
<1>3. CASE meta.is # "no dir"
  <2> DEFINE r == [procs[p] EXCEPT !.at = "save meta"]
  <2>1. QuietStep
        BY <1>3, KeepQuiet DEF SaveScan
  <2>2. r \in Process
        BY <1>1 DEF Process, Places
  <2>3. Fitting(p, r)
        BY ZenonT(60), <1>1
        DEF Fitting, IInv, Fits, Known, Timely, Founds, Shares, Clears, Uses, Process
  <2> HIDE DEF r
  <2> QED BY <1>1, <1>3, <2>1, <2>2, <2>3, QuietKeeps DEF SaveScan, Goto, r
<1> QED BY <1>2, <1>3

\* An upgrade saves its second scan.
LEMMA SaveRescanKeeps ==
    ASSUME IInv, NEW p \in Procs, SaveRescan(p)
    PROVE  IInv'
<1>1. Busy(p) /\ End(p)
      BY DEF SaveRescan, Busy, At
<1>2. CASE meta.is = "no dir"
  <2>1. QuietStep
        BY <1>2 DEF SaveRescan, IInv, TypeOK, QuietStep, Same, Server
  <2> QED BY <1>1, <2>1, EndKeeps
<1>3. CASE meta.is # "no dir"
      BY <1>1, <1>3, KeepQuiet, EndKeeps DEF SaveRescan
<1> QED BY <1>2, <1>3

\* The executor changes the plugins of the instance.
LEMMA OperateKeeps ==
    ASSUME IInv, NEW p \in Procs, Operate(p)
    PROVE  IInv'
<1>1. Busy(p) /\ procs[p] \in Process /\ procs[p].at = "operate"
      BY DEF Operate, Busy, At, IInv, TypeOK
<1>2. sn' \in [secret : {sn.secret}, drawn : Nat, plugins : Nat]
  <2>1. /\ sn \in [secret : [Apps -> Nat], drawn : Nat, plugins : Nat]
        /\ sn.plugins \in Nat
        BY DEF IInv, TypeOK
  <2>2. sn.plugins + 1 \in Nat
        BY <2>1
  <2>3. [sn EXCEPT !.plugins = @ + 1] \in [secret : {sn.secret}, drawn : Nat, plugins : Nat]
        BY <2>1, <2>2
  <2>4. sn \in [secret : {sn.secret}, drawn : Nat, plugins : Nat]
        BY <2>1
  <2> QED BY <2>3, <2>4 DEF Operate
<1>3. QuietStep
      BY <1>2 DEF Operate, IInv, TypeOK, QuietStep, Same, Files
<1>4. CASE Command(p) = "upgrade" /\ Goto(p, "resolve", [Me(p) EXCEPT !.again = TRUE])
  <2> DEFINE r == [procs[p] EXCEPT !.again = TRUE, !.at = "resolve"]
  <2>1. r \in Process
        BY <1>1 DEF Process, Places
  <2>2. Fitting(p, r)
        BY ZenonT(60), <1>1, <1>4
        DEF Command, Fitting, IInv, Fits, Known, Timely, Founds, Shares, Clears, Uses, Process
  <2> HIDE DEF r
  <2> QED BY <1>3, <1>4, <2>1, <2>2, QuietKeeps DEF Goto, r
<1>5. CASE End(p)
      BY <1>1, <1>3, <1>5, EndKeeps
<1> QED BY <1>4, <1>5 DEF Operate

\* A process dies.
LEMMA CrashKeeps ==
    ASSUME IInv, NEW p \in Procs, Crash(p)
    PROVE  IInv'
<1>1. /\ history \in [left : Limits, clash : BOOLEAN, foreign : SUBSET Apps, deleted : BOOLEAN]
      /\ history.left.crashes > 0
      BY DEF Crash, IInv, TypeOK
<1>2. Spent(history.left, "crashes") \in Limits
      BY <1>1 DEF Spent, Limits
<1>3. history' \in [left : Limits, clash : {history.clash}, foreign : {history.foreign},
                    deleted : {history.deleted}]
      BY <1>1, <1>2 DEF Crash
<1>4. QuietStep
      BY <1>3 DEF Crash, IInv, TypeOK, QuietStep, Same, Server, Files
<1> QED BY <1>4, EndKeeps DEF Crash

(***************************************************************************)
(* Steps that change the keychain, meta.json or the instance               *)
(***************************************************************************)
\* What the invariant says of one process but for its types.
Rest(me) ==
    /\ Fits(me) /\ Known(me) /\ Timely(me)
    /\ Undisturbed => Founds(me) /\ Shares(me)
    /\ ~history.clash => Clears(me)

Globals ==
    /\ MetaTimely
    /\ Undisturbed => MetaOpens
    /\ ~history.clash /\ history.deleted => Gone

\* A step of p changes its record and no other.
LEMMA Frame ==
    ASSUME IInv, NEW p \in Procs, NEW r \in Process, procs' = [procs EXCEPT ![p] = r]
    PROVE  /\ procs' \in [Procs -> Process]
           /\ procs'[p] = r
           /\ \A q \in Procs : q # p => procs'[q] = procs[q]
  BY DEF IInv, TypeOK

\* Who founds or ends the profile is alone while nothing clashed.
LEMMA Alone ==
    ASSUME IInv, NEW p \in Procs, NEW q \in Procs, q # p, ~history.clash,
           procs[p].at # "idle"
    PROVE  /\ CommandOf(procs[p]) \in Founding => procs[q].at = "idle"
           /\ procs[q].at # "idle" => CommandOf(procs[q]) \notin Founding
  BY DEF IInv, Apart

\* A step that lets p go on with its command or end it keeps what is said of two.
LEMMA PairsKeep ==
    ASSUME IInv, NEW p \in Procs, NEW r \in Process, procs' = [procs EXCEPT ![p] = r],
           history'.clash = history.clash, history'.foreign = history.foreign,
           r.at = "idle" \/ (procs[p].at # "idle" /\ r.todo = procs[p].todo),
           Uses(r) => Uses(procs[p]) /\ r.app = procs[p].app
    PROVE  \A q, w \in Procs :
             (/\ ~history.clash /\ q # w => Apart(procs[q], procs[w])
              /\ Undisturbed => OneApp(procs[q], procs[w]))'
<1>1. /\ procs'[p] = r
      /\ \A q \in Procs : q # p => procs'[q] = procs[q]
      BY Frame
<1>2. ASSUME NEW q \in Procs, NEW w \in Procs
      PROVE  (~history.clash /\ q # w => Apart(procs[q], procs[w]))'
  <2>1. ~history.clash /\ q # w => Apart(procs[q], procs[w])
        BY DEF IInv
  <2>2. CASE q # p /\ w # p
        BY <1>1, <2>1, <2>2 DEF Apart
  <2>3. CASE q = p /\ w # p
        BY <1>1, <2>1, <2>3 DEF Apart
  <2>4. CASE q # p /\ w = p
        BY <1>1, <2>1, <2>4 DEF Apart
  <2> QED BY <2>2, <2>3, <2>4
<1>3. ASSUME NEW q \in Procs, NEW w \in Procs
      PROVE  (Undisturbed => OneApp(procs[q], procs[w]))'
  <2>1. Undisturbed => OneApp(procs[q], procs[w])
        BY DEF IInv
  <2>2. Undisturbed' = Undisturbed
        BY DEF Undisturbed
  <2>3. CASE q # p /\ w # p
        BY <1>1, <2>1, <2>2, <2>3 DEF OneApp, Uses
  <2>4. CASE q = p /\ w # p
        BY <1>1, <2>1, <2>2, <2>4 DEF OneApp, Uses
  <2>5. CASE q # p /\ w = p
        BY <1>1, <2>1, <2>2, <2>5 DEF OneApp, Uses
  <2>6. CASE q = p /\ w = p
        BY <1>1, <2>6 DEF OneApp
  <2> QED BY <2>3, <2>4, <2>5, <2>6
<1> QED BY <1>2, <1>3

\* So much is left to show of a step of p.
LEMMA StepKeeps ==
    ASSUME IInv, NEW p \in Procs, NEW r \in Process, procs' = [procs EXCEPT ![p] = r],
           history'.clash = history.clash, history'.foreign = history.foreign,
           r.at = "idle" \/ (procs[p].at # "idle" /\ r.todo = procs[p].todo),
           Uses(r) => Uses(procs[p]) /\ r.app = procs[p].app,
           TypeOK', Globals', Rest(procs[p])',
           \A q \in Procs : q # p => Rest(procs[q])'
    PROVE  IInv'
  BY PairsKeep DEF IInv, Rest, Globals

\* What p stores is its application's secret: the profile's, and everybody's who uses it.
LEMMA StoreSecretKeeps ==
    ASSUME IInv, NEW p \in Procs, StoreSecret(p)
    PROVE  IInv'
<1> DEFINE r == [procs[p] EXCEPT !.at = "store access"]
<1>1. /\ procs[p] \in Process /\ procs[p].at = "store secret"
      /\ procs' = [procs EXCEPT ![p] = r]
      /\ keys' = [keys EXCEPT !.secret = procs[p].secret]
      BY DEF StoreSecret, At, Goto, IInv, TypeOK
<1>2. /\ UNCHANGED clock /\ UNCHANGED sn /\ UNCHANGED others /\ UNCHANGED meta
      /\ UNCHANGED inventory /\ UNCHANGED default /\ UNCHANGED history
      BY DEF StoreSecret, Same, Server, Files
<1>3. r \in Process
      BY <1>1 DEF Process, Places
<1>4. /\ r.at = "store access" /\ r.todo = procs[p].todo /\ r.app = procs[p].app
      /\ r.via = procs[p].via /\ r.token = procs[p].token /\ r.now = procs[p].now
      /\ r.expires = procs[p].expires
      BY <1>1 DEF Process
<1> HIDE DEF r
<1>5. /\ procs' \in [Procs -> Process] /\ procs'[p] = r
      /\ \A q \in Procs : q # p => procs'[q] = procs[q]
      BY <1>1, <1>3, Frame
<1>6. /\ keys' \in [secret : Nat, access : Tokens, refresh : BOOLEAN]
      /\ keys'.secret = procs[p].secret /\ keys'.access = keys.access
      BY <1>1 DEF IInv, TypeOK, Process
<1>7. TypeOK'
      BY <1>2, <1>5, <1>6 DEF IInv, TypeOK, Readable, Existing
<1>8. Undisturbed => procs[p].secret = sn.secret[procs[p].app]
      BY <1>1 DEF IInv, Founds
<1>9. Undisturbed /\ Readable => meta.app = procs[p].app
      BY <1>1 DEF IInv, Fits, Founds, Shares, Uses, Readable
<1>10. Globals'
  <2>1. MetaTimely'
        BY <1>2, <1>6 DEF IInv, MetaTimely
  <2>2. (Undisturbed => MetaOpens)'
        BY <1>2, <1>6, <1>8, <1>9 DEF Undisturbed, MetaOpens, Opens, Readable
  <2>3. (~history.clash /\ history.deleted => Gone)'
        BY <1>1, <1>2 DEF IInv, Clears
  <2> QED BY <2>1, <2>2, <2>3 DEF Globals
<1>11. Rest(procs[p])'
  <2>1. Fits(r) /\ Known(r)
        BY <1>1, <1>4 DEF IInv, Fits, Known, Uses
  <2>2. (Fits(procs[p]) /\ Known(procs[p]))'
        BY <1>2, <1>5, <2>1 DEF Fits, Known, Uses
  <2>3. Timely(procs[p])'
        BY <1>1, <1>2, <1>4, <1>5, <1>6 DEF IInv, Timely
  <2>4. (Undisturbed => Founds(procs[p]))'
        BY <1>1, <1>2, <1>4, <1>5, <1>6, <1>8 DEF IInv, Undisturbed, Founds, Opens, Readable
  <2>5. (Undisturbed => Shares(procs[p]))'
        BY <1>1, <1>2, <1>4, <1>5, <1>6, <1>8, <1>9
        DEF IInv, Undisturbed, Shares, Uses, Opens, Readable
  <2>6. (~history.clash => Clears(procs[p]))'
        BY <1>1, <1>2, <1>4, <1>5 DEF IInv, Clears
  <2> QED BY <2>2, <2>3, <2>4, <2>5, <2>6 DEF Rest
<1>12. ASSUME NEW q \in Procs, q # p
       PROVE  Rest(procs[q])'
  <2>1. procs'[q] = procs[q]
        BY <1>5, <1>12
  <2>2. (Fits(procs[q]) /\ Known(procs[q]))'
        BY <1>2, <2>1 DEF IInv, Fits, Known, Uses
  <2>3. Timely(procs[q])'
        BY <1>2, <1>6, <2>1 DEF IInv, Timely
  <2>4. ~history.clash =>
          /\ CommandOf(procs[p]) \in Founding => procs[q].at = "idle"
          /\ procs[q].at # "idle" => CommandOf(procs[q]) \notin Founding
        BY <1>1, <1>12, Alone
  <2>5. Undisturbed /\ Uses(procs[q]) => procs[q].app = procs[p].app
        BY <1>1, <2>4 DEF IInv, OneApp, Fits, Uses, Undisturbed
  <2>6. ~history.clash =>
          /\ procs[q].at \notin FoundPlaces
          /\ procs[q].at \in StorePlaces => Uses(procs[q])
        BY <2>4 DEF IInv, Fits, Uses
  <2>7. (Undisturbed => Founds(procs[q]))'
        BY ZenonT(60), <1>2, <1>6, <1>8, <2>1, <2>5, <2>6 DEF IInv, Undisturbed, Founds, Opens, Uses
  <2>8. (Undisturbed => Shares(procs[q]))'
        BY <1>2, <1>6, <1>8, <2>1, <2>5 DEF IInv, Undisturbed, Shares, Uses, Opens, Readable
  <2>9. (~history.clash => Clears(procs[q]))'
        BY <1>2, <2>1, <2>4 DEF IInv, Clears, Fits
  <2> QED BY <2>2, <2>3, <2>7, <2>8, <2>9 DEF Rest
<1>13. Uses(r) => Uses(procs[p])
       BY <1>1, <1>4 DEF Uses
<1> QED BY <1>1, <1>2, <1>3, <1>4, <1>7, <1>10, <1>11, <1>12, <1>13, StepKeeps

\* No process is told of an expiry past the stored token's by more than the buffer.
LEMMA StoreAccessKeeps ==
    ASSUME IInv, NEW p \in Procs, StoreAccess(p)
    PROVE  IInv'
<1> DEFINE r == [procs[p] EXCEPT !.at = "store refresh"]
<1>1. /\ procs[p] \in Process /\ procs[p].at = "store access"
      /\ procs' = [procs EXCEPT ![p] = r]
      /\ keys' = [keys EXCEPT !.access = procs[p].token]
      BY DEF StoreAccess, At, Goto, IInv, TypeOK
<1>2. /\ UNCHANGED clock /\ UNCHANGED sn /\ UNCHANGED others /\ UNCHANGED meta
      /\ UNCHANGED inventory /\ UNCHANGED default /\ UNCHANGED history
      BY DEF StoreAccess, Same, Server, Files
<1>3. r \in Process
      BY <1>1 DEF Process, Places
<1>4. /\ r.at = "store refresh" /\ r.todo = procs[p].todo /\ r.app = procs[p].app
      /\ r.via = procs[p].via /\ r.now = procs[p].now /\ r.expires = procs[p].expires
      BY <1>1 DEF Process
<1> HIDE DEF r
<1>5. /\ procs' \in [Procs -> Process] /\ procs'[p] = r
      /\ \A q \in Procs : q # p => procs'[q] = procs[q]
      BY <1>1, <1>3, Frame
<1>6. /\ keys' \in [secret : Nat, access : Tokens, refresh : BOOLEAN]
      /\ keys'.secret = keys.secret /\ keys'.access = procs[p].token
      BY <1>1 DEF IInv, TypeOK, Process
<1>7. TypeOK'
      BY <1>2, <1>5, <1>6 DEF IInv, TypeOK, Readable, Existing
\* whatever was computed so far is at most Lifetime from now
<1>8. /\ clock \in Nat
      /\ \A q \in Procs : procs[q].now \in Nat /\ procs[q].expires \in Nat
      /\ meta.expires \in Nat
      BY DEF IInv, TypeOK, Process
<1>9. keys'.access # None => keys'.access.expires \in Nat
      BY <1>6 DEF Tokens
<1>10. keys'.access # None => clock + Lifetime <= keys'.access.expires + Skew
  <2>1. clock <= procs[p].now + Skew /\ procs[p].now + Lifetime <= procs[p].token.expires
        BY <1>1 DEF IInv, Timely
  <2> QED BY <1>6, <1>8, <1>9, <2>1, LifetimeAssumption, BufferAssumption
<1>11. Globals'
  <2>1. MetaTimely'
    <3>1. meta.expires <= clock + Lifetime
          BY DEF IInv, MetaTimely
    <3>2. keys'.access # None => meta.expires <= keys'.access.expires + 2 * Skew
          BY <1>8, <1>9, <1>10, <3>1, LifetimeAssumption, BufferAssumption
    <3> QED BY <1>2, <3>1, <3>2 DEF MetaTimely
  <2>2. (Undisturbed => MetaOpens)'
        BY <1>2, <1>6 DEF IInv, Undisturbed, MetaOpens, Opens, Readable
  <2>3. (~history.clash /\ history.deleted => Gone)'
        BY <1>1, <1>2 DEF IInv, Clears
  <2> QED BY <2>1, <2>2, <2>3 DEF Globals
<1>12. ASSUME NEW q \in Procs
       PROVE  /\ procs[q].expires <= clock + Lifetime
              /\ keys'.access # None => procs[q].expires <= keys'.access.expires + 2 * Skew
              /\ procs[q].now <= clock /\ keys'.access # None =>
                   procs[q].now + Lifetime <= keys'.access.expires + Skew
  <2>1. procs[q].expires <= clock + Lifetime
        BY DEF IInv, Timely
  <2> QED BY <1>8, <1>9, <1>10, <2>1, LifetimeAssumption, BufferAssumption
<1>13. Rest(procs[p])'
  <2>1. (Fits(procs[p]) /\ Known(procs[p]))'
        BY <1>1, <1>2, <1>4, <1>5 DEF IInv, Fits, Known, Uses
  <2>2. Timely(procs[p])'
        BY <1>1, <1>2, <1>4, <1>5, <1>12 DEF IInv, Timely
  <2>3. (Undisturbed => Founds(procs[p]) /\ Shares(procs[p]))'
        BY ZenonT(60), <1>1, <1>2, <1>4, <1>5, <1>6
        DEF IInv, Undisturbed, Founds, Shares, Uses, Opens, Readable
  <2>4. (~history.clash => Clears(procs[p]))'
        BY <1>1, <1>2, <1>4, <1>5 DEF IInv, Clears
  <2> QED BY <2>1, <2>2, <2>3, <2>4 DEF Rest
<1>14. ASSUME NEW q \in Procs, q # p
       PROVE  Rest(procs[q])'
  <2>1. procs'[q] = procs[q]
        BY <1>5, <1>14
  <2>2. (Fits(procs[q]) /\ Known(procs[q]))'
        BY <1>2, <2>1 DEF IInv, Fits, Known, Uses
  <2>3. Timely(procs[q])'
        BY <1>2, <1>12, <2>1 DEF IInv, Timely
  <2>4. (Undisturbed => Founds(procs[q]) /\ Shares(procs[q]))'
        BY <1>2, <1>6, <2>1 DEF IInv, Undisturbed, Founds, Shares, Uses, Opens, Readable
  <2>5. ~history.clash => procs[q].at \notin DeletePlaces
        BY <1>1, <1>14, Alone DEF IInv, Fits
  <2>6. (~history.clash => Clears(procs[q]))'
        BY <1>2, <2>1, <2>5 DEF IInv, Clears
  <2> QED BY <2>2, <2>3, <2>4, <2>6 DEF Rest
<1>15. Uses(r) => Uses(procs[p])
       BY <1>1, <1>4 DEF Uses
<1> QED BY <1>1, <1>2, <1>3, <1>4, <1>7, <1>11, <1>13, <1>14, <1>15, StepKeeps

\* The last entry of the three, and what the caller of the grant is told to go by.
LEMMA StoreRefreshKeeps ==
    ASSUME IInv, NEW p \in Procs, StoreRefresh(p)
    PROVE  IInv'
<1>1. /\ procs[p] \in Process /\ procs[p].at = "store refresh" /\ Busy(p)
      /\ keys' = [keys EXCEPT !.refresh = TRUE]
      BY DEF StoreRefresh, At, Busy, IInv, TypeOK
<1>2. /\ UNCHANGED clock /\ UNCHANGED sn /\ UNCHANGED others /\ UNCHANGED meta
      /\ UNCHANGED inventory /\ UNCHANGED default /\ UNCHANGED history
      BY DEF StoreRefresh, Same, Server, Files
<1>3. /\ keys' \in [secret : Nat, access : Tokens, refresh : BOOLEAN]
      /\ keys'.secret = keys.secret /\ keys'.access = keys.access
      BY <1>1 DEF IInv, TypeOK
<1>4. /\ clock \in Nat /\ procs[p].now \in Nat /\ procs[p].expires \in Nat
      /\ keys.access # None => keys.access.expires \in Nat
  <2>1. keys.access \in Tokens
        BY DEF IInv, TypeOK
  <2> QED BY <1>1, <2>1 DEF IInv, TypeOK, Process, Tokens
<1>5. procs[p].now + Lifetime \in Nat /\ clock + Lifetime \in Nat
      BY <1>4, LifetimeAssumption
<1>6. \E r \in Process :
        /\ procs' = [procs EXCEPT ![p] = r]
        /\ \/ r.at = "idle" /\ r.expires = 0 /\ Fits(r) /\ Known(r) /\ Timely(r)
           \/ /\ r.todo = procs[p].todo /\ r.app = procs[p].app
              /\ r.via = procs[p].via /\ r.now = procs[p].now
              /\ \/ /\ r.at = "save expiry" /\ procs[p].via \in {"refresh", "password"}
                    /\ r.expires \in {procs[p].now + Lifetime, clock + Lifetime}
                 \/ /\ r.at = "describe" /\ procs[p].via = "exchange"
                    /\ r.expires = procs[p].expires
  <2>1. CASE /\ procs[p].via = "refresh"
             /\ Goto(p, "save expiry", [Me(p) EXCEPT !.expires = Me(p).now + Lifetime])
    <3> DEFINE r == [procs[p] EXCEPT !.expires = procs[p].now + Lifetime, !.at = "save expiry"]
    <3>1. r \in Process
          BY <1>1, <1>5 DEF Process, Places
    <3>2. /\ r.todo = procs[p].todo /\ r.app = procs[p].app /\ r.via = procs[p].via
          /\ r.now = procs[p].now /\ r.at = "save expiry"
          /\ r.expires = procs[p].now + Lifetime
          BY <1>1 DEF Process
    <3>3. procs' = [procs EXCEPT ![p] = r]
          BY <2>1 DEF Goto
    <3> HIDE DEF r
    <3> QED BY <2>1, <3>1, <3>2, <3>3
  <2>2. CASE /\ procs[p].via = "password"
             /\ Goto(p, "save expiry", [Me(p) EXCEPT !.expires = clock + Lifetime])
    <3> DEFINE r == [procs[p] EXCEPT !.expires = clock + Lifetime, !.at = "save expiry"]
    <3>1. r \in Process
          BY <1>1, <1>5 DEF Process, Places
    <3>2. /\ r.todo = procs[p].todo /\ r.app = procs[p].app /\ r.via = procs[p].via
          /\ r.now = procs[p].now /\ r.at = "save expiry"
          /\ r.expires = clock + Lifetime
          BY <1>1 DEF Process
    <3>3. procs' = [procs EXCEPT ![p] = r]
          BY <2>2 DEF Goto
    <3> HIDE DEF r
    <3> QED BY <2>2, <3>1, <3>2, <3>3
  <2>3. CASE procs[p].via = "exchange" /\ Goto(p, "describe", Me(p))
    <3> DEFINE r == [procs[p] EXCEPT !.at = "describe"]
    <3>1. r \in Process
          BY <1>1 DEF Process, Places
    <3>2. /\ r.todo = procs[p].todo /\ r.app = procs[p].app /\ r.via = procs[p].via
          /\ r.now = procs[p].now /\ r.at = "describe"
          /\ r.expires = procs[p].expires
          BY <1>1 DEF Process
    <3>3. procs' = [procs EXCEPT ![p] = r]
          BY <2>3 DEF Goto
    <3> HIDE DEF r
    <3> QED BY <2>3, <3>1, <3>2, <3>3
  <2>4. CASE End(p)
    <3>1. PICK r \in Process : /\ r = [IdleProc EXCEPT !.todo = Tail(procs[p].todo)]
                               /\ r.at = "idle" /\ Fitting(p, r)
          BY <1>1, EndFits
    <3>2. r.expires = 0
          BY <3>1 DEF IdleProc
    <3>3. procs' = [procs EXCEPT ![p] = r]
          BY <2>4, <3>1 DEF End
    <3> QED BY <3>1, <3>2, <3>3 DEF Fitting
  <2> QED BY <2>1, <2>2, <2>3, <2>4 DEF StoreRefresh
<1>7. PICK r \in Process :
        /\ procs' = [procs EXCEPT ![p] = r]
        /\ \/ r.at = "idle" /\ r.expires = 0 /\ Fits(r) /\ Known(r) /\ Timely(r)
           \/ /\ r.todo = procs[p].todo /\ r.app = procs[p].app
              /\ r.via = procs[p].via /\ r.now = procs[p].now
              /\ \/ /\ r.at = "save expiry" /\ procs[p].via \in {"refresh", "password"}
                    /\ r.expires \in {procs[p].now + Lifetime, clock + Lifetime}
                 \/ /\ r.at = "describe" /\ procs[p].via = "exchange"
                    /\ r.expires = procs[p].expires
      BY <1>6
<1>8. /\ procs' \in [Procs -> Process] /\ procs'[p] = r
      /\ \A q \in Procs : q # p => procs'[q] = procs[q]
      BY <1>7, Frame
<1>9. TypeOK'
      BY <1>2, <1>3, <1>8 DEF IInv, TypeOK, Readable, Existing
<1>10. Globals'
  <2>1. MetaTimely' /\ (Undisturbed => MetaOpens)'
        BY <1>2, <1>3 DEF IInv, MetaTimely, Undisturbed, MetaOpens, Opens, Readable
  <2>2. (~history.clash /\ history.deleted => Gone)'
        BY <1>1, <1>2 DEF IInv, Clears
  <2> QED BY <2>1, <2>2 DEF Globals
<1>11. Timely(r)
  <2>1. /\ procs[p].now <= clock /\ clock <= procs[p].now + Skew
        /\ procs[p].expires <= clock + Lifetime
        /\ keys.access # None => procs[p].expires <= keys.access.expires + 2 * Skew
        /\ keys.access # None => procs[p].now + Lifetime <= keys.access.expires + Skew
        BY <1>1 DEF IInv, Timely
  <2>2. /\ procs[p].now + Lifetime <= clock + Lifetime
        /\ clock + Lifetime <= clock + Lifetime
        /\ keys.access # None =>
             /\ procs[p].now + Lifetime <= keys.access.expires + 2 * Skew
             /\ clock + Lifetime <= keys.access.expires + 2 * Skew
        BY <1>4, <2>1, LifetimeAssumption, BufferAssumption
  <2> QED BY <1>7, <2>1, <2>2 DEF Timely
<1>12. Rest(procs[p])'
  <2>1. Fits(r) /\ Known(r)
        BY <1>1, <1>7 DEF IInv, Fits, Known, Uses
  <2>2. (Fits(procs[p]) /\ Known(procs[p]) /\ Timely(procs[p]))'
        BY ZenonT(60), <1>2, <1>3, <1>8, <1>11, <2>1 DEF Fits, Known, Timely, Uses
  <2>3. (Undisturbed => Founds(procs[p]))'
        BY <1>1, <1>2, <1>3, <1>7, <1>8 DEF IInv, Undisturbed, Founds, Opens, Readable
  <2>4. (Undisturbed => Shares(procs[p]))'
        BY <1>1, <1>2, <1>3, <1>7, <1>8 DEF IInv, Undisturbed, Shares, Uses, Opens, Readable
  <2>5. (~history.clash => Clears(procs[p]))'
        BY <1>1, <1>2, <1>7, <1>8 DEF IInv, Clears
  <2> QED BY <2>2, <2>3, <2>4, <2>5 DEF Rest
<1>13. ASSUME NEW q \in Procs, q # p
       PROVE  Rest(procs[q])'
  <2>1. procs'[q] = procs[q]
        BY <1>8, <1>13
  <2>2. (Fits(procs[q]) /\ Known(procs[q]) /\ Timely(procs[q]))'
        BY ZenonT(60), <1>2, <1>3, <2>1 DEF IInv, Fits, Known, Timely, Uses
  <2>3. (Undisturbed => Founds(procs[q]) /\ Shares(procs[q]))'
        BY <1>2, <1>3, <2>1 DEF IInv, Undisturbed, Founds, Shares, Uses, Opens, Readable
  <2>4. ~history.clash => procs[q].at \notin DeletePlaces
        BY <1>1, <1>13, Alone DEF IInv, Fits
  <2>5. (~history.clash => Clears(procs[q]))'
        BY <1>2, <2>1, <2>4 DEF IInv, Clears
  <2> QED BY <2>2, <2>3, <2>5 DEF Rest
<1>14. Uses(r) => Uses(procs[p]) /\ r.app = procs[p].app
       BY <1>1, <1>7 DEF Uses
<1> QED BY <1>1, <1>2, <1>7, <1>9, <1>10, <1>12, <1>13, <1>14, StepKeeps

\* delete_tokens: with every entry there is less that could be wrong.
LEMMA DeleteEntryKeeps ==
    ASSUME IInv, NEW p \in Procs, NEW place \in {"delete access", "delete refresh", "remove files"},
           procs[p].at \in DeletePlaces, Goto(p, place, Me(p)), Same(<<Server, Files, history>>),
           keys' \in [secret : Nat, access : Tokens, refresh : BOOLEAN],
           keys'.secret \in {0, keys.secret}, keys'.access \in {None, keys.access},
           ~history.clash => /\ keys'.secret = 0
                             /\ place = "delete refresh" => keys'.access = None
                             /\ place = "remove files" => keys' = NoKeys
    PROVE  IInv'
<1> DEFINE r == [procs[p] EXCEPT !.at = place]
<1>1. procs[p] \in Process /\ procs' = [procs EXCEPT ![p] = r]
      BY DEF Goto, IInv, TypeOK
<1>2. /\ UNCHANGED clock /\ UNCHANGED sn /\ UNCHANGED others /\ UNCHANGED meta
      /\ UNCHANGED inventory /\ UNCHANGED default /\ UNCHANGED history
      BY DEF Same, Server, Files
<1>3. r \in Process
      BY ZenonT(60), <1>1 DEF Process, Places
<1>4. /\ r.at = place /\ r.todo = procs[p].todo /\ r.app = procs[p].app
      /\ r.via = procs[p].via /\ r.now = procs[p].now /\ r.expires = procs[p].expires
      BY <1>1 DEF Process
<1> HIDE DEF r
<1>5. /\ procs' \in [Procs -> Process] /\ procs'[p] = r
      /\ \A q \in Procs : q # p => procs'[q] = procs[q]
      BY <1>1, <1>3, Frame
<1>6. TypeOK'
      BY <1>2, <1>5 DEF IInv, TypeOK, Readable, Existing
<1>7. Globals'
  <2>1. MetaTimely' /\ (Undisturbed => MetaOpens)'
        BY <1>2 DEF IInv, MetaTimely, Undisturbed, MetaOpens, Opens, Readable
  <2>2. (~history.clash /\ history.deleted => Gone)'
        BY <1>2 DEF IInv, Clears
  <2> QED BY <2>1, <2>2 DEF Globals
<1>8. Rest(procs[p])'
  <2>1. (Fits(procs[p]) /\ Known(procs[p]))'
        BY ZenonT(60), <1>2, <1>4, <1>5 DEF IInv, Fits, Known, Uses
  <2>2. Timely(procs[p])'
        BY <1>2, <1>4, <1>5 DEF IInv, Timely
  <2>3. (Undisturbed => Founds(procs[p]) /\ Shares(procs[p]))'
        BY <1>4, <1>5 DEF Founds, Shares, Uses
  <2>4. (~history.clash => Clears(procs[p]))'
        BY <1>2, <1>4, <1>5 DEF IInv, Clears
  <2> QED BY <2>1, <2>2, <2>3, <2>4 DEF Rest
<1>9. ASSUME NEW q \in Procs, q # p
      PROVE  Rest(procs[q])'
  <2>1. procs'[q] = procs[q]
        BY <1>5, <1>9
  <2>2. (Fits(procs[q]) /\ Known(procs[q]))'
        BY ZenonT(60), <1>2, <2>1 DEF IInv, Fits, Known, Uses
  <2>3. Timely(procs[q])'
        BY <1>2, <2>1 DEF IInv, Timely
  <2>4. ~history.clash => procs[q].at = "idle"
        BY <1>9, Alone DEF IInv, Fits
  <2>5. (Undisturbed => Founds(procs[q]) /\ Shares(procs[q]))'
        BY <1>2, <2>1, <2>4 DEF Undisturbed, Founds, Shares, Uses
  <2>6. (~history.clash => Clears(procs[q]))'
        BY <1>2, <2>1, <2>4 DEF Clears
  <2> QED BY <2>2, <2>3, <2>5, <2>6 DEF Rest
<1>10. ~Uses(r)
       BY <1>4 DEF Uses
<1> QED BY <1>1, <1>2, <1>3, <1>4, <1>6, <1>7, <1>8, <1>9, <1>10, StepKeeps

\* The three entries.
LEMMA DeleteKeysKeep ==
    ASSUME IInv, NEW p \in Procs, DeleteSecret(p) \/ DeleteAccess(p) \/ DeleteRefresh(p)
    PROVE  IInv'
<1>1. keys \in [secret : Nat, access : Tokens, refresh : BOOLEAN] /\ None \in Tokens
      BY DEF IInv, TypeOK, Tokens
<1>2. CASE DeleteSecret(p)
      BY <1>1, <1>2, DeleteEntryKeeps DEF DeleteSecret, At
<1>3. CASE DeleteAccess(p)
  <2>1. ~history.clash => keys.secret = 0
        BY <1>3 DEF DeleteAccess, At, IInv, Clears
  <2> QED BY <1>1, <1>3, <2>1, DeleteEntryKeeps DEF DeleteAccess, At
<1>4. CASE DeleteRefresh(p)
  <2>1. ~history.clash => keys.secret = 0 /\ keys.access = None
        BY <1>4 DEF DeleteRefresh, At, IInv, Clears
  <2>2. ~history.clash => keys' = NoKeys
        BY <1>1, <1>4, <2>1 DEF DeleteRefresh, NoKeys
  <2> QED BY <1>1, <1>4, <2>1, <2>2, DeleteEntryKeeps DEF DeleteRefresh, At
<1> QED BY <1>2, <1>3, <1>4

\* Nobody else founds or ends the profile while p is at work and nothing clashed.
LEMMA OthersUse ==
    ASSUME IInv, NEW p \in Procs, NEW q \in Procs, q # p, procs[p].at # "idle",
           ~history.clash
    PROVE  /\ procs[q].at \notin FoundPlaces \cup DeletePlaces
           /\ procs[q].at \in StorePlaces => procs[q].via \in {"refresh", "password"}
           /\ Uses(procs[q]) => procs[p].at \notin FoundPlaces \cup DeletePlaces
<1>1. /\ CommandOf(procs[p]) \in Founding => procs[q].at = "idle"
      /\ procs[q].at # "idle" => CommandOf(procs[q]) \notin Founding
      BY Alone
<1>2. procs[q].at \notin FoundPlaces \cup DeletePlaces
      BY <1>1 DEF IInv, Fits
<1>3. procs[q].at \in StorePlaces => procs[q].via \in {"refresh", "password"}
      BY <1>1 DEF IInv, Fits
<1>4. procs[p].at \in FoundPlaces \cup DeletePlaces => procs[q].at = "idle"
      BY <1>1 DEF IInv, Fits
<1> QED BY <1>2, <1>3, <1>4 DEF Uses

\* A missing expiry is early enough.
LEMMA NoExpiry ==
    ASSUME IInv
    PROVE  /\ 0 <= clock + Lifetime
           /\ keys.access # None => 0 <= keys.access.expires + 2 * Skew
<1>1. clock \in Nat /\ keys.access \in Tokens
      BY DEF IInv, TypeOK
<1>2. keys.access # None => keys.access.expires \in Nat
      BY <1>1 DEF Tokens
<1>3. 0 <= clock + Lifetime
      BY <1>1, LifetimeAssumption
<1>4. keys.access # None => 0 <= keys.access.expires + 2 * Skew
      BY <1>2, BufferAssumption
<1> QED BY <1>3, <1>4

\* A process that is left alone fits where it is.
LEMMA SameFits ==
    ASSUME IInv, NEW q \in Procs, procs'[q] = procs[q]
    PROVE  Fits(procs[q])' /\ (sn' = sn => Known(procs[q])')
  BY DEF IInv, Fits, Known, Uses

\* meta.json, or the whole directory, can be lost at any time.
LEMMA MetaLostKeeps ==
    ASSUME IInv, NEW p \in Procs, NEW r \in Process, procs' = [procs EXCEPT ![p] = r],
           procs[p].at # "idle", NEW state \in {"no dir", "no file", "torn"},
           meta' = MetaIs(state), inventory' \in Nat, state = "no dir" => inventory' = 0,
           Same(<<Server, default, keys, history>>),
           r.at # "idle" /\ r.todo = procs[p].todo,
           Uses(r) => Uses(procs[p]) /\ r.app = procs[p].app,
           ~history.clash => ~history.deleted,
           Rest(procs[p])'
    PROVE  IInv'
<1>1. /\ UNCHANGED clock /\ UNCHANGED sn /\ UNCHANGED others
      /\ UNCHANGED default /\ UNCHANGED keys /\ UNCHANGED history
      BY DEF Same, Server
<1>2. /\ procs' \in [Procs -> Process] /\ procs'[p] = r
      /\ \A q \in Procs : q # p => procs'[q] = procs[q]
      BY Frame
<1>3. meta'.is = state /\ meta'.app = 0 /\ meta'.expires = 0
      BY DEF MetaIs
<1>4. TypeOK'
  <2>1. meta' \in [is : {"no dir", "no file", "torn", "whole"}, app : Apps \cup {0}, expires : Nat]
        BY DEF MetaIs
  <2>2. ~Readable'
        BY <1>3 DEF Readable
  <2> QED BY <1>1, <1>2, <1>3, <2>1, <2>2 DEF IInv, TypeOK
<1>5. Globals'
  <2>1. MetaTimely'
        BY <1>1, <1>3, NoExpiry DEF MetaTimely
  <2>2. (Undisturbed => MetaOpens)'
        BY <1>3 DEF MetaOpens, Readable
  <2>3. (~history.clash /\ history.deleted => Gone)'
        BY <1>1
  <2> QED BY <2>1, <2>2, <2>3 DEF Globals
<1>6. ASSUME NEW q \in Procs, q # p
      PROVE  Rest(procs[q])'
  <2>1. procs'[q] = procs[q]
        BY <1>2, <1>6
  <2>2. Fits(procs[q])' /\ Known(procs[q])'
        BY <1>1, <1>6, <2>1, SameFits
  <2>3. Timely(procs[q])'
        BY <1>1, <2>1 DEF IInv, Timely
  <2>4. ~history.clash =>
          /\ procs[q].at \notin FoundPlaces \cup DeletePlaces
          /\ procs[q].at \in StorePlaces => procs[q].via \in {"refresh", "password"}
        BY <1>6, OthersUse
  <2>5. (Undisturbed => Founds(procs[q]))'
        BY ZenonT(60), <1>1, <2>1, <2>4 DEF IInv, Undisturbed, Founds, Opens
  <2>6. (Undisturbed => Shares(procs[q]))'
        BY <1>1, <1>3, <2>1 DEF IInv, Undisturbed, Shares, Opens, Uses, Readable
  <2>7. (~history.clash => Clears(procs[q]))'
        BY <1>1, <2>1, <2>4 DEF IInv, Clears
  <2> QED BY <2>2, <2>3, <2>5, <2>6, <2>7 DEF Rest
<1> QED BY <1>1, <1>4, <1>5, <1>6, StepKeeps

\* registry.save truncates the file.
LEMMA TruncateKeeps ==
    ASSUME IInv, NEW p \in Procs, NEW from, NEW to, Truncate(p, from, to),
           \/ from = "save expiry" /\ to = "write expiry"
           \/ from = "save meta" /\ to = "write meta"
           \/ from = "truncate new" /\ to = "write new"
    PROVE  IInv'
<1>1. /\ procs[p] \in Process /\ procs[p].at = from /\ Busy(p)
      /\ Same(<<Server, inventory, default, keys, history>>)
      BY DEF Truncate, At, Busy, IInv, TypeOK
<1>2. CASE meta.is = "no dir"
  <2>1. QuietStep
        BY <1>1, <1>2 DEF Truncate, IInv, TypeOK, QuietStep, Same, Server
  <2> QED BY <1>1, <1>2, <2>1, EndKeeps DEF Truncate
<1>3. CASE meta.is # "no dir"
  <2>1. PICK r \in Process : r = [procs[p] EXCEPT !.at = to]
        BY ZenonT(60), <1>1 DEF Process, Places
  <2>2. procs' = [procs EXCEPT ![p] = r] /\ meta' = MetaIs("torn")
        BY <1>3, <2>1 DEF Truncate, Goto
  <2>3. /\ r.at = to /\ r.todo = procs[p].todo /\ r.app = procs[p].app
        /\ r.via = procs[p].via /\ r.now = procs[p].now /\ r.expires = procs[p].expires
        BY <1>1, <2>1 DEF Process
  <2>4. /\ UNCHANGED clock /\ UNCHANGED keys /\ UNCHANGED sn /\ UNCHANGED history
        /\ inventory' \in Nat
        BY <1>1 DEF Same, Server, IInv, TypeOK
  <2>5. ~history.clash => ~history.deleted
        BY <1>1 DEF IInv, Clears
  <2>6. procs'[p] = r
        BY <2>2, Frame
  <2>7. ~Readable'
        BY <2>2 DEF Readable, MetaIs
  <2>8. Fits(procs[p])' /\ Known(procs[p])'
        BY ZenonT(60), <1>1, <2>3, <2>4, <2>6 DEF IInv, Fits, Known, Uses
  <2>9. Timely(procs[p])'
        BY <1>1, <2>3, <2>4, <2>6 DEF IInv, Timely
  <2>10. (Undisturbed => Founds(procs[p]) /\ Shares(procs[p]))'
        BY <1>1, <2>3, <2>4, <2>6, <2>7 DEF IInv, Undisturbed, Founds, Shares, Opens, Uses
  <2>11. (~history.clash => Clears(procs[p]))'
        BY <1>1, <2>3, <2>4, <2>5, <2>6 DEF Clears
  <2>12. Rest(procs[p])'
        BY <2>8, <2>9, <2>10, <2>11 DEF Rest
  <2>13. Uses(r) => Uses(procs[p]) /\ r.app = procs[p].app
        BY <1>1, <2>3 DEF Uses
  <2>14. r.at # "idle" /\ procs[p].at # "idle"
        BY <1>1, <2>3
  <2>15. Same(<<Server, default, keys, history>>)
        BY <1>1 DEF Same, Server
  <2> QED BY <2>2, <2>3, <2>4, <2>5, <2>12, <2>13, <2>14, <2>15, MetaLostKeeps
<1> QED BY <1>2, <1>3

\* A profile that is written whole names the application its secret belongs to.
LEMMA WholeKeeps ==
    ASSUME IInv, NEW p \in Procs, NEW r \in Process, procs' = [procs EXCEPT ![p] = r],
           procs[p].at \in {"write expiry", "write meta", "write new"},
           meta' = Whole(procs[p].app, procs[p].expires), meta.is # "no dir",
           Same(<<Server, inventory, default, keys, history>>),
           r.at \in {"idle", "rescan", "probe", "scan", "operate", "first default"},
           r.at = "idle" \/ r.todo = procs[p].todo,
           Uses(r) => Uses(procs[p]) /\ r.app = procs[p].app,
           Fits(r), Known(r), Timely(r)
    PROVE  IInv'
<1>1. /\ UNCHANGED clock /\ UNCHANGED sn /\ UNCHANGED others /\ UNCHANGED inventory
      /\ UNCHANGED default /\ UNCHANGED keys /\ UNCHANGED history
      BY DEF Same, Server
<1>2. /\ procs' \in [Procs -> Process] /\ procs'[p] = r
      /\ \A q \in Procs : q # p => procs'[q] = procs[q]
      BY Frame
<1>3. /\ procs[p].app \in Apps /\ procs[p].expires \in Nat
      /\ sn.secret[procs[p].app] # 0
  <2>1. procs[p] \in Process
        BY DEF IInv, TypeOK
  <2>2. procs[p].app \in Apps
        BY DEF IInv, Fits, Uses
  <2> QED BY <2>1, <2>2 DEF IInv, Known, Process
<1>4. /\ meta' \in [is : {"no dir", "no file", "torn", "whole"}, app : Apps \cup {0}, expires : Nat]
      /\ meta'.is = "whole" /\ meta'.app = procs[p].app /\ meta'.expires = procs[p].expires
      BY <1>3 DEF Whole
<1>5. TypeOK'
      BY <1>1, <1>2, <1>3, <1>4 DEF IInv, TypeOK, Readable, Existing
<1>6. Undisturbed => Opens(procs[p].app)
      BY DEF IInv, Founds, Shares, Uses
<1>7. ~history.clash => ~history.deleted
      BY DEF IInv, Clears
<1>8. Globals'
  <2>1. MetaTimely'
        BY <1>1, <1>4 DEF IInv, Timely, MetaTimely
  <2>2. (Undisturbed => MetaOpens)'
        BY <1>1, <1>4, <1>6 DEF Undisturbed, MetaOpens, Opens
  <2>3. (~history.clash /\ history.deleted => Gone)'
        BY <1>1, <1>7
  <2> QED BY <2>1, <2>2, <2>3 DEF Globals
<1>9. Rest(procs[p])'
  <2>1. Fits(procs[p])' /\ Known(procs[p])'
        BY <1>1, <1>2 DEF Fits, Known, Uses
  <2>2. Timely(procs[p])'
        BY <1>1, <1>2 DEF Timely
  <2>3. (Undisturbed => Founds(procs[p]))'
        BY <1>2 DEF Founds
  <2>4. (Undisturbed => Shares(procs[p]))'
        BY <1>1, <1>2, <1>4, <1>6 DEF Undisturbed, Shares, Opens, Uses, Readable
  <2>5. (~history.clash => Clears(procs[p]))'
        BY <1>1, <1>2, <1>7 DEF Clears
  <2> QED BY <2>1, <2>2, <2>3, <2>4, <2>5 DEF Rest
<1>10. ASSUME NEW q \in Procs, q # p
       PROVE  Rest(procs[q])'
  <2>1. procs'[q] = procs[q]
        BY <1>2, <1>10
  <2>2. Fits(procs[q])' /\ Known(procs[q])'
        BY <1>1, <2>1, SameFits
  <2>3. Timely(procs[q])'
        BY <1>1, <2>1 DEF IInv, Timely
  <2>4. ~history.clash =>
          /\ procs[q].at \notin FoundPlaces \cup DeletePlaces
          /\ procs[q].at \in StorePlaces => procs[q].via \in {"refresh", "password"}
        BY <1>10, OthersUse
  <2>5. (Undisturbed => Founds(procs[q]))'
    <3>1. Undisturbed => Founds(procs[q])
          BY DEF IInv
    <3> QED BY <1>1, <2>1, <2>4, <3>1 DEF Undisturbed, Founds, Opens
  <2>6. ~history.clash /\ Uses(procs[q]) => procs[p].at \notin FoundPlaces \cup DeletePlaces
        BY <1>10, OthersUse
  <2>7. Undisturbed /\ Uses(procs[q]) => procs[q].app = procs[p].app
        BY <2>6 DEF IInv, Undisturbed, OneApp, Uses
  <2>8. (Undisturbed => Shares(procs[q]))'
        BY <1>1, <1>4, <2>1, <2>7 DEF IInv, Undisturbed, Shares, Opens, Uses, Readable
  <2>9. (~history.clash => Clears(procs[q]))'
        BY <1>1, <2>1, <2>4 DEF IInv, Clears
  <2> QED BY <2>2, <2>3, <2>5, <2>8, <2>9 DEF Rest
<1>11. r.at = "idle" \/ (procs[p].at # "idle" /\ r.todo = procs[p].todo)
       OBVIOUS
<1> QED BY <1>1, <1>5, <1>8, <1>9, <1>10, <1>11, StepKeeps

\* What is written into a directory that is gone, or into no file, is lost.
LEMMA WriteTextKeeps ==
    ASSUME IInv, NEW p \in Procs, NEW r \in Process, procs' = [procs EXCEPT ![p] = r],
           procs[p].at \in {"write expiry", "write meta", "write new"}, WriteText(p),
           Same(<<Server, inventory, default, keys, history>>),
           r.at \in {"idle", "rescan", "probe", "scan", "operate", "first default"},
           Uses(r) => Uses(procs[p]) /\ r.app = procs[p].app,
           Fitting(p, r)
    PROVE  IInv'
<1>1. CASE meta.is \in {"no dir", "no file"}
  <2>1. QuietStep
        BY <1>1 DEF WriteText, IInv, TypeOK, QuietStep, Same, Server
  <2> QED BY <2>1, QuietKeeps
<1>2. CASE meta.is \notin {"no dir", "no file"}
  <2>1. meta' = Whole(procs[p].app, procs[p].expires) /\ meta.is # "no dir"
        BY <1>2 DEF WriteText
  <2>2. Fits(r) /\ Known(r) /\ Timely(r) /\ (r.at = "idle" \/ r.todo = procs[p].todo)
        BY DEF Fitting
  <2> QED BY <2>1, <2>2, WholeKeeps
<1> QED BY <1>1, <1>2

\* The three writers of meta.json: after a new expiry, at the end of connect and
\* refresh, and at the end of a registration.
LEMMA WriteExpiryKeeps ==
    ASSUME IInv, NEW p \in Procs, WriteExpiry(p)
    PROVE  IInv'
<1>1. procs[p] \in Process /\ procs[p].at = "write expiry"
      BY DEF WriteExpiry, At, IInv, TypeOK
<1>2. Work(p) \in {"rescan", "probe", "scan", "operate"}
      BY DEF Work
<1>3. PICK r \in Process : r = [procs[p] EXCEPT !.at = Work(p)]
      BY <1>1, <1>2 DEF Process, Places
<1>4. /\ r.at \in {"rescan", "probe", "scan", "operate"}
      /\ r.todo = procs[p].todo /\ r.app = procs[p].app /\ r.expires = procs[p].expires
      BY <1>1, <1>2, <1>3 DEF Process
<1>5. Fitting(p, r)
  <2>1. Fits(r) /\ Known(r)
        BY <1>1, <1>4 DEF IInv, Fits, Known, Uses
  <2>2. Timely(r)
        BY <1>1, <1>4 DEF IInv, Timely
  <2>3. Undisturbed => Founds(r) /\ Shares(r)
        BY <1>1, <1>4 DEF IInv, Founds, Shares, Uses
  <2>4. ~history.clash => Clears(r)
        BY <1>1, <1>4 DEF IInv, Clears
  <2> QED BY <1>1, <1>4, <2>1, <2>2, <2>3, <2>4 DEF Fitting, Uses
<1>6. procs' = [procs EXCEPT ![p] = r]
      BY <1>3 DEF WriteExpiry, Goto
<1>7. Uses(r) => Uses(procs[p]) /\ r.app = procs[p].app
      BY <1>1, <1>4 DEF Uses
<1>8. r.at \in {"idle", "rescan", "probe", "scan", "operate", "first default"}
      BY <1>4
<1> QED BY <1>1, <1>5, <1>6, <1>7, <1>8, WriteTextKeeps DEF WriteExpiry

\* The copy of connect and refresh says what meta.json said.
LEMMA WriteMetaKeeps ==
    ASSUME IInv, NEW p \in Procs, WriteMeta(p)
    PROVE  IInv'
<1>1. procs[p].at = "write meta" /\ Busy(p)
      BY DEF WriteMeta, At, Busy
<1>2. PICK r \in Process : /\ r = [IdleProc EXCEPT !.todo = Tail(procs[p].todo)]
                           /\ r.at = "idle" /\ Fitting(p, r)
      BY <1>1, EndFits
<1>3. procs' = [procs EXCEPT ![p] = r]
      BY <1>2 DEF WriteMeta, End
<1>4. ~Uses(r)
      BY <1>2 DEF Uses
<1> QED BY <1>1, <1>2, <1>3, <1>4, WriteTextKeeps DEF WriteMeta

\* The new profile is whole, with the application its secret belongs to.
LEMMA WriteNewKeeps ==
    ASSUME IInv, NEW p \in Procs, WriteNew(p)
    PROVE  IInv'
<1>1. procs[p] \in Process /\ procs[p].at = "write new" /\ Busy(p)
      BY DEF WriteNew, At, Busy, IInv, TypeOK
<1>2. CASE End(p)
  <2>1. PICK r \in Process : /\ r = [IdleProc EXCEPT !.todo = Tail(procs[p].todo)]
                             /\ r.at = "idle" /\ Fitting(p, r)
        BY <1>1, EndFits
  <2>2. procs' = [procs EXCEPT ![p] = r]
        BY <1>2, <2>1 DEF End
  <2>3. ~Uses(r)
        BY <2>1 DEF Uses
  <2> QED BY <1>1, <2>1, <2>2, <2>3, WriteTextKeeps DEF WriteNew
<1>3. CASE Command(p) = "register" /\ Goto(p, "first default", Me(p))
  <2>1. PICK r \in Process : r = [procs[p] EXCEPT !.at = "first default"]
        BY <1>1 DEF Process, Places
  <2>2. /\ r.at = "first default"
        /\ r.todo = procs[p].todo /\ r.app = procs[p].app /\ r.expires = procs[p].expires
        BY <1>1, <2>1 DEF Process
  <2>3. Fitting(p, r)
    <3>1. Fits(r) /\ Known(r)
          BY <1>1, <1>3, <2>2 DEF IInv, Fits, Known, Uses, Command
    <3>2. Timely(r)
          BY <1>1, <2>2 DEF IInv, Timely
    <3>3. Undisturbed => Founds(r) /\ Shares(r)
          BY <2>2 DEF Founds, Shares, Uses
    <3>4. ~history.clash => Clears(r)
          BY <1>1, <2>2 DEF IInv, Clears
    <3> QED BY <1>1, <2>2, <3>1, <3>2, <3>3, <3>4 DEF Fitting, Uses
  <2>4. procs' = [procs EXCEPT ![p] = r]
        BY <1>3, <2>1 DEF Goto
  <2>5. ~Uses(r)
        BY <2>2 DEF Uses
  <2> QED BY <1>1, <2>2, <2>3, <2>4, <2>5, WriteTextKeeps DEF WriteNew
<1> QED BY <1>2, <1>3 DEF WriteNew

\* The end of a command that changes the default, or tells that a delete is complete.
LEMMA EndDefaultKeeps ==
    ASSUME IInv, NEW p \in Procs, Busy(p), End(p), Same(<<Server, meta, inventory, keys>>),
           default' \in {"", "ours", "another"},
           history' \in [left : Limits, clash : {history.clash}, foreign : {history.foreign},
                         deleted : BOOLEAN],
           ~history.clash /\ history'.deleted =>
             /\ meta.is = "no dir" /\ keys = NoKeys /\ default' # "ours"
             /\ \A q \in Procs : q # p => procs[q].at \in {"idle", "plugins for", "resolve"}
    PROVE  IInv'
<1>1. /\ UNCHANGED clock /\ UNCHANGED sn /\ UNCHANGED others /\ UNCHANGED meta
      /\ UNCHANGED inventory /\ UNCHANGED keys
      /\ history'.clash = history.clash /\ history'.foreign = history.foreign
      BY DEF Same, Server
<1>2. PICK r \in Process : /\ r = [IdleProc EXCEPT !.todo = Tail(procs[p].todo)]
                           /\ r.at = "idle" /\ Fitting(p, r)
      BY EndFits
<1>3. procs' = [procs EXCEPT ![p] = r]
      BY <1>2 DEF End
<1>4. /\ procs' \in [Procs -> Process] /\ procs'[p] = r
      /\ \A q \in Procs : q # p => procs'[q] = procs[q]
      BY <1>3, Frame
<1>5. TypeOK'
  <2>1. history' \in [left : Limits, clash : BOOLEAN, foreign : SUBSET Apps, deleted : BOOLEAN]
        BY DEF IInv, TypeOK
  <2> QED BY <1>1, <1>4, <2>1 DEF IInv, TypeOK, Readable, Existing
<1>6. Globals'
  <2>1. MetaTimely' /\ (Undisturbed => MetaOpens)'
        BY <1>1 DEF IInv, MetaTimely, Undisturbed, MetaOpens, Opens, Readable
  <2>2. (~history.clash /\ history.deleted => Gone)'
        BY <1>1 DEF Gone
  <2> QED BY <2>1, <2>2 DEF Globals
<1>7. Rest(procs[p])'
  <2>1. Fits(r) /\ Known(r) /\ Timely(r)
        BY <1>2 DEF Fitting
  <2>2. Fits(procs[p])' /\ Known(procs[p])'
        BY <1>1, <1>4, <2>1 DEF Fits, Known, Uses
  <2>3. Timely(procs[p])'
        BY <1>1, <1>4, <2>1 DEF Timely
  <2>4. Founds(procs[p])' /\ Shares(procs[p])' /\ Clears(procs[p])'
        BY <1>2, <1>4 DEF Founds, Shares, Clears, Uses
  <2> QED BY <2>2, <2>3, <2>4 DEF Rest
<1>8. ASSUME NEW q \in Procs, q # p
      PROVE  Rest(procs[q])'
  <2>1. procs'[q] = procs[q]
        BY <1>4, <1>8
  <2>2. Fits(procs[q])' /\ Known(procs[q])'
        BY <1>1, <2>1, SameFits
  <2>3. Timely(procs[q])'
        BY <1>1, <2>1 DEF IInv, Timely
  <2>4. (Undisturbed => Founds(procs[q]) /\ Shares(procs[q]))'
        BY <1>1, <2>1 DEF IInv, Undisturbed, Founds, Shares, Uses, Opens, Readable
  <2>5. (~history.clash => Clears(procs[q]))'
        BY <1>1, <1>8, <2>1 DEF IInv, Clears
  <2> QED BY <2>2, <2>3, <2>4, <2>5 DEF Rest
<1>9. ~Uses(r)
      BY <1>2 DEF Uses
<1> QED BY <1>1, <1>2, <1>3, <1>5, <1>6, <1>7, <1>8, <1>9, StepKeeps

\* set_default_profile runs after use or register, never beside a complete delete.
LEMMA SetDefaultKeeps ==
    ASSUME IInv, NEW p \in Procs, SetDefault(p)
    PROVE  IInv'
<1>1. procs[p].at = "set default" /\ Busy(p)
      BY DEF SetDefault, At, Busy
<1>2. ~history.clash => ~history.deleted
      BY <1>1 DEF IInv, Clears
<1>3. /\ history' \in [left : Limits, clash : {history.clash}, foreign : {history.foreign},
                       deleted : BOOLEAN]
      /\ history'.deleted = history.deleted
      /\ Same(<<Server, meta, inventory, keys>>)
      BY DEF SetDefault, Same, Server, IInv, TypeOK
<1> QED BY <1>1, <1>2, <1>3, EndDefaultKeeps DEF SetDefault

\* What a delete has cleared stays cleared until it ends.
LEMMA DeleteEnds ==
    ASSUME IInv, NEW p \in Procs, procs[p].at \in {"read default", "write default"},
           history' = [history EXCEPT !.deleted = TRUE]
    PROVE  /\ ~history.clash =>
                /\ meta.is = "no dir" /\ keys = NoKeys
                /\ \A q \in Procs : q # p => procs[q].at = "idle"
           /\ history' \in [left : Limits, clash : {history.clash}, foreign : {history.foreign},
                            deleted : BOOLEAN]
<1>1. ~history.clash => meta.is = "no dir" /\ keys = NoKeys
      BY DEF IInv, Clears
<1>2. ASSUME NEW q \in Procs, q # p, ~history.clash
      PROVE  procs[q].at = "idle"
  <2>1. CommandOf(procs[p]) \in Founding
        BY DEF IInv, Fits
  <2> QED BY <1>2, <2>1, Alone
<1>3. history \in [left : Limits, clash : BOOLEAN, foreign : SUBSET Apps, deleted : BOOLEAN]
      BY DEF IInv, TypeOK
<1> QED BY <1>1, <1>2, <1>3

\* delete reads the default ...
LEMMA ReadDefaultKeeps ==
    ASSUME IInv, NEW p \in Procs, ReadDefault(p)
    PROVE  IInv'
<1>1. procs[p] \in Process /\ procs[p].at = "read default" /\ Busy(p)
      BY DEF ReadDefault, At, Busy, IInv, TypeOK
<1>2. CASE default # "ours"
  <2>1. /\ End(p) /\ history' = [history EXCEPT !.deleted = TRUE]
        /\ Same(<<Server, meta, inventory, keys>>) /\ default' = default
        BY <1>2 DEF ReadDefault, Same, Server, Files
  <2>2. default \in {"", "ours", "another"}
        BY DEF IInv, TypeOK
  <2> QED BY <1>1, <1>2, <2>1, <2>2, DeleteEnds, EndDefaultKeeps
<1>3. CASE default = "ours"
  <2>1. PICK to \in {"", "another"} :
          procs' = [procs EXCEPT ![p] = [procs[p] EXCEPT !.default = to, !.at = "write default"]]
        BY <1>3 DEF ReadDefault, Goto
  <2>2. PICK r \in Process : r = [procs[p] EXCEPT !.default = to, !.at = "write default"]
        BY <1>1 DEF Process, Places
  <2>3. /\ r.at = "write default" /\ r.default # "ours" /\ r.todo = procs[p].todo
        /\ r.app = procs[p].app /\ r.expires = procs[p].expires
        BY <1>1, <2>2 DEF Process
  <2>4. Fits(r) /\ Known(r)
        BY <1>1, <2>3 DEF IInv, Fits, Known, Uses
  <2>5. Timely(r)
        BY <1>1, <2>3 DEF IInv, Timely
  <2>6. Founds(r) /\ Shares(r) /\ ~Uses(r)
        BY <2>3 DEF Founds, Shares, Uses
  <2>7. ~history.clash => Clears(r)
        BY <1>1, <2>3 DEF IInv, Clears
  <2>8. Fitting(p, r)
        BY <1>1, <2>3, <2>4, <2>5, <2>6, <2>7 DEF Fitting
  <2>9. QuietStep
        BY <1>3, StillKeeps DEF ReadDefault, Same, Server, Files
  <2>10. procs' = [procs EXCEPT ![p] = r]
        BY <2>1, <2>2
  <2> QED BY <2>8, <2>9, <2>10, QuietKeeps
<1> QED BY <1>2, <1>3

\* ... and writes another one.
LEMMA WriteDefaultKeeps ==
    ASSUME IInv, NEW p \in Procs, WriteDefault(p)
    PROVE  IInv'
<1>1. /\ procs[p].at = "write default" /\ Busy(p) /\ End(p)
      /\ history' = [history EXCEPT !.deleted = TRUE]
      /\ default' = procs[p].default /\ Same(<<Server, meta, inventory, keys>>)
      BY DEF WriteDefault, At, Busy
<1>2. default' \in {"", "ours", "another"}
      BY <1>1 DEF IInv, TypeOK, Process
<1>3. ~history.clash => default' # "ours"
      BY <1>1 DEF IInv, Clears
<1> QED BY <1>1, <1>2, <1>3, DeleteEnds, EndDefaultKeeps

\* The secret that comes next is one.
LEMMA NextSecret ==
    ASSUME IInv
    PROVE  \E n \in Nat : n = sn.drawn + 1 /\ n # 0
<1>1. sn.drawn \in Nat
      BY DEF IInv, TypeOK
<1>2. sn.drawn + 1 \in Nat /\ sn.drawn + 1 # 0
      BY <1>1
<1> QED BY <1>2

\* With a new secret every application that was there is there, and this one.
LEMMA RotatedExists ==
    ASSUME IInv, NEW a \in Apps, sn' = Rotated(sn, a)
    PROVE  /\ sn' \in [secret : [Apps -> Nat], drawn : Nat, plugins : Nat]
           /\ \A b \in Apps : sn.secret[b] # 0 \/ b = a => sn'.secret[b] # 0
<1>1. /\ sn \in [secret : [Apps -> Nat], drawn : Nat, plugins : Nat]
      /\ sn.drawn \in Nat /\ sn.secret \in [Apps -> Nat]
      BY DEF IInv, TypeOK
<1>2. PICK n \in Nat : n = sn.drawn + 1 /\ n # 0
      BY NextSecret
<1>3. sn' = [sn EXCEPT !.secret = [sn.secret EXCEPT ![a] = n], !.drawn = n]
      BY <1>2 DEF Rotated, NewSecret
<1>4. [sn.secret EXCEPT ![a] = n] \in [Apps -> Nat]
      BY <1>1
<1>5. sn'.secret = [sn.secret EXCEPT ![a] = n]
      BY <1>1, <1>3
<1>6. sn' \in [secret : [Apps -> Nat], drawn : Nat, plugins : Nat]
      BY <1>1, <1>3, <1>4
<1> QED BY <1>1, <1>2, <1>5, <1>6

\* A registration draws a new secret while no profile is there to use the old one.
LEMMA RotatedKeeps ==
    ASSUME IInv, NEW p \in Procs, NEW r \in Process, procs' = [procs EXCEPT ![p] = r],
           procs[p].at \in {"rotate", "post app"}, NEW a \in Apps, sn' = Rotated(sn, a),
           Same(<<clock, others, Files, keys, history>>),
           r.at \in {"exchanging", "list apps", "by hand"}, r.todo = procs[p].todo,
           r.at = "exchanging" => r.via = "exchange",
           Fits(r), Timely(r), Known(r) \/ r.app = a
    PROVE  IInv'
<1>1. /\ UNCHANGED clock /\ UNCHANGED others /\ UNCHANGED meta /\ UNCHANGED inventory
      /\ UNCHANGED default /\ UNCHANGED keys /\ UNCHANGED history
      BY DEF Same, Files
<1>2. /\ procs' \in [Procs -> Process] /\ procs'[p] = r
      /\ \A q \in Procs : q # p => procs'[q] = procs[q]
      BY Frame
<1>3. /\ sn' \in [secret : [Apps -> Nat], drawn : Nat, plugins : Nat]
      /\ \A b \in Apps : sn.secret[b] # 0 \/ b = a => sn'.secret[b] # 0
      BY RotatedExists
<1>4. TypeOK'
      BY <1>1, <1>2, <1>3 DEF IInv, TypeOK, Readable, Existing
<1>5. /\ ~history.clash => ~history.deleted
      /\ Undisturbed => meta.is = "no dir"
      BY DEF IInv, Clears, Founds, Undisturbed
<1>6. Globals'
  <2>1. MetaTimely'
        BY <1>1 DEF IInv, MetaTimely
  <2>2. (Undisturbed => MetaOpens)'
        BY <1>1, <1>5 DEF Undisturbed, MetaOpens, Readable
  <2>3. (~history.clash /\ history.deleted => Gone)'
        BY <1>1, <1>5
  <2> QED BY <2>1, <2>2, <2>3 DEF Globals
<1>7. ~Uses(r)
      BY DEF Uses
<1>8. Rest(procs[p])'
  <2>1. Fits(procs[p])'
        BY <1>2 DEF Fits, Uses
  <2>2. Known(procs[p])'
        BY <1>2, <1>3 DEF Known
  <2>3. Timely(procs[p])'
        BY <1>1, <1>2 DEF Timely
  <2>4. (Undisturbed => Founds(procs[p]) /\ Shares(procs[p]))'
        BY <1>1, <1>2, <1>5, <1>7 DEF Undisturbed, Founds, Shares, Uses
  <2>5. (~history.clash => Clears(procs[p]))'
        BY <1>1, <1>2, <1>5 DEF Clears
  <2> QED BY <2>1, <2>2, <2>3, <2>4, <2>5 DEF Rest
<1>9. ASSUME NEW q \in Procs, q # p
      PROVE  Rest(procs[q])'
  <2>1. procs'[q] = procs[q]
        BY <1>2, <1>9
  <2>2. Fits(procs[q])'
        BY <1>9, <2>1, SameFits
  <2>3. Known(procs[q])'
        BY <1>3, <2>1 DEF IInv, Known
  <2>4. Timely(procs[q])'
        BY <1>1, <2>1 DEF IInv, Timely
  <2>5. ~history.clash => procs[q].at = "idle"
        BY <1>9, Alone DEF IInv, Fits
  <2>6. (Undisturbed => Founds(procs[q]) /\ Shares(procs[q]))'
        BY <1>1, <2>1, <2>5 DEF Undisturbed, Founds, Shares, Uses
  <2>7. (~history.clash => Clears(procs[q]))'
        BY <1>1, <2>1, <2>5 DEF Clears
  <2> QED BY <2>2, <2>3, <2>4, <2>6, <2>7 DEF Rest
<1>10. Same(<<clock, others, Files, keys, history>>) /\ procs[p].at # "idle"
       OBVIOUS
<1> QED BY <1>1, <1>4, <1>6, <1>7, <1>8, <1>9, <1>10, StepKeeps

\* A place of the search that p may fall back to, whatever it asked for.
LEMMA FallsBack ==
    ASSUME IInv, NEW p \in Procs, NEW place \in {"list apps", "by hand"},
           procs[p].at \in {"rotate", "post app"}, Goto(p, place, Me(p))
    PROVE  \E r \in Process :
             /\ procs' = [procs EXCEPT ![p] = r]
             /\ r.at = place /\ r.todo = procs[p].todo
             /\ Fits(r) /\ Known(r) /\ Timely(r) /\ Fitting(p, r)
<1>1. procs[p] \in Process
      BY DEF IInv, TypeOK
<1>2. PICK r \in Process : r = [procs[p] EXCEPT !.at = place]
      BY ZenonT(60), <1>1 DEF Process, Places
<1>3. /\ r.at = place /\ r.todo = procs[p].todo /\ r.app = procs[p].app
      /\ r.via = procs[p].via /\ r.expires = procs[p].expires
      BY <1>1, <1>2 DEF Process
<1>4. Fits(r) /\ Known(r)
      BY <1>1, <1>3 DEF IInv, Fits, Known, Uses
<1>5. Timely(r)
      BY <1>3 DEF IInv, Timely
<1>6. Undisturbed => Founds(r)
      BY <1>3 DEF IInv, Founds
<1>7. Shares(r) /\ ~Uses(r)
      BY <1>3 DEF Shares, Uses
<1>8. ~history.clash => Clears(r)
      BY <1>3 DEF IInv, Clears
<1>9. Fitting(p, r)
      BY <1>3, <1>4, <1>5, <1>6, <1>7, <1>8 DEF Fitting
<1>10. procs' = [procs EXCEPT ![p] = r]
       BY <1>2 DEF Goto
<1> QED BY <1>3, <1>4, <1>5, <1>9, <1>10

\* The grant p asks for with the secret it was told.
LEMMA AsksNew ==
    ASSUME IInv, NEW p \in Procs, procs[p].at \in {"rotate", "post app"}, NEW a \in Apps,
           Goto(p, "exchanging", Asking(p, "exchange", a, NewSecret(sn)))
    PROVE  \E r \in Process :
             /\ procs' = [procs EXCEPT ![p] = r]
             /\ r.at = "exchanging" /\ r.via = "exchange" /\ r.todo = procs[p].todo
             /\ r.app = a /\ Fits(r) /\ Timely(r)
<1>1. procs[p] \in Process /\ clock \in Nat /\ sn.drawn \in Nat
      BY DEF IInv, TypeOK
<1>2. PICK n \in Nat : n = sn.drawn + 1
      BY NextSecret
<1>3. PICK r \in Process : r = [procs[p] EXCEPT !.via = "exchange", !.app = a, !.secret = n,
                                                !.now = clock, !.at = "exchanging"]
      BY ZenonT(60), <1>1 DEF Process, Places
<1>4. /\ r.at = "exchanging" /\ r.via = "exchange" /\ r.todo = procs[p].todo /\ r.app = a
      /\ r.now = clock /\ r.expires = procs[p].expires
      BY <1>1, <1>3 DEF Process
<1>5. Fits(r)
      BY <1>4 DEF IInv, Fits, Uses
<1>6. Timely(r)
      BY <1>4, AskTimely
<1>7. procs' = [procs EXCEPT ![p] = r]
      BY <1>2, <1>3 DEF Goto, Asking, NewSecret
<1> QED BY <1>4, <1>5, <1>6, <1>7

\* _rotate_oauth_secret and the POST of provision_oauth.
LEMMA RotateKeeps ==
    ASSUME IInv, NEW p \in Procs, Rotate(p)
    PROVE  IInv'
<1>1. /\ procs[p].at = "rotate" /\ procs[p].app \in Apps
      /\ Same(<<clock, others, Files, keys, history>>)
      BY DEF Rotate, At, IInv, Fits
<1>2. CASE UNCHANGED sn /\ Goto(p, "list apps", Me(p))
  <2>1. Same(<<Server, Files, keys, history>>)
        BY <1>1, <1>2 DEF Same, Server
  <2> QED BY <1>1, <1>2, <2>1, StillKeeps, FallsBack, QuietKeeps
<1>3. CASE sn' = Rotated(sn, procs[p].app) /\ Goto(p, "list apps", Me(p))
      BY <1>1, <1>3, FallsBack, RotatedKeeps
<1>4. CASE /\ sn' = Rotated(sn, procs[p].app)
           /\ Goto(p, "exchanging", Asking(p, "exchange", procs[p].app, NewSecret(sn)))
  <2>1. PICK r \in Process :
          /\ procs' = [procs EXCEPT ![p] = r]
          /\ r.at = "exchanging" /\ r.via = "exchange" /\ r.todo = procs[p].todo
          /\ r.app = procs[p].app /\ Fits(r) /\ Timely(r)
        BY ZenonT(60), <1>1, <1>4, AsksNew
  <2> QED BY <1>1, <1>4, <2>1, RotatedKeeps
<1> QED BY <1>2, <1>3, <1>4 DEF Rotate

\* The slot a new application takes.
LEMMA FreeAppIsFree ==
    ASSUME HasRoom(sn)
    PROVE  FreeApp(sn) \in Apps
<1>1. \E a \in Apps : a \notin Existing(sn)
      BY DEF HasRoom, Existing
<1> QED BY <1>1 DEF FreeApp

\* A new application gets a fresh secret, which the registration knows or has lost.
LEMMA PostAppKeeps ==
    ASSUME IInv, NEW p \in Procs, PostApp(p)
    PROVE  IInv'
<1>1. /\ procs[p].at = "post app"
      /\ Same(<<clock, others, Files, keys, history>>)
      BY DEF PostApp, At
<1>2. CASE UNCHANGED sn /\ Goto(p, "by hand", Me(p))
  <2>1. Same(<<Server, Files, keys, history>>)
        BY <1>1, <1>2 DEF Same, Server
  <2> QED BY <1>1, <1>2, <2>1, StillKeeps, FallsBack, QuietKeeps
<1>3. CASE HasRoom(sn) /\ sn' = Created(sn) /\ Goto(p, "by hand", Me(p))
      BY <1>1, <1>3, FreeAppIsFree, FallsBack, RotatedKeeps DEF Created
<1>4. CASE /\ HasRoom(sn) /\ sn' = Created(sn)
           /\ Goto(p, "exchanging", Asking(p, "exchange", FreeApp(sn), NewSecret(sn)))
  <2>1. FreeApp(sn) \in Apps
        BY <1>4, FreeAppIsFree
  <2>2. PICK a \in Apps : a = FreeApp(sn)
        BY <2>1
  <2>3. PICK r \in Process :
          /\ procs' = [procs EXCEPT ![p] = r]
          /\ r.at = "exchanging" /\ r.via = "exchange" /\ r.todo = procs[p].todo
          /\ r.app = a /\ Fits(r) /\ Timely(r)
        BY ZenonT(60), <1>1, <1>4, <2>2, AsksNew
  <2> QED BY <1>1, <1>4, <2>2, <2>3, RotatedKeeps DEF Created
<1> QED BY <1>2, <1>3, <1>4 DEF PostApp

\* registry.register makes the directory of a new profile.
LEMMA DescribeKeeps ==
    ASSUME IInv, NEW p \in Procs, Describe(p)
    PROVE  IInv'
<1>1. /\ procs[p] \in Process /\ procs[p].at = "describe" /\ Busy(p)
      /\ Same(<<Server, inventory, default, keys, history>>)
      BY DEF Describe, At, Busy, IInv, TypeOK
<1>2. CASE End(p) /\ UNCHANGED meta
  <2>1. QuietStep
        BY <1>1, <1>2 DEF IInv, TypeOK, QuietStep, Same, Server
  <2> QED BY <1>1, <1>2, <2>1, EndKeeps
<1>3. CASE /\ Goto(p, "truncate new", [Me(p) EXCEPT !.expires = clock + Lifetime])
           /\ meta' = IF meta.is = "no dir" THEN MetaIs("no file") ELSE meta
  <2>1. clock \in Nat /\ procs[p].now \in Nat /\ keys.access \in Tokens
        BY <1>1 DEF IInv, TypeOK, Process
  <2>2. keys.access # None => keys.access.expires \in Nat
        BY <2>1 DEF Tokens
  <2>3. clock + Lifetime \in Nat
        BY <2>1, LifetimeAssumption
  <2>4. PICK e \in Nat : e = clock + Lifetime
        BY <2>3
  <2>5. PICK r \in Process : r = [procs[p] EXCEPT !.expires = e, !.at = "truncate new"]
        BY <1>1 DEF Process, Places
  <2>6. /\ r.at = "truncate new" /\ r.todo = procs[p].todo /\ r.app = procs[p].app
        /\ r.via = procs[p].via /\ r.now = procs[p].now /\ r.expires = e
        BY <1>1, <2>5 DEF Process
  <2>7. procs' = [procs EXCEPT ![p] = r]
        BY <1>3, <2>4, <2>5 DEF Goto
  <2>8. procs'[p] = r
        BY <2>7, Frame
  <2>9. Fits(r) /\ Known(r) /\ ~Uses(r)
        BY <1>1, <2>6 DEF IInv, Fits, Known, Uses
  <2>10. Timely(r)
    <3>1. /\ procs[p].now <= clock /\ clock <= procs[p].now + Skew
          /\ keys.access # None => procs[p].now + Lifetime <= keys.access.expires + Skew
          BY <1>1 DEF IInv, Timely
    <3>2. e <= clock + Lifetime
          BY <2>1, <2>4, LifetimeAssumption
    <3>3. keys.access # None => e <= keys.access.expires + 2 * Skew
          BY <2>1, <2>2, <2>4, <3>1, LifetimeAssumption, BufferAssumption
    <3> QED BY <2>6, <3>2, <3>3 DEF Timely
  <2>11. Undisturbed => Founds(r)
        BY <1>1, <2>6 DEF IInv, Founds
  <2>12. ~history.clash => ~history.deleted
        BY <1>1 DEF IInv, Clears
  <2>13. Shares(r)
        BY <2>9 DEF Shares
  <2>14. ~history.clash => Clears(r)
        BY <2>6, <2>12 DEF Clears
  <2>15. Fitting(p, r)
        BY <1>1, <2>6, <2>9, <2>10, <2>11, <2>13, <2>14 DEF Fitting
  <2>16. CASE meta.is # "no dir"
    <3>1. QuietStep
          BY <1>1, <1>3, <2>16 DEF IInv, TypeOK, QuietStep, Same, Server
    <3> QED BY <2>7, <2>15, <3>1, QuietKeeps
  <2>17. CASE meta.is = "no dir"
    <3>1. /\ UNCHANGED clock /\ UNCHANGED keys /\ UNCHANGED sn /\ UNCHANGED history
          /\ inventory' \in Nat
          BY <1>1 DEF Same, Server, IInv, TypeOK
    <3>2. Fits(procs[p])' /\ Known(procs[p])'
          BY <2>8, <2>9, <3>1 DEF Fits, Known, Uses
    <3>3. Timely(procs[p])'
          BY <2>8, <2>10, <3>1 DEF Timely
    <3>4. (Undisturbed => Founds(procs[p]) /\ Shares(procs[p]))'
          BY <2>6, <2>8, <2>9, <2>11, <3>1 DEF Undisturbed, Founds, Shares, Opens, Uses
    <3>5. (~history.clash => Clears(procs[p]))'
          BY <2>6, <2>8, <2>12, <3>1 DEF Clears
    <3>6. Rest(procs[p])'
          BY <3>2, <3>3, <3>4, <3>5 DEF Rest
    <3>7. Same(<<Server, default, keys, history>>) /\ meta' = MetaIs("no file")
          BY <1>1, <1>3, <2>17 DEF Same, Server
    <3>8. procs[p].at # "idle" /\ r.at # "idle"
          BY <1>1, <2>6
    <3> QED BY <2>6, <2>7, <2>9, <2>12, <3>1, <3>6, <3>7, <3>8, MetaLostKeeps
  <2> QED BY <2>16, <2>17
<1> QED BY <1>1, <1>2, <1>3 DEF Describe

\* rmtree: the files, then the directory.
LEMMA RemovesKeep ==
    ASSUME IInv, NEW p \in Procs, NEW place \in {"remove dir", "read default"},
           NEW state \in {"no dir", "no file"}, meta' = MetaIs(state), Goto(p, place, Me(p)),
           procs[p].at \in {"remove files", "remove dir"}, inventory' = 0,
           place = "read default" => state = "no dir",
           Same(<<Server, default, keys, history>>)
    PROVE  IInv'
<1>1. procs[p] \in Process
      BY DEF IInv, TypeOK
<1>2. PICK r \in Process : r = [procs[p] EXCEPT !.at = place]
      BY ZenonT(60), <1>1 DEF Process, Places
<1>3. /\ r.at = place /\ r.todo = procs[p].todo /\ r.app = procs[p].app
      /\ r.via = procs[p].via /\ r.now = procs[p].now /\ r.expires = procs[p].expires
      BY <1>1, <1>2 DEF Process
<1>4. procs' = [procs EXCEPT ![p] = r]
      BY <1>2 DEF Goto
<1>5. procs'[p] = r
      BY <1>4, Frame
<1>6. /\ UNCHANGED clock /\ UNCHANGED keys /\ UNCHANGED sn /\ UNCHANGED history
      BY DEF Same, Server
<1>7. ~Uses(r) /\ procs[p].at # "idle" /\ r.at # "idle"
      BY <1>3 DEF Uses
<1>8. ~history.clash => ~history.deleted /\ keys = NoKeys
      BY DEF IInv, Clears
<1>9. Fits(procs[p])' /\ Known(procs[p])'
      BY <1>3, <1>5, <1>6 DEF IInv, Fits, Known, Uses
<1>10. Timely(procs[p])'
       BY <1>3, <1>5, <1>6 DEF IInv, Timely
<1>11. Founds(procs[p])' /\ Shares(procs[p])'
       BY <1>3, <1>5 DEF Founds, Shares, Uses
<1>12. (~history.clash => Clears(procs[p]))'
  <2>1. meta'.is = state
        BY DEF MetaIs
  <2> QED BY <1>3, <1>5, <1>6, <1>8, <2>1 DEF Clears
<1>13. Rest(procs[p])'
       BY <1>9, <1>10, <1>11, <1>12 DEF Rest
<1> QED BY <1>3, <1>4, <1>7, <1>8, <1>13, MetaLostKeeps

\* rmtree takes the files,
LEMMA RemoveFilesKeeps ==
    ASSUME IInv, NEW p \in Procs, RemoveFiles(p)
    PROVE  IInv'
<1>1. procs[p].at = "remove files" /\ Busy(p) /\ Same(<<Server, default, keys, history>>)
      BY DEF RemoveFiles, At, Busy
<1>2. CASE End(p) /\ UNCHANGED <<meta, inventory>>
  <2>1. Same(<<Server, Files, keys, history>>)
        BY <1>1, <1>2 DEF Same, Server, Files
  <2> QED BY <1>1, <1>2, <2>1, StillKeeps, EndKeeps
<1>3. CASE Goto(p, "remove dir", Me(p)) /\ meta' = MetaIs("no file") /\ inventory' = 0
      BY <1>1, <1>3, RemovesKeep
<1> QED BY <1>2, <1>3 DEF RemoveFiles

\* and the directory, when nobody wrote into it meanwhile.
LEMMA RemoveDirKeeps ==
    ASSUME IInv, NEW p \in Procs, RemoveDir(p)
    PROVE  IInv'
<1>1. /\ procs[p].at = "remove dir" /\ Busy(p)
      /\ Same(<<Server, default, keys, history>>) /\ inventory' = inventory
      BY DEF RemoveDir, At, Busy, Same
<1>2. CASE End(p) /\ UNCHANGED meta
  <2>1. Same(<<Server, Files, keys, history>>)
        BY <1>1, <1>2 DEF Same, Server, Files
  <2> QED BY <1>1, <1>2, <2>1, StillKeeps, EndKeeps
<1>3. CASE inventory = 0 /\ Goto(p, "read default", Me(p)) /\ meta' = MetaIs("no dir")
      BY <1>1, <1>3, RemovesKeep
<1> QED BY <1>2, <1>3 DEF RemoveDir

(***************************************************************************)
(* The remaining steps                                                     *)
(***************************************************************************)
\* A command begins, and it is noted whether it is alone if it has to be.
LEMMA StartKeeps ==
    ASSUME IInv, NEW p \in Procs, Start(p)
    PROVE  IInv'
<1>1. /\ procs[p] \in Process /\ procs[p].at = "idle" /\ procs[p].todo # <<>>
      BY DEF Start, Busy, IInv, TypeOK
<1>2. /\ UNCHANGED clock /\ UNCHANGED sn /\ UNCHANGED others /\ UNCHANGED meta
      /\ UNCHANGED inventory /\ UNCHANGED default /\ UNCHANGED keys
      BY DEF Start, Same, Server, Files
<1>3. \/ FirstStep(Command(p)) = "plugins for" /\ CommandOf(procs[p]) \in {"upgrade", "install"}
      \/ FirstStep(Command(p)) = "exists" /\ CommandOf(procs[p]) = "register"
      \/ FirstStep(Command(p)) = "scan dirs" /\ CommandOf(procs[p]) = "setup"
      \/ FirstStep(Command(p)) = "resolve" /\ CommandOf(procs[p]) \notin Creating
      BY DEF FirstStep, Command
<1>4. PICK r \in Process : r = [procs[p] EXCEPT !.at = FirstStep(Command(p))]
      BY <1>1, <1>3 DEF Process, Places
<1>5. /\ r.at = FirstStep(Command(p)) /\ r.todo = procs[p].todo /\ r.app = procs[p].app
      /\ r.expires = procs[p].expires
      BY <1>1, <1>4 DEF Process
<1>6. procs' = [procs EXCEPT ![p] = r]
      BY <1>4 DEF Start, Goto
<1>7. /\ procs' \in [Procs -> Process] /\ procs'[p] = r
      /\ \A q \in Procs : q # p => procs'[q] = procs[q]
      BY <1>6, Frame
<1>8. history \in [left : Limits, clash : BOOLEAN, foreign : SUBSET Apps, deleted : BOOLEAN]
      BY DEF IInv, TypeOK
<1>9. PICK c \in BOOLEAN, d \in BOOLEAN :
        /\ history' = [history EXCEPT !.clash = c, !.deleted = d]
        /\ c = (history.clash \/ \E q \in Procs \ {p} :
                                    Busy(q) /\ {Command(p), Command(q)} \cap Founding # {})
        /\ d = (history.deleted /\ Command(p) \notin {"register", "setup"})
      BY DEF Start
<1>10. /\ history' \in [left : Limits, clash : BOOLEAN, foreign : SUBSET Apps, deleted : BOOLEAN]
       /\ history'.clash = c /\ history'.deleted = d /\ history'.foreign = history.foreign
       BY <1>8, <1>9
<1>11. ~history'.clash =>
         /\ ~history.clash
         /\ \A q \in Procs : q # p /\ procs[q].at # "idle" =>
              CommandOf(procs[p]) \notin Founding /\ CommandOf(procs[q]) \notin Founding
  <2>1. ~c => ~history.clash
        BY <1>9
  <2>2. ASSUME NEW q \in Procs, q # p, procs[q].at # "idle", ~c
        PROVE  CommandOf(procs[p]) \notin Founding /\ CommandOf(procs[q]) \notin Founding
    <3>1. ~(Busy(q) /\ {Command(p), Command(q)} \cap Founding # {})
          BY <1>9, <2>2
    <3>2. {Command(p), Command(q)} \cap Founding = {}
          BY <2>2, <3>1 DEF Busy
    <3> QED BY <3>2 DEF Command
  <2> QED BY <1>10, <2>1, <2>2
<1>12. history'.deleted => history.deleted /\ CommandOf(procs[p]) \notin Creating
  <2>1. d => history.deleted /\ Command(p) \notin {"register", "setup"}
        BY <1>9
  <2> QED BY <1>10, <2>1 DEF Command
<1>13. TypeOK'
       BY <1>2, <1>7, <1>10 DEF IInv, TypeOK, Readable, Existing
<1>14. Globals'
  <2>1. MetaTimely'
        BY <1>2 DEF IInv, MetaTimely
  <2>2. (Undisturbed => MetaOpens)'
        BY <1>2, <1>10, <1>11 DEF IInv, Undisturbed, MetaOpens, Opens, Readable
  <2>3. (~history.clash /\ history.deleted => Gone)'
        BY <1>2, <1>11, <1>12 DEF IInv, Gone
  <2> QED BY <2>1, <2>2, <2>3 DEF Globals
<1>15. ~Uses(r)
       BY <1>3, <1>5 DEF Uses
<1>16. Rest(procs[p])'
  <2>1. Fits(r) /\ Known(r)
        BY <1>1, <1>3, <1>5, <1>15 DEF IInv, Fits, Known
  <2>2. Timely(r)
        BY <1>3, <1>5 DEF IInv, Timely
  <2>3. Fits(procs[p])' /\ Known(procs[p])'
        BY <1>2, <1>7, <2>1 DEF Fits, Known, Uses
  <2>4. Timely(procs[p])'
        BY <1>2, <1>7, <2>2 DEF Timely
  <2>5. Founds(procs[p])' /\ Shares(procs[p])'
        BY <1>3, <1>5, <1>7 DEF Founds, Shares, Uses
  <2>6. Clears(procs[p])'
        BY <1>3, <1>5, <1>7, <1>12 DEF Clears
  <2> QED BY <2>3, <2>4, <2>5, <2>6 DEF Rest
<1>17. ASSUME NEW q \in Procs, q # p
       PROVE  Rest(procs[q])'
  <2>1. procs'[q] = procs[q]
        BY <1>7, <1>17
  <2>2. Fits(procs[q])' /\ Known(procs[q])'
        BY <1>2, <2>1, SameFits
  <2>3. Timely(procs[q])'
        BY <1>2, <2>1 DEF IInv, Timely
  <2>4. (Undisturbed => Founds(procs[q]) /\ Shares(procs[q]))'
        BY <1>2, <1>10, <1>11, <2>1
        DEF IInv, Undisturbed, Founds, Shares, Uses, Opens, Readable
  <2>5. (~history.clash => Clears(procs[q]))'
        BY <1>2, <1>11, <1>12, <2>1 DEF IInv, Clears
  <2> QED BY <2>2, <2>3, <2>4, <2>5 DEF Rest
<1>18. ASSUME NEW q \in Procs, NEW w \in Procs
       PROVE  (~history.clash /\ q # w => Apart(procs[q], procs[w]))'
  <2>1. ~history.clash /\ q # w => Apart(procs[q], procs[w])
        BY DEF IInv
  <2>2. CASE q # p /\ w # p
        BY <1>7, <1>11, <2>1, <2>2 DEF Apart
  <2>3. CASE q = p /\ w # p
        BY <1>5, <1>7, <1>11, <2>3 DEF Apart
  <2>4. CASE q # p /\ w = p
        BY <1>5, <1>7, <1>11, <2>4 DEF Apart
  <2> QED BY <2>2, <2>3, <2>4
<1>19. ASSUME NEW q \in Procs, NEW w \in Procs
       PROVE  (Undisturbed => OneApp(procs[q], procs[w]))'
  <2>1. Undisturbed' => Undisturbed /\ OneApp(procs[q], procs[w])
        BY <1>10, <1>11 DEF IInv, Undisturbed
  <2>2. CASE q # p /\ w # p
        BY <1>7, <2>1, <2>2 DEF OneApp, Uses
  <2>3. CASE q = p \/ w = p
        BY <1>7, <1>15, <2>3 DEF OneApp, Uses
  <2> QED BY <2>2, <2>3
<1> QED BY <1>13, <1>14, <1>16, <1>17, <1>18, <1>19 DEF IInv, Rest, Globals

\* What a bound on times says one tick later.
LEMMA LaterStill ==
    ASSUME NEW c \in Nat
    PROVE  /\ \A e, life \in Nat : e <= c + life => e <= c + 1 + life
           /\ \A n, skew \in Nat : n <= c /\ c < n + skew => n <= c + 1 /\ c + 1 <= n + skew
    OBVIOUS

\* Time passes: no grant gets older than Skew before its writes are done.
LEMMA TickKeeps ==
    ASSUME IInv, Tick
    PROVE  IInv'
<1>1. /\ UNCHANGED sn /\ UNCHANGED others /\ UNCHANGED meta /\ UNCHANGED inventory
      /\ UNCHANGED default /\ UNCHANGED keys /\ UNCHANGED procs /\ UNCHANGED history
      /\ clock' = clock + 1
      BY DEF Tick, Same, Files
<1>2. clock \in Nat
      BY DEF IInv, TypeOK
<1>3. PICK t \in Nat : clock' = t /\ t = clock + 1
      BY <1>1, <1>2
<1>4. TypeOK'
      BY <1>1, <1>3 DEF IInv, TypeOK, Readable, Existing
<1>5. Globals'
  <2>1. MetaTimely'
    <3>1. meta.expires \in Nat /\ MetaTimely
          BY DEF IInv, TypeOK
    <3>2. meta.expires <= t + Lifetime
          BY <1>2, <1>3, <3>1, LifetimeAssumption DEF MetaTimely
    <3> QED BY <1>1, <1>3, <3>1, <3>2 DEF MetaTimely
  <2>2. (Undisturbed => MetaOpens)' /\ (~history.clash /\ history.deleted => Gone)'
        BY <1>1 DEF IInv, Undisturbed, MetaOpens, Opens, Readable, Gone
  <2> QED BY <2>1, <2>2 DEF Globals
<1>6. ASSUME NEW q \in Procs
      PROVE  Rest(procs[q])'
  <2>1. Fits(procs[q])' /\ Known(procs[q])'
        BY <1>1, SameFits
  <2>2. /\ procs[q].now \in Nat /\ procs[q].expires \in Nat
        /\ procs[q].at \in InFlight => clock < procs[q].now + Skew
        BY DEF IInv, TypeOK, Process, Tick
  <2>3. /\ Timely(procs[q])
        /\ procs[q].expires <= clock + Lifetime
        /\ procs[q].at \in InFlight => procs[q].now <= clock
        BY DEF IInv, Timely
  <2>4. procs[q].expires <= t + Lifetime
        BY <1>2, <1>3, <2>2, <2>3, LaterStill, LifetimeAssumption
  <2>5. procs[q].at \in InFlight => procs[q].now <= t /\ t <= procs[q].now + Skew
        BY <1>2, <1>3, <2>2, <2>3, LaterStill, BufferAssumption
  <2>6. Timely(procs[q])'
        BY <1>1, <1>3, <2>3, <2>4, <2>5 DEF Timely
  <2>7. (Undisturbed => Founds(procs[q]) /\ Shares(procs[q]))'
        BY <1>1 DEF IInv, Undisturbed, Founds, Shares, Uses, Opens, Readable
  <2>8. (~history.clash => Clears(procs[q]))'
        BY <1>1 DEF IInv, Clears
  <2> QED BY <2>1, <2>6, <2>7, <2>8 DEF Rest
<1>7. ASSUME NEW q \in Procs, NEW w \in Procs
      PROVE  (/\ ~history.clash /\ q # w => Apart(procs[q], procs[w])
              /\ Undisturbed => OneApp(procs[q], procs[w]))'
      BY <1>1 DEF IInv, Apart, OneApp, Undisturbed, Uses
<1> QED BY <1>4, <1>5, <1>6, <1>7 DEF IInv, Rest, Globals

\* Another machine rotates a secret: from then on nothing is said of secrets.
LEMMA ForeignKeeps ==
    ASSUME IInv, ForeignRegister
    PROVE  IInv'
<1>1. /\ UNCHANGED clock /\ UNCHANGED others /\ UNCHANGED meta /\ UNCHANGED inventory
      /\ UNCHANGED default /\ UNCHANGED keys /\ UNCHANGED procs
      BY DEF ForeignRegister, Same, Files
<1>2. PICK a \in Apps :
        /\ sn' = Rotated(sn, a)
        /\ history' = [history EXCEPT !.foreign = @ \cup {a},
                                      !.left = Spent(history.left, "foreign")]
      BY DEF ForeignRegister
<1>3. /\ history \in [left : Limits, clash : BOOLEAN, foreign : SUBSET Apps, deleted : BOOLEAN]
      /\ history.left.foreign > 0
      BY DEF ForeignRegister, IInv, TypeOK
<1>4. Spent(history.left, "foreign") \in Limits
      BY <1>3 DEF Spent, Limits
<1>5. PICK l \in Limits : history' = [history EXCEPT !.foreign = @ \cup {a}, !.left = l]
      BY <1>2, <1>4
<1>6. /\ history' \in [left : Limits, clash : BOOLEAN, foreign : SUBSET Apps, deleted : BOOLEAN]
      /\ history'.clash = history.clash /\ history'.deleted = history.deleted
      /\ history'.foreign # {}
      BY <1>3, <1>5
<1>7. /\ sn' \in [secret : [Apps -> Nat], drawn : Nat, plugins : Nat]
      /\ \A b \in Apps : sn.secret[b] # 0 => sn'.secret[b] # 0
      BY <1>2, RotatedExists
<1>8. TypeOK'
      BY <1>1, <1>6, <1>7 DEF IInv, TypeOK, Readable, Existing
<1>9. ~Undisturbed'
      BY <1>6 DEF Undisturbed
<1>10. Globals'
       BY <1>1, <1>6, <1>9 DEF IInv, Globals, MetaTimely, Gone
<1>11. ASSUME NEW q \in Procs
       PROVE  Rest(procs[q])'
  <2>1. Fits(procs[q])'
        BY <1>1, SameFits
  <2>2. Known(procs[q])'
        BY <1>1, <1>7 DEF IInv, Known
  <2>3. Timely(procs[q])'
        BY <1>1 DEF IInv, Timely
  <2>4. (~history.clash => Clears(procs[q]))'
        BY <1>1, <1>6 DEF IInv, Clears
  <2> QED BY <1>9, <2>1, <2>2, <2>3, <2>4 DEF Rest
<1>12. ASSUME NEW q \in Procs, NEW w \in Procs
       PROVE  (~history.clash /\ q # w => Apart(procs[q], procs[w]))'
       BY <1>1, <1>6 DEF IInv, Apart
<1> QED BY <1>8, <1>9, <1>10, <1>11, <1>12 DEF IInv, Rest, Globals

\* The state of every world is one the invariant allows.
LEMMA InitKeeps ==
    ASSUME Init
    PROVE  IInv
<1>1. PICK w \in Worlds :
        /\ clock = 0
        /\ sn = [secret |-> [a \in Apps |-> IF a = 1 /\ w.app THEN 1 ELSE 0],
                 drawn |-> 1, plugins |-> 0]
        /\ meta = IF w.registered THEN Whole(1, w.expires) ELSE MetaIs("no dir")
        /\ inventory = IF w.registered THEN 1 ELSE 0
        /\ keys = IF w.registered
                  THEN [secret |-> 1, access |-> IF w.lacksToken THEN None
                                                     ELSE [app |-> 1, expires |-> w.expires],
                        refresh |-> TRUE]
                  ELSE NoKeys
        /\ default = IF w.registered THEN "ours" ELSE ""
        /\ procs = [p \in Procs |-> [IdleProc EXCEPT !.todo = w.programs[p]]]
        /\ others = w.others
        /\ history = [left |-> w.bounds, clash |-> FALSE, foreign |-> {}, deleted |-> FALSE]
      BY DEF Init
<1>2. /\ w \in [registered : BOOLEAN, app : BOOLEAN, lacksToken : BOOLEAN, others : Nat,
                expires : 0..Lifetime, programs : [Procs -> Seq(Commands)], bounds : Limits]
      /\ w.registered => w.app
      /\ 1 \in Apps /\ 0 \notin Apps
      BY WorldsAssumption, AppsAssumption DEF Situations
<1>3. /\ w.expires \in Nat /\ w.expires <= 0 + Lifetime
      /\ w.expires <= w.expires + 2 * Skew /\ 0 <= w.expires + 2 * Skew
      BY <1>2, LifetimeAssumption, BufferAssumption
<1>4. TypeOK
  <2>1. /\ clock \in Nat /\ others \in Nat
        /\ sn \in [secret : [Apps -> Nat], drawn : Nat, plugins : Nat]
        /\ default \in {"", "ours", "another"}
        /\ inventory \in Nat
        /\ meta.is = "no dir" => inventory = 0
        BY <1>1, <1>2 DEF Whole, MetaIs
  <2>2. /\ meta \in [is : {"no dir", "no file", "torn", "whole"}, app : Apps \cup {0},
                     expires : Nat]
        /\ Readable => meta.app \in Existing(sn)
        BY <1>1, <1>2, <1>3 DEF Readable, Existing, Whole, MetaIs
  <2>3. keys \in [secret : Nat, access : Tokens, refresh : BOOLEAN]
        BY <1>1, <1>2, <1>3 DEF NoKeys, Tokens
  <2>4. procs \in [Procs -> Process]
        BY ZenonT(60), <1>1, <1>2 DEF IdleProc, Process, Places, Tokens
  <2>5. history \in [left : Limits, clash : BOOLEAN, foreign : SUBSET Apps, deleted : BOOLEAN]
        BY <1>1, <1>2
  <2> QED BY <2>1, <2>2, <2>3, <2>4, <2>5 DEF TypeOK
<1>5. 0 <= 0 + Lifetime /\ (keys.access # None => 0 <= keys.access.expires + 2 * Skew)
  <2>1. 0 <= 0 + Lifetime
        BY LifetimeAssumption
  <2>2. keys.access # None => keys.access.expires = w.expires
        BY <1>1 DEF NoKeys
  <2> QED BY <1>3, <2>1, <2>2
<1>6. MetaTimely
      BY <1>1, <1>3, <1>5 DEF MetaTimely, Whole, MetaIs, NoKeys
<1>7. MetaOpens
      BY <1>1, <1>2 DEF MetaOpens, Opens, Readable, Whole, MetaIs, NoKeys
<1>8. ASSUME NEW p \in Procs
      PROVE  /\ Fits(procs[p]) /\ Known(procs[p]) /\ Timely(procs[p])
             /\ Founds(procs[p]) /\ Shares(procs[p]) /\ Clears(procs[p])
  <2>1. /\ procs[p].at = "idle" /\ procs[p].app = 0 /\ procs[p].expires = 0
        BY <1>1 DEF IdleProc
  <2>2. Fits(procs[p])
        BY <2>1 DEF Fits, Uses
  <2>3. Known(procs[p])
        BY <1>2, <2>1 DEF Known
  <2>4. Timely(procs[p])
        BY <1>1, <1>5, <2>1 DEF Timely
  <2>5. Founds(procs[p]) /\ Shares(procs[p])
        BY <2>1 DEF Founds, Shares, Uses
  <2>6. Clears(procs[p])
        BY <1>1, <2>1 DEF Clears
  <2> QED BY <2>2, <2>3, <2>4, <2>5, <2>6
<1>9. ASSUME NEW p \in Procs, NEW q \in Procs
      PROVE  Apart(procs[p], procs[q]) /\ OneApp(procs[p], procs[q])
      BY ZenonT(60), <1>1 DEF Apart, OneApp, Uses, IdleProc
<1> QED BY <1>1, <1>4, <1>6, <1>7, <1>8, <1>9 DEF IInv

\* And every step leads from such a state to such a state.
LEMMA NextKeeps ==
    ASSUME IInv, [Next]_vars
    PROVE  IInv'
<1>1. ASSUME NEW p \in Procs, Acquire(p)
      PROVE  IInv'
  <2>1. Truncate(p, "save expiry", "write expiry") => IInv'
        BY TruncateKeeps
  <2>2. CASE PluginsFor(p) \/ ResolveProfile(p) \/ HandStored(p) \/ BeginRefresh(p)
        BY <2>2, PluginsForKeeps, ResolveProfileKeeps, HandStoredKeeps, BeginRefreshKeeps
  <2>3. CASE Granted(p) \/ GrantFails(p) \/ SessionExpired(p) \/ Reconnect(p)
        BY <2>3, GrantedKeeps, GrantFailsKeeps, SessionExpiredKeeps, ReconnectKeeps
  <2>4. CASE StoreSecret(p) \/ StoreAccess(p) \/ StoreRefresh(p)
        BY <2>4, StoreSecretKeeps, StoreAccessKeeps, StoreRefreshKeeps
  <2>5. CASE SaveExpiry(p) \/ WriteExpiry(p)
        BY <2>1, <2>5, WriteExpiryKeeps DEF SaveExpiry
  <2> QED BY <1>1, <2>2, <2>3, <2>4, <2>5 DEF Acquire
<1>2. ASSUME NEW p \in Procs, Use(p)
      PROVE  IInv'
  <2>1. Truncate(p, "save meta", "write meta") => IInv'
        BY TruncateKeeps
  <2>2. CASE Probe(p) \/ Scan(p) \/ SaveScan(p)
        BY <2>2, ProbeKeeps, ScanKeeps, SaveScanKeeps
  <2>3. CASE SaveMeta(p) \/ WriteMeta(p)
        BY <2>1, <2>3, WriteMetaKeeps DEF SaveMeta
  <2>4. CASE Operate(p) \/ Rescan(p) \/ SaveRescan(p)
        BY <2>4, OperateKeeps, RescanKeeps, SaveRescanKeeps
  <2> QED BY <1>2, <2>2, <2>3, <2>4 DEF Use
<1>3. ASSUME NEW p \in Procs, Found(p)
      PROVE  IInv'
  <2>1. Truncate(p, "truncate new", "write new") => IInv'
        BY TruncateKeeps
  <2>2. CASE Exists(p) \/ ScanDirs(p) \/ Recover(p) \/ FindApp(p) \/ Rotate(p)
        BY <2>2, ExistsKeeps, ScanDirsKeeps, RecoverKeeps, FindAppKeeps, RotateKeeps
  <2>3. CASE PickApp(p) \/ PostApp(p) \/ ByHand(p) \/ Describe(p)
        BY <2>3, PickAppKeeps, PostAppKeeps, ByHandKeeps, DescribeKeeps
  <2>4. CASE TruncateNew(p) \/ WriteNew(p) \/ FirstDefault(p) \/ SetDefault(p)
        BY <2>1, <2>4, WriteNewKeeps, FirstDefaultKeeps, SetDefaultKeeps DEF TruncateNew
  <2> QED BY <1>3, <2>2, <2>3, <2>4 DEF Found
<1>4. ASSUME NEW p \in Procs, Delete(p)
      PROVE  IInv'
  <2>1. CASE DeleteSecret(p) \/ DeleteAccess(p) \/ DeleteRefresh(p)
        BY <2>1, DeleteKeysKeep
  <2>2. CASE RemoveFiles(p) \/ RemoveDir(p)
        BY <2>2, RemoveFilesKeeps, RemoveDirKeeps
  <2>3. CASE ReadDefault(p) \/ WriteDefault(p)
        BY <2>3, ReadDefaultKeeps, WriteDefaultKeeps
  <2> QED BY <1>4, <2>1, <2>2, <2>3 DEF Delete
<1>5. CASE UNCHANGED vars
  <2>1. TypeOK' /\ MetaTimely'
        BY <1>5 DEF vars, IInv, TypeOK, Readable, Existing, MetaTimely
  <2>2. (Undisturbed => MetaOpens)' /\ (~history.clash /\ history.deleted => Gone)'
        BY <1>5 DEF vars, IInv, Undisturbed, MetaOpens, Opens, Readable, Gone
  <2>3. ASSUME NEW p \in Procs
        PROVE  (/\ Fits(procs[p]) /\ Known(procs[p]) /\ Timely(procs[p])
                /\ Undisturbed => Founds(procs[p]) /\ Shares(procs[p])
                /\ ~history.clash => Clears(procs[p]))'
    <3>1. Fits(procs[p])' /\ Known(procs[p])' /\ Timely(procs[p])'
          BY <1>5 DEF vars, IInv, Fits, Known, Timely, Uses
    <3>2. (Undisturbed => Founds(procs[p]) /\ Shares(procs[p]))'
          BY <1>5 DEF vars, IInv, Undisturbed, Founds, Shares, Uses, Opens, Readable
    <3>3. (~history.clash => Clears(procs[p]))'
          BY <1>5 DEF vars, IInv, Clears
    <3> QED BY <3>1, <3>2, <3>3
  <2>4. ASSUME NEW p \in Procs, NEW q \in Procs
        PROVE  (/\ ~history.clash /\ p # q => Apart(procs[p], procs[q])
                /\ Undisturbed => OneApp(procs[p], procs[q]))'
        BY <1>5 DEF vars, IInv, Apart, OneApp, Undisturbed, Uses
  <2> QED BY <2>1, <2>2, <2>3, <2>4 DEF IInv
<1> QED BY <1>1, <1>2, <1>3, <1>4, <1>5, StartKeeps, CrashKeeps, TickKeeps, ForeignKeeps
        DEF Next

\* The invariant of a registered profile and of the commands that work on it, whatever
\* programs the shells run and wherever they die.
THEOREM Inductive == Spec => []IInv
<1>1. Init => IInv
      BY InitKeeps
<1>2. IInv /\ [Next]_vars => IInv'
      BY NextKeeps
<1> QED BY <1>1, <1>2, PTL DEF Spec

\* Every variable keeps its type, and nothing of a directory that is gone is left.
THEOREM TypeCorrect == Spec => []TypeOK
<1>1. IInv => TypeOK
      BY DEF IInv
<1> QED BY <1>1, Inductive, PTL

\* Refreshes, reconnections, registrations and setups, in any number of shells and
\* stopped at any place, leave no client secret in the keychain that the profile's
\* application does not have (_store_tokens, provision_oauth, register's refusal).
THEOREM SecretStaysCurrent == Spec => []SecretIsCurrent
<1>1. IInv => SecretIsCurrent
      BY DEF IInv, SecretIsCurrent, Undisturbed, MetaOpens, Opens, Readable
<1> QED BY <1>1, Inductive, PTL

\* A delete that ran to its end leaves no directory, no keychain entry and no default
\* of the profile (delete_tokens, registry.delete, the repair of the default).
THEOREM DeleteIsComplete == Spec => []DeletedIsGone
<1>1. IInv => DeletedIsGone
      BY DEF IInv, DeletedIsGone, Gone
<1> QED BY <1>1, Inductive, PTL

\* A step of one process changes no other.
LEMMA OneMoves ==
    ASSUME NEW p \in Procs, NEW q \in Procs, q # p, procs \in [Procs -> Process],
           Start(p) \/ Acquire(p) \/ Use(p) \/ Found(p) \/ Delete(p) \/ Crash(p)
    PROVE  procs'[q] = procs[q]
<1>1. \A r : procs' = [procs EXCEPT ![p] = r] => procs'[q] = procs[q]
      OBVIOUS
<1>2. \A place, me : Goto(p, place, me) => procs'[q] = procs[q]
      BY <1>1 DEF Goto
<1>3. End(p) => procs'[q] = procs[q]
      BY <1>1 DEF End
<1>4. \A from, to : Truncate(p, from, to) => procs'[q] = procs[q]
      BY <1>2, <1>3 DEF Truncate
<1>5. CASE Start(p) \/ Crash(p)
      BY <1>2, <1>3, <1>5 DEF Start, Crash
<1>6. CASE Acquire(p)
      BY <1>2, <1>3, <1>4, <1>6
      DEF Acquire, PluginsFor, ResolveProfile, HandStored, BeginRefresh, Granted, GrantFails,
          SessionExpired, Reconnect, StoreSecret, StoreAccess, StoreRefresh, SaveExpiry,
          WriteExpiry
<1>7. CASE Use(p)
      BY <1>2, <1>3, <1>4, <1>7
      DEF Use, Probe, Scan, SaveScan, SaveMeta, WriteMeta, Operate, Rescan, SaveRescan
<1>8. CASE Found(p)
      BY <1>2, <1>3, <1>4, <1>8
      DEF Found, Exists, ScanDirs, Recover, FindApp, Rotate, PickApp, PostApp, ByHand,
          Describe, TruncateNew, WriteNew, FirstDefault, SetDefault
<1>9. CASE Delete(p)
      BY <1>2, <1>3, <1>9
      DEF Delete, DeleteSecret, DeleteAccess, DeleteRefresh, RemoveFiles, RemoveDir,
          ReadDefault, WriteDefault
<1> QED BY <1>5, <1>6, <1>7, <1>8, <1>9

\* Two drifts of a token's expiry fit into the buffer.
LEMMA BufferCovers ==
    ASSUME NEW now \in Nat, NEW seen \in Nat, NEW stored \in Nat,
           now + Buffer < seen, seen <= stored + 2 * Skew
    PROVE  now < stored
    BY BufferAssumption

\* The stored access token that a command is handed without a request is one that the
\* server still accepts (get_bearer_token), for every lifetime, and every drift of
\* which two fit into the buffer.
THEOREM HandedTokensLive == Spec => HandedTokenIsLive
<1> DEFINE Handed(p) == At(p, "acquire") /\ procs'[p].at = Work(p)
                          => Live(procs'[p].token, clock)
<1>1. ASSUME IInv, [Next]_vars
      PROVE  [\A p \in Procs : Handed(p)]_vars
  <2> SUFFICES ASSUME NEW p \in Procs, procs[p].at = "acquire", procs'[p].at = Work(p)
               PROVE  Live(procs'[p].token, clock)
      BY DEF At, Me
  <2>1. /\ procs \in [Procs -> Process] /\ keys.access \in Tokens /\ clock \in Nat
        /\ procs[p].expires \in Nat
        BY <1>1 DEF IInv, TypeOK, Process
  <2>2. Work(p) \notin {"acquire", "idle", "refreshing"}
        BY DEF Work
  <2>3. procs'[p] # procs[p]
        BY <2>2
  <2>4. Start(p) \/ Acquire(p) \/ Use(p) \/ Found(p) \/ Delete(p) \/ Crash(p)
        BY <1>1, <2>1, <2>3, OneMoves DEF Next, Tick, ForeignRegister, Same, vars
  <2>5. ~End(p)
        BY <2>1, <2>2 DEF End, IdleProc
  <2>6. HandStored(p) \/ BeginRefresh(p)
    <3>1. ~Start(p) /\ ~Crash(p)
          BY <2>5 DEF Start, Busy, Crash
    <3>2. Acquire(p) => HandStored(p) \/ BeginRefresh(p)
          BY DEF Acquire, At, PluginsFor, ResolveProfile, Granted, GrantFails, SessionExpired,
                 Reconnect, StoreSecret, StoreAccess, StoreRefresh, SaveExpiry, Truncate,
                 WriteExpiry
    <3>3. ~Use(p)
          BY DEF Use, At, Probe, Scan, SaveScan, SaveMeta, Truncate, WriteMeta, Operate, Rescan,
                 SaveRescan
    <3>4. ~Found(p)
          BY DEF Found, At, Exists, ScanDirs, Recover, FindApp, Rotate, PickApp, PostApp,
                 ByHand, Describe, TruncateNew, Truncate, WriteNew, FirstDefault, SetDefault
    <3>5. ~Delete(p)
          BY DEF Delete, At, DeleteSecret, DeleteAccess, DeleteRefresh, RemoveFiles, RemoveDir,
                 ReadDefault, WriteDefault
    <3> QED BY <2>4, <3>1, <3>2, <3>3, <3>4, <3>5
  <2>7. ~BeginRefresh(p)
    <3>1. \A r \in Process : procs' = [procs EXCEPT ![p] = r] => procs'[p] = r
          BY <2>1
    <3>2. ASSUME NEW me \in Process, Goto(p, "refreshing", me)
          PROVE  procs'[p].at = "refreshing"
      <4>1. /\ [me EXCEPT !.at = "refreshing"] \in Process
            /\ [me EXCEPT !.at = "refreshing"].at = "refreshing"
            BY ZenonT(60) DEF Process, Places
      <4> QED BY <3>1, <3>2, <4>1 DEF Goto
    <3>3. keys.secret \in Nat /\ procs[p] \in Process
          BY <1>1 DEF IInv, TypeOK
    <3>4. Asking(p, "refresh", procs[p].app, keys.secret) \in Process
          BY <2>1, <3>3 DEF Asking, Process
    <3> QED BY <2>2, <2>5, <3>2, <3>4 DEF BeginRefresh
  <2>8. /\ keys.access # None
        /\ procs'[p].token = keys.access
        /\ clock + Buffer < procs[p].expires
        BY <2>1, <2>5, <2>6, <2>7 DEF HandStored, Goto, StillFresh, Process
  <2>9. procs[p].expires <= keys.access.expires + 2 * Skew /\ keys.access.expires \in Nat
        BY <1>1, <2>1, <2>8 DEF IInv, Timely, Tokens
  <2>10. clock < keys.access.expires
         BY <2>1, <2>8, <2>9, BufferCovers
  <2> QED BY <2>8, <2>10 DEF Live
<1> QED BY <1>1, Inductive, PTL DEF Spec, HandedTokenIsLive

====
