---- MODULE InstanceServer ----
(***************************************************************************)
(* The ServiceNow side of a registration: OAuth applications, what they    *)
(* grant, and the plugins of the instance. External: known from how        *)
(* cli/oauth.py, instances/oauth.py and the scanners use it.               *)
(*                                                                         *)
(* Every application here carries the name nexus-<profile>; 0 stands for a *)
(* missing secret, hence for an application that does not exist.           *)
(***************************************************************************)
EXTENDS Naturals, FiniteSets

CONSTANTS Apps,      \* slots for applications of that name, 1..n
          Lifetime   \* ticks an access token lives

ASSUME AppsAssumption == Apps \subseteq Nat \ {0} /\ IsFiniteSet(Apps)
ASSUME LifetimeAssumption == Lifetime \in Nat

Existing(sn) == {a \in Apps : sn.secret[a] # 0}

\* a secret nobody has used: the code draws a random UUID
NewSecret(sn) == sn.drawn + 1

\* PATCH of an application, and POST of a new one
Rotated(sn, a) ==
    [sn EXCEPT !.secret = [sn.secret EXCEPT ![a] = NewSecret(sn)], !.drawn = NewSecret(sn)]

FreeApp(sn) == CHOOSE a \in Apps : a \notin Existing(sn)

HasRoom(sn) == Existing(sn) # Apps

Created(sn) == Rotated(sn, FreeApp(sn))

\* a grant is given only for the application's present secret
Authentic(sn, a, secret) == a \in Existing(sn) /\ sn.secret[a] = secret

\* the access token granted now
TokenAt(clock, a) == [app |-> a, expires |-> clock + Lifetime]

Live(token, clock) == clock < token.expires

====
