----------------------------- MODULE SecondFactor -----------------------------
(***************************************************************************)
(* The second factor of one account.  A login to which it is required offers *)
(* a secret and binds it; the user sets one up, confirms and removes it in    *)
(* the profile; an administrator enables, lifts and resets it.  Each request  *)
(* reads the profile of the account and later saves the fields it sets.       *)
(* Codes are right: a wrong one ends the request.  totp_reset_required is     *)
(* left out, nothing sets it.                                                *)
(***************************************************************************)
EXTENDS Naturals, FiniteSets

CONSTANTS
    Logins,      \* bound: logins between password and code
    Secrets,     \* bound: secrets at a time
    NoSecret

ASSUME FactorAssumption == NoSecret \notin Secrets

VARIABLES
    profile,     \* UserProfile; bound: the secret whose code was last shown
    edit,        \* requests that read the profile and will save it
    offered,     \* secret kept in the session of each login
    overlapped,  \* history: a request saved what it had read before another save
    presumed     \* history: an administrator enabled a secret never confirmed

factorVars == <<profile, edit, offered, overlapped, presumed>>

MaybeSecret == Secrets \cup {NoSecret}
Profile  == [secret : MaybeSecret, pending : MaybeSecret, enabled : BOOLEAN,
             required : BOOLEAN, bound : MaybeSecret]
FactorKinds    == [login |-> {"offer", "bind", "code"}, self |-> {"setup", "confirm", "disable"},
             admin |-> {"enable", "lift", "reset"}]
Editors  == Logins \cup {"self", "admin"}
KindsOf(e) == IF e \in Logins THEN FactorKinds.login ELSE FactorKinds[e]
Idle     == [kind |-> "none", seen |-> NoSecret, stale |-> FALSE]

FactorTypeOK ==
    /\ profile \in Profile /\ offered \in [Logins -> MaybeSecret]
    /\ edit \in [Editors -> [kind : {"none"} \cup UNION {KindsOf(e) : e \in Editors},
                             seen : MaybeSecret, stale : BOOLEAN]]
    /\ \A e \in Editors : edit[e].kind \in KindsOf(e) \cup {"none"}
    /\ overlapped \in BOOLEAN /\ presumed \in BOOLEAN

FactorInit ==
    /\ profile = [secret |-> NoSecret, pending |-> NoSecret, enabled |-> FALSE,
                  required |-> FALSE, bound |-> NoSecret]
    /\ edit = [e \in Editors |-> Idle]
    /\ offered = [l \in Logins |-> NoSecret]
    /\ overlapped = FALSE /\ presumed = FALSE

FreeSecrets == Secrets \ (  {profile.secret, profile.pending, profile.bound}
                          \cup {edit[e].seen : e \in Editors} \cup {offered[l] : l \in Logins})
NewSecret == CHOOSE s \in FreeSecrets : TRUE
----------------------------------------------------------------------------
(* The conditions on which a request goes on. *)

\* auth_login offers a secret when one is required; auth_login_2fa_setup binds
\* the one offered last; auth_login_2fa asks for the code of the secret.
LoginGoesOn(l, kind) ==
    CASE kind = "offer" -> profile.required
      [] kind = "bind"  -> offered[l] # NoSecret /\ offered[l] = profile.pending
      [] kind = "code"  -> profile.enabled /\ profile.secret # NoSecret

SelfGoesOn(kind) ==
    CASE kind = "setup"   -> ~profile.enabled
      [] kind = "confirm" -> profile.secret # NoSecret
      [] kind = "disable" -> profile.enabled /\ profile.secret # NoSecret

Read(e, kind) ==
    /\ edit[e] = Idle
    /\ e \in Logins => LoginGoesOn(e, kind)
    /\ e = "self" => SelfGoesOn(kind)
    /\ edit' = [edit EXCEPT ![e] = [kind |-> kind, stale |-> FALSE,
                  seen |-> IF kind = "bind" THEN offered[e] ELSE profile.secret]]
    /\ UNCHANGED <<profile, offered, overlapped, presumed>>
----------------------------------------------------------------------------
(* What each request saves: it changes the fields it names and no other. *)

\* Mutant: an administrator enables it whether or not there is a secret.
EnableAlways(seen, p) == [p EXCEPT !.pending = NoSecret, !.enabled = TRUE, !.required = FALSE]

\* system_user_2fa_enable: with a secret it is on, without one it is required.
AdminEnable(seen, p) ==
    IF seen # NoSecret THEN [p EXCEPT !.pending = NoSecret, !.enabled = TRUE, !.required = FALSE]
    ELSE [p EXCEPT !.pending = NoSecret, !.enabled = FALSE, !.required = TRUE]

AdminLift(p)  == [p EXCEPT !.pending = NoSecret, !.enabled = FALSE, !.required = FALSE]
AdminReset(p) == [p EXCEPT !.secret = NoSecret, !.pending = NoSecret, !.enabled = FALSE, !.required = TRUE]

SetUp(p)         == [p EXCEPT !.secret = NewSecret, !.pending = NoSecret, !.required = FALSE]
Confirm(seen, p) == [p EXCEPT !.pending = NoSecret, !.enabled = TRUE, !.required = FALSE, !.bound = seen]
Disable(p)       == [p EXCEPT !.secret = NoSecret, !.pending = NoSecret, !.enabled = FALSE, !.required = FALSE]

Offer(p)      == [p EXCEPT !.pending = NewSecret]
Bind(seen, p) == [p EXCEPT !.secret = seen, !.pending = NoSecret, !.enabled = TRUE, !.required = FALSE,
                           !.bound = seen]

Edited(kind, seen, p) ==
    CASE kind = "offer"  -> Offer(p)
      [] kind = "bind"   -> Bind(seen, p)
      [] kind = "code"   -> p
      [] kind = "setup"  -> SetUp(p)
      [] kind = "confirm" -> Confirm(seen, p)
      [] kind = "disable" -> Disable(p)
      [] kind = "enable" -> AdminEnable(seen, p)
      [] kind = "lift"   -> AdminLift(p)
      [] kind = "reset"  -> AdminReset(p)

Save(e) ==
    LET kind == edit[e].kind  seen == edit[e].seen IN
    /\ kind # "none"
    /\ kind \in {"offer", "setup"} => FreeSecrets # {}
    /\ profile' = Edited(kind, seen, profile)
    /\ offered' = CASE kind = "offer" -> [offered EXCEPT ![e] = NewSecret]
                    [] kind = "bind"  -> [offered EXCEPT ![e] = NoSecret]
                    [] OTHER -> offered
    /\ edit' = [x \in Editors |-> IF x = e THEN Idle
                                  ELSE [edit[x] EXCEPT !.stale = @ \/ (edit[x].kind # "none" /\ profile' # profile)]]
    /\ overlapped' = (overlapped \/ edit[e].stale)
    /\ presumed' = (presumed \/ (kind = "enable" /\ seen \notin {NoSecret, profile.bound}))

\* A wrong code, an expired offer or a failed request.
GiveUp(e) ==
    /\ edit[e].kind # "none" /\ edit' = [edit EXCEPT ![e] = Idle]
    /\ UNCHANGED <<profile, offered, overlapped, presumed>>
Forget(l) ==
    /\ offered[l] # NoSecret /\ offered' = [offered EXCEPT ![l] = NoSecret]
    /\ UNCHANGED <<profile, edit, overlapped, presumed>>

FactorNext ==
    \/ \E e \in Editors : Save(e) \/ GiveUp(e) \/ \E kind \in KindsOf(e) : Read(e, kind)
    \/ \E l \in Logins : Forget(l)

FactorSpec == FactorInit /\ [][FactorNext]_factorVars
----------------------------------------------------------------------------
(* Properties. *)

\* The second factor of an account is on only with a secret whose code the user has
\* shown; unless two changes of the profile overlapped, or an administrator
\* enabled a secret that was set up and never confirmed.  Without a secret nobody
\* could log in: no code is right.
FactorUsable ==
    profile.enabled /\ ~overlapped =>
      profile.secret # NoSecret /\ (profile.secret = profile.bound \/ presumed)
=============================================================================
