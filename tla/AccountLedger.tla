--------------------------- MODULE AccountLedger ---------------------------
(***************************************************************************)
(* What the account operations promise: each changes one column of one     *)
(* row, from the row as it stands, in one step.  UserAccounts shows how    *)
(* far auth.service.ts, which loads a row, waits and saves the whole of    *)
(* it, keeps that promise.                                                 *)
(***************************************************************************)
CONSTANTS
    Bios, Links,     \* texts of a profile, links to a photo
    Keys,            \* license keys
    Targets,         \* whom the copier may subscribe to, None for nobody
    None

VARIABLE users       \* "master", "copier" -> [active, license, sub, bio, avatar]

GenerateLicense(k) == users' = [users EXCEPT !["master"].license = k]

ToggleStatus(u) == users' = [users EXCEPT ![u].active = ~@]

UpdateSubscription(t) == users' = [users EXCEPT !["copier"].sub = t]

RevokeSubscriber ==
    /\ users["master"].active
    /\ users["copier"].sub = "master"
    /\ users' = [users EXCEPT !["copier"].sub = None]

UpdateProfile(b) == users' = [users EXCEPT !["master"].bio = b]

UploadAvatar(l) == users' = [users EXCEPT !["master"].avatar = l]

Next ==
    \/ \E k \in Keys : GenerateLicense(k)
    \/ \E u \in {"master", "copier"} : ToggleStatus(u)
    \/ \E t \in Targets : UpdateSubscription(t)
    \/ RevokeSubscriber
    \/ \E b \in Bios : UpdateProfile(b)
    \/ \E l \in Links : UploadAvatar(l)

============================================================================
