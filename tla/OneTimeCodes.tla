---------------------------- MODULE OneTimeCodes ----------------------------
(***************************************************************************)
(* The backend's account handlers (AuthService) and one-time codes         *)
(* (OtpService) for one e-mail address: registration, the verification of  *)
(* the address, the reset of the password, and login.                      *)
(*                                                                         *)
(* A call is one request.  An action is the code between two awaits, so    *)
(* the calls of several tabs interleave at each of them.  save() writes    *)
(* back every column of the entity that differs from the row by then, also *)
(* those that another call has changed since the entity was loaded.        *)
(*                                                                         *)
(* Rows of email_otps are numbered; the code of row r is r, and WrongCode  *)
(* is no row's.  A row holds its age in ticks rather than two dates.       *)
(***************************************************************************)
EXTENDS Naturals, Sequences

CONSTANTS
    Calls,        \* bound: requests served at the same time
    Tabs,
    Passwords,
    MaxCodes,     \* bound: rows of email_otps
    MaxAttempts,  \* OTP_MAX_ATTEMPTS
    ResendTicks,  \* OTP_RESEND_SECONDS, and the pages' countdown
    TtlTicks,     \* OTP_TTL_MINUTES
    Starts,       \* the accounts to start from
    Env,          \* what the mail server and the clock may do
    None

EnvKinds == {"mailFails",     \* the mail server refuses a message
             "tokenExpires"}  \* a reset token is used too late

\* resendAtLogin: the resend that the login page makes when the address is not verified.
Operations == {"register", "verifySignup", "resendSignup", "resendAtLogin", "resendReset",
               "requestReset", "verifyReset", "confirmReset", "login"}

ASSUME CodesAssumption ==
    /\ MaxCodes \in Nat \ {0} /\ MaxAttempts \in Nat \ {0}
    /\ ResendTicks \in Nat \ {0} /\ TtlTicks \in Nat
    /\ None \notin Tabs \cup Operations \cup Passwords
    /\ Env \subseteq EnvKinds /\ Starts \subseteq {"none", "unverified", "old", "disabled"}

VARIABLES
    user,       \* the row of users
    otps,       \* the rows of email_otps, oldest first
    call,       \* the requests
    accepted,   \* history: rows whose code was accepted
    reused,     \* history: rows whose code was accepted again
    guesses,    \* history: wrong codes compared, per row
    raced,      \* history: rows saved from a copy that was out of date
    clobbered,  \* history: operations that saved a user that was out of date
    chosen,     \* history: the password of the last registration or reset
    confirmed   \* history: an address verification has been saved

codeVars == <<user, otps, call, accepted, reused, guesses, raced, clobbered, chosen, confirmed>>

WrongCode == 0
Purposes == {"SIGNUP", "PASSWORD_RESET"}

\* old: the row is from before e-mail verification and hashing: an unset isEmailVerified
\* counts as verified.
Users == [exists : BOOLEAN, password : Passwords \cup {None}, hashed : BOOLEAN,
          isEmailVerified : BOOLEAN, isActive : BOOLEAN, old : BOOLEAN]

\* bound: past this age a row is neither young nor valid.
OldAge == IF TtlTicks < ResendTicks THEN ResendTicks ELSE TtlTicks + 1

\* told: history, the tab whose page has reported that the code was sent.
Rows == [purpose : Purposes, age : 0 .. OldAge, consumed : BOOLEAN,
         attempts : 0 .. MaxAttempts, told : Tabs \cup {None}]

\* Where a request is in its handler, and what it holds there: its row of email_otps, and
\* its copy of that row or of the user
Requests ==
    [op : Operations \cup {None}, tab : Tabs \cup {None}, live : BOOLEAN,
     at : {"idle", "create", "find", "throttle", "invalidate", "insert", "lookup",
           "lock", "compare", "load", "save", "invalidateResets", "fresh", "answered"},
     arg : (0 .. MaxCodes) \cup Passwords \cup {None}, row : 0 .. MaxCodes,
     copy : Users \cup Rows \cup {None}, result : {None, "ok", "error", "requiresOtp"}]

Idle == [op |-> None, at |-> "idle", tab |-> None, live |-> FALSE, arg |-> None,
         row |-> 0, copy |-> None, result |-> None]

PurposeOf(op) == IF op \in {"register", "verifySignup", "resendSignup", "resendAtLogin"}
                 THEN "SIGNUP" ELSE "PASSWORD_RESET"

Active(p) == {r \in DOMAIN otps : otps[r].purpose = p /\ ~otps[r].consumed}
Newest(p, r) == r \in Active(p) /\ \A s \in Active(p) : s <= r

TypeOK ==
    /\ user \in Users
    /\ otps \in Seq(Rows) /\ Len(otps) <= MaxCodes
    /\ call \in [Calls -> Requests]
    /\ \A c \in Calls :
           /\ call[c].at \in {"compare", "lock"} =>
                  call[c].row \in DOMAIN otps /\ call[c].copy \in Rows
           /\ call[c].at = "save" => call[c].copy \in Users
    /\ accepted \subseteq 1 .. MaxCodes /\ reused \subseteq accepted /\ raced \subseteq 1 .. MaxCodes
    /\ guesses \in [1 .. MaxCodes -> 0 .. MaxAttempts + 1]
    /\ clobbered \subseteq Operations
    /\ chosen \in Passwords \cup {None}
    /\ confirmed \in BOOLEAN

Account(start, p) ==
    [exists |-> start # "none", password |-> IF start = "none" THEN None ELSE p,
     hashed |-> start = "unverified", isEmailVerified |-> start \in {"old", "disabled"},
     isActive |-> start # "disabled", old |-> start \in {"old", "disabled"}]

NewRow(p) == [purpose |-> p, age |-> 0, consumed |-> FALSE, attempts |-> 0, told |-> None]

\* A registered address has been sent its first code.
CodesInit ==
    /\ \E start \in Starts, p \in Passwords :
           /\ user = Account(start, p)
           /\ otps = IF start = "unverified" THEN <<NewRow("SIGNUP")>> ELSE <<>>
    /\ call = [c \in Calls |-> Idle]
    /\ accepted = {} /\ reused = {} /\ raced = {} /\ clobbered = {}
    /\ guesses = [r \in 1 .. MaxCodes |-> 0]
    /\ chosen = user.password
    /\ confirmed = FALSE

At(c, step) == call[c].at = step
Goto(c, step) == call' = [call EXCEPT ![c].at = step]
Answer(c, result) == call' = [call EXCEPT ![c].at = "answered", ![c].result = result,
                                          ![c].copy = None, ![c].row = 0]

----------------------------------------------------------------------------
(* AuthController: one request starts its handler *)

FirstStep(op) ==
    CASE op = "register" -> "create"
      [] op \in {"verifySignup", "verifyReset"} -> "lookup"
      [] op \in {"resendSignup", "resendAtLogin"} -> "throttle"
      [] op \in {"resendReset", "requestReset"} -> "find"
      [] op \in {"confirmReset", "login"} -> "load"

Started(op, t, x) == [Idle EXCEPT !.op = op, !.at = FirstStep(op), !.tab = t, !.live = TRUE, !.arg = x]

----------------------------------------------------------------------------
(* OtpService.issueOtp *)

\* A second code is refused while the newest unconsumed one is young.
Throttled(r) == otps[r].age < ResendTicks

Throttle(c) ==
    /\ At(c, "throttle")
    /\ IF \E r \in DOMAIN otps : Newest(PurposeOf(call[c].op), r) /\ Throttled(r)
       THEN Answer(c, "error") ELSE Goto(c, "invalidate")
    /\ UNCHANGED <<user, otps, accepted, reused, guesses, raced, clobbered, chosen, confirmed>>

Invalidated(p) ==
    [r \in DOMAIN otps |-> IF r \in Active(p) THEN [otps[r] EXCEPT !.consumed = TRUE] ELSE otps[r]]

InvalidateOtps(c) ==
    /\ At(c, "invalidate")
    /\ otps' = Invalidated(PurposeOf(call[c].op))
    /\ Goto(c, "insert")
    /\ UNCHANGED <<user, accepted, reused, guesses, raced, clobbered, chosen, confirmed>>

\* The row is saved and the message sent; when the mail server refuses it, or the database
\* the row (past the bound), the old codes are invalid all the same.  The call keeps its row
\* until its answer, which tells the page of it.
InsertOtp(c) ==
    /\ At(c, "insert")
    /\ IF Len(otps) = MaxCodes THEN Answer(c, "error") /\ UNCHANGED otps
       ELSE /\ otps' = Append(otps, NewRow(PurposeOf(call[c].op)))
            /\ \/ call' = [call EXCEPT ![c].at = "answered", ![c].result = "ok",
                                       ![c].row = Len(otps) + 1]
               \/ "mailFails" \in Env /\ Answer(c, "error")
    /\ UNCHANGED <<user, accepted, reused, guesses, raced, clobbered, chosen, confirmed>>

----------------------------------------------------------------------------
(* OtpService.verifyOtp *)

Usable(c, r) == Newest(PurposeOf(call[c].op), r) /\ otps[r].age <= TtlTicks

LookupFails(c) ==
    /\ At(c, "lookup") /\ ~\E r \in DOMAIN otps : Usable(c, r)
    /\ Answer(c, "error")
    /\ UNCHANGED <<user, otps, accepted, reused, guesses, raced, clobbered, chosen, confirmed>>

Lookup(c) ==
    /\ At(c, "lookup")
    /\ \E r \in DOMAIN otps :
           /\ Usable(c, r)
           /\ call' = [call EXCEPT ![c].row = r, ![c].copy = otps[r],
                  ![c].at = IF otps[r].attempts >= MaxAttempts THEN "lock" ELSE "compare"]
    /\ UNCHANGED <<user, otps, accepted, reused, guesses, raced, clobbered, chosen, confirmed>>

Lock(c) ==
    /\ At(c, "lock")
    /\ otps' = [otps EXCEPT ![call[c].row].consumed = TRUE]
    /\ Answer(c, "error")
    /\ UNCHANGED <<user, accepted, reused, guesses, raced, clobbered, chosen, confirmed>>

\* The row without its history and its age, which no save writes.
Saved(r, consumed, attempts) == [otps[r] EXCEPT !.consumed = consumed, !.attempts = attempts]
OutOfDate(c) == Saved(call[c].row, call[c].copy.consumed, call[c].copy.attempts) # otps[call[c].row]

\* A wrong code: attempts is the copy's plus one, and the save writes the copy's consumedAt,
\* null, too.
WrongGuess(c) ==
    LET r == call[c].row IN
    /\ At(c, "compare") /\ call[c].arg # r
    /\ otps' = [otps EXCEPT ![r] = Saved(r, FALSE, call[c].copy.attempts + 1)]
    /\ guesses' = [guesses EXCEPT ![r] = IF @ > MaxAttempts THEN @ ELSE @ + 1]
    /\ raced' = IF OutOfDate(c) THEN raced \cup {r} ELSE raced
    /\ Answer(c, "error")
    /\ UNCHANGED <<user, accepted, reused, clobbered, chosen, confirmed>>

\* Mutant: the row of an accepted code is not saved.
RightCodeUnsaved(c) ==
    LET r == call[c].row IN
    /\ At(c, "compare") /\ call[c].arg = r
    /\ accepted' = accepted \cup {r}
    /\ reused' = IF r \in accepted THEN reused \cup {r} ELSE reused
    /\ call' = [call EXCEPT ![c].at = "load", ![c].copy = None, ![c].row = 0]
    /\ UNCHANGED <<user, otps, raced, guesses, clobbered, chosen, confirmed>>

RightCode(c) ==
    LET r == call[c].row IN
    /\ At(c, "compare") /\ call[c].arg = r
    /\ otps' = [otps EXCEPT ![r] = Saved(r, TRUE, call[c].copy.attempts)]
    /\ accepted' = accepted \cup {r}
    /\ reused' = IF r \in accepted THEN reused \cup {r} ELSE reused
    /\ raced' = IF OutOfDate(c) THEN raced \cup {r} ELSE raced
    /\ call' = [call EXCEPT ![c].at = "load", ![c].copy = None, ![c].row = 0]
    /\ UNCHANGED <<user, guesses, clobbered, chosen, confirmed>>

----------------------------------------------------------------------------
(* AuthService *)

\* register: the unique e-mail makes the save fail when the account exists.
CreateUser(c) ==
    /\ At(c, "create")
    /\ IF user.exists THEN Answer(c, "error") /\ UNCHANGED <<user, chosen>>
       ELSE /\ user' = [exists |-> TRUE, password |-> call[c].arg, hashed |-> TRUE,
                        isEmailVerified |-> FALSE, isActive |-> TRUE, old |-> FALSE]
            /\ chosen' = call[c].arg
            /\ Goto(c, "throttle")
    /\ UNCHANGED <<otps, accepted, reused, guesses, raced, clobbered, confirmed>>

\* requestPasswordReset and resendOtp answer the same whether the account exists or not.
FindUser(c) ==
    /\ At(c, "find")
    /\ IF user.exists /\ user.isActive THEN Goto(c, "throttle") ELSE Answer(c, "ok")
    /\ UNCHANGED <<user, otps, accepted, reused, guesses, raced, clobbered, chosen, confirmed>>

\* What a handler does with the user it has loaded.
Changed(c, u) ==
    CASE call[c].op = "verifySignup" -> [u EXCEPT !.isEmailVerified = TRUE]
      [] call[c].op = "confirmReset" -> [u EXCEPT !.password = call[c].arg, !.hashed = TRUE]
      [] call[c].op = "login" -> [u EXCEPT !.hashed = TRUE]

LoadUser(c) ==
    /\ At(c, "load")
    /\ IF \/ ~user.exists
          \/ call[c].op = "login" /\ call[c].arg # user.password
       THEN Answer(c, "error")
       ELSE CASE call[c].op = "verifyReset" -> Answer(c, "ok")
              [] call[c].op = "login" /\ user.hashed -> Goto(c, "fresh")
              [] OTHER -> call' = [call EXCEPT ![c].at = "save", ![c].copy = user]
    /\ UNCHANGED <<user, otps, accepted, reused, guesses, raced, clobbered, chosen, confirmed>>

\* verifyAsync of the reset token.
TokenExpires(c) ==
    /\ "tokenExpires" \in Env /\ At(c, "load") /\ call[c].op = "confirmReset"
    /\ Answer(c, "error")
    /\ UNCHANGED <<user, otps, accepted, reused, guesses, raced, clobbered, chosen, confirmed>>

\* Mutant: the reset saves a fresh entity whose password is not the one that was sent.
SaveUserUnchanged(c) ==
    /\ At(c, "save")
    /\ user' = [Changed(c, call[c].copy) EXCEPT !.password = call[c].copy.password]
    /\ clobbered' = IF call[c].copy # user THEN clobbered \cup {call[c].op} ELSE clobbered
    /\ chosen' = IF call[c].op = "confirmReset" THEN call[c].arg ELSE chosen
    /\ confirmed' = (confirmed \/ call[c].op = "verifySignup")
    /\ CASE call[c].op = "verifySignup" -> Answer(c, "ok")
         [] call[c].op = "confirmReset" ->
                call' = [call EXCEPT ![c].at = "invalidateResets", ![c].copy = None]
         [] call[c].op = "login" -> call' = [call EXCEPT ![c].at = "fresh", ![c].copy = None]
    /\ UNCHANGED <<otps, accepted, reused, guesses, raced>>

SaveUser(c) ==
    /\ At(c, "save")
    /\ user' = Changed(c, call[c].copy)
    /\ clobbered' = IF call[c].copy # user THEN clobbered \cup {call[c].op} ELSE clobbered
    /\ chosen' = IF call[c].op = "confirmReset" THEN call[c].arg ELSE chosen
    /\ confirmed' = (confirmed \/ call[c].op = "verifySignup")
    /\ CASE call[c].op = "verifySignup" -> Answer(c, "ok")
         [] call[c].op = "confirmReset" ->
                call' = [call EXCEPT ![c].at = "invalidateResets", ![c].copy = None]
         [] call[c].op = "login" -> call' = [call EXCEPT ![c].at = "fresh", ![c].copy = None]
    /\ UNCHANGED <<otps, accepted, reused, guesses, raced>>

InvalidateResets(c) ==
    /\ At(c, "invalidateResets")
    /\ otps' = Invalidated("PASSWORD_RESET")
    /\ Answer(c, "ok")
    /\ UNCHANGED <<user, accepted, reused, guesses, raced, clobbered, chosen, confirmed>>

\* Mutant: the gate looks at isActive where it should look at isEmailVerified.
FreshUserUngated(c) ==
    /\ At(c, "fresh")
    /\ Answer(c, IF user.isActive THEN "ok" ELSE "requiresOtp")
    /\ UNCHANGED <<user, otps, accepted, reused, guesses, raced, clobbered, chosen, confirmed>>

\* login loads the user again and refuses an address that was never verified.
FreshUser(c) ==
    /\ At(c, "fresh")
    /\ Answer(c, IF user.isEmailVerified THEN "ok" ELSE "requiresOtp")
    /\ UNCHANGED <<user, otps, accepted, reused, guesses, raced, clobbered, chosen, confirmed>>

Handler(c) ==
    \/ Throttle(c) \/ InvalidateOtps(c) \/ InsertOtp(c)
    \/ LookupFails(c) \/ Lookup(c) \/ Lock(c) \/ WrongGuess(c) \/ RightCode(c)
    \/ CreateUser(c) \/ FindUser(c) \/ LoadUser(c) \/ TokenExpires(c)
    \/ SaveUser(c) \/ InvalidateResets(c) \/ FreshUser(c)

----------------------------------------------------------------------------
(* Properties *)

\* A code is accepted once and compared with at most maxAttempts wrong codes.  The one way
\* round it is a verification that saves a row which has changed since it was looked up.
CodesAreSpent ==
    \A r \in 1 .. MaxCodes : r \notin raced => r \notin reused /\ guesses[r] <= MaxAttempts

\* A registered or reset password stays until the next reset, and a verified address stays
\* verified.  What can undo them is a handler that saves a user loaded before: a password,
\* only a verification or the migration in login; a verification, only a reset.
ResetSticks ==
    /\ user.password # chosen => clobbered \cap {"verifySignup", "login"} # {}
    /\ confirmed /\ ~user.isEmailVerified => "confirmReset" \in clobbered

============================================================================
