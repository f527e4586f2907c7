----------------------------- MODULE AuthProofs -----------------------------
(***************************************************************************)
(* Proofs about the one-time codes with their pages: for any number of     *)
(* requests, tabs, codes and attempts, a code is accepted once, only a     *)
(* code lets in, a reset sticks and the countdown of the pages is honest,  *)
(* but for the overlaps that the properties name.                          *)
(***************************************************************************)
EXTENDS AuthPages, SequenceTheorems, TLAPS

\* The steps of a handler, by operation
StepOK(op, at) ==
    \/ op = None /\ at = "idle"
    \/ op \in Operations /\ at = "answered"
    \/ op = "register" /\ at \in {"create", "throttle", "invalidate", "insert"}
    \/ op \in {"resendSignup", "resendAtLogin"} /\ at \in {"throttle", "invalidate", "insert"}
    \/ op \in {"resendReset", "requestReset"} /\ at \in {"find", "throttle", "invalidate", "insert"}
    \/ op = "verifySignup" /\ at \in {"lookup", "lock", "compare", "load", "save"}
    \/ op = "verifyReset" /\ at \in {"lookup", "lock", "compare", "load"}
    \/ op = "confirmReset" /\ at \in {"load", "save", "invalidateResets"}
    \/ op = "login" /\ at \in {"load", "save", "fresh"}

\* Whoever is verified is so by a code, or from before verification.
ByCode == user.old \/ \E r \in accepted : otps[r].purpose = "SIGNUP"

\* Only rows from before are not hashed, and they count as verified.
UserOK(u) == (u.old => u.exists /\ u.isEmailVerified) /\ (u.exists /\ ~u.hashed => u.old)

\* What a request holds in the middle of its handler: its row of rows, its copy of u, and
\* whether somebody is in by a code
RowHeld(h, rows) ==
    /\ h.row \in DOMAIN rows /\ h.copy \in Rows
    /\ rows[h.row].purpose = PurposeOf(h.op)
    /\ h.at = "compare" => ~h.copy.consumed /\ h.copy.attempts < MaxAttempts

UserHeld(h, u, in) ==
    /\ u.exists /\ h.copy \in Users /\ h.copy.exists /\ UserOK(h.copy) /\ h.copy.old = u.old
    /\ h.copy.isEmailVerified => in
    /\ h.op = "login" => ~h.copy.hashed

LetIn(h) ==
    \/ h.op = "verifySignup" /\ h.at \in {"load", "save"}
    \/ h.op \in {"login", "verifySignup"} /\ h.at = "answered" /\ h.result = "ok"

HoldsOK(h, rows, u, in) ==
    /\ StepOK(h.op, h.at)
    /\ h.op \in {"register", "confirmReset"} => h.arg \in Passwords
    /\ h.at \in {"lock", "compare"} => RowHeld(h, rows)
    /\ h.at = "save" => UserHeld(h, u, in)
    /\ LetIn(h) => in

Typed ==
    /\ user \in Users
    /\ otps \in Seq(Rows) /\ Len(otps) <= MaxCodes
    /\ accepted \subseteq DOMAIN otps /\ reused \subseteq accepted /\ raced \subseteq DOMAIN otps
    /\ guesses \in [1 .. MaxCodes -> 0 .. MaxAttempts + 1]
    /\ clobbered \subseteq Operations
    /\ chosen \in Passwords \cup {None}
    /\ confirmed \in BOOLEAN

PagesTyped ==
    /\ requests \in 0 .. MaxRequests
    /\ page \in [Tabs -> Entries \cup ForgotPassword \cup {"dashboard"}]
    /\ isLoading \in [Tabs -> BOOLEAN]
    /\ countdown \in [Tabs -> 0 .. ResendTicks]
    /\ redirect \in [Tabs -> BOOLEAN]

CallsOK ==
    /\ call \in [Calls -> Requests]
    /\ \A c \in Calls : HoldsOK(call[c], otps, user, ByCode)

\* A row that was never saved from an old copy counts its wrong guesses, and is consumed
\* once its code was accepted.
RowsOK ==
    /\ \A r \in 1 .. MaxCodes : r \notin DOMAIN otps => guesses[r] = 0
    /\ \A r \in DOMAIN otps \ raced :
        /\ r \notin reused /\ guesses[r] <= otps[r].attempts
        /\ r \in accepted => otps[r].consumed

UserSound ==
    /\ UserOK(user)
    /\ user.isEmailVerified => ByCode
    /\ confirmed => user.exists
    /\ ResetSticks

InsideByCode == \A t \in Tabs : page[t] = "dashboard" => ByCode

CodesInv == Typed /\ CallsOK /\ RowsOK /\ UserSound
AuthInv == CodesInv /\ PagesTyped /\ InsideByCode

----------------------------------------------------------------------------
(* Rows *)

LEMMA Bounds == MaxCodes \in Nat /\ MaxAttempts \in Nat /\ ResendTicks \in Nat /\ TtlTicks \in Nat
  BY CodesAssumption

LEMMA RowNumbers ==
  ASSUME Typed
  PROVE  /\ DOMAIN otps = 1 .. Len(otps) /\ Len(otps) \in 0 .. MaxCodes
         /\ DOMAIN otps \subseteq 1 .. MaxCodes
         /\ \A r \in DOMAIN otps : otps[r] \in Rows
<1>1. /\ Len(otps) \in Nat /\ DOMAIN otps = 1 .. Len(otps) /\ otps \in [1 .. Len(otps) -> Rows]
  BY LenProperties DEF Typed
<1> QED  BY <1>1, CodesAssumption DEF Typed

LEMMA RowNumbersNext == ASSUME Typed' PROVE \A r \in DOMAIN otps' : otps'[r] \in Rows
<1>1. otps' \in Seq(Rows)  BY DEF Typed
<1> QED  BY <1>1, LenProperties

LEMMA FullCountdown == ResendTicks \in 0 .. ResendTicks
  BY Bounds

LEMMA RoomLeft ==
  ASSUME Typed, Len(otps) # MaxCodes
  PROVE  Len(otps) \in Nat /\ Len(otps) + 1 <= MaxCodes /\ Len(otps) + 1 \in 1 .. MaxCodes
         /\ Len(otps) + 1 \in 0 .. MaxCodes
<1>1. PICK n : n = Len(otps)  OBVIOUS
<1>2. n \in Nat /\ n <= MaxCodes /\ n # MaxCodes
  BY <1>1, RowNumbers, Bounds
<1>3. n + 1 <= MaxCodes /\ n + 1 \in 1 .. MaxCodes /\ n + 1 \in 0 .. MaxCodes
  BY <1>2, Bounds
<1> QED  BY <1>1, <1>2, <1>3

\* Rows rewritten in place are rows.
LEMMA Rewritten ==
  ASSUME Typed, DOMAIN otps' = DOMAIN otps, otps' = [r \in DOMAIN otps' |-> otps'[r]],
         \A r \in DOMAIN otps : otps'[r] \in Rows
  PROVE  otps' \in Seq(Rows) /\ Len(otps') = Len(otps)
<1>1. DOMAIN otps = 1 .. Len(otps) /\ Len(otps) \in Nat  BY RowNumbers
<1>2. otps' \in [1 .. Len(otps) -> Rows]  BY <1>1
<1>3. otps' \in Seq(Rows)  BY <1>1, <1>2, SeqDef
<1>4. Len(otps') \in Nat /\ 1 .. Len(otps') = 1 .. Len(otps)
  BY <1>1, <1>3, LenProperties
<1> QED  BY <1>1, <1>3, <1>4

LEMMA NewRowIsRow == ASSUME NEW p \in Purposes PROVE NewRow(p) \in Rows
  BY CodesAssumption DEF NewRow, Rows, OldAge

----------------------------------------------------------------------------
(* The beginning *)

LEMMA IdleIsRequest ==
    Idle \in Requests /\ ~Idle.live /\ Idle.op = None /\ Idle.at = "idle"
  BY CodesAssumption DEF Idle, Requests

LEMMA IdleHolds ==
  ASSUME NEW rows, NEW u, NEW in  PROVE  HoldsOK(Idle, rows, u, in)
<1>1. None \notin Operations  BY CodesAssumption
<1> QED  BY <1>1, IdleIsRequest DEF HoldsOK, StepOK, LetIn, Operations

LEMMA AuthBegins == AuthInit => AuthInv
<1> SUFFICES ASSUME AuthInit PROVE AuthInv  OBVIOUS
<1>1. PICK start \in Starts, p \in Passwords :
          /\ user = Account(start, p)
          /\ otps = IF start = "unverified" THEN <<NewRow("SIGNUP")>> ELSE <<>>
  BY DEF AuthInit, CodesInit
<1>2. start \in {"none", "unverified", "old", "disabled"}  BY CodesAssumption
<1>3. user \in Users /\ user.old = (start \in {"old", "disabled"})
      /\ user.exists = (start # "none") /\ user.hashed = (start = "unverified")
      /\ user.isEmailVerified = (start \in {"old", "disabled"})
  BY <1>1, <1>2 DEF Account, Users
<1>4. UserOK(user) /\ (user.isEmailVerified => user.old)
  BY <1>2, <1>3 DEF UserOK
<1>5. otps \in Seq(Rows) /\ Len(otps) <= MaxCodes
  <2>1. NewRow("SIGNUP") \in Rows  BY NewRowIsRow DEF Purposes
  <2>2. CASE start = "unverified"
    <3>1. otps = <<NewRow("SIGNUP")>>  BY <1>1, <2>2
    <3>2. otps \in Seq(Rows) /\ Len(otps) = 1  BY <2>1, <3>1
    <3> QED  BY <3>2, CodesAssumption
  <2>3. CASE start # "unverified"
    <3>1. otps = <<>>  BY <1>1, <2>3
    <3> QED  BY <3>1, CodesAssumption
  <2> QED  BY <2>2, <2>3
<1>6. /\ call = [c \in Calls |-> Idle] /\ guesses = [r \in 1 .. MaxCodes |-> 0]
      /\ accepted = {} /\ reused = {} /\ raced = {} /\ clobbered = {}
      /\ chosen = user.password /\ confirmed = FALSE
  BY DEF AuthInit, CodesInit
<1>7. Typed
  <2>1. chosen \in Passwords \cup {None}  BY <1>3, <1>6 DEF Users
  <2>2. guesses \in [1 .. MaxCodes -> 0 .. MaxAttempts + 1]
    <3>1. 0 \in 0 .. MaxAttempts + 1  BY CodesAssumption
    <3> QED  BY <1>6, <3>1
  <2> QED  BY <1>3, <1>5, <1>6, <2>1, <2>2 DEF Typed
<1>8. CallsOK  BY <1>6, IdleIsRequest, IdleHolds DEF CallsOK
<1>9. RowsOK  BY <1>6, <1>7, RowNumbers DEF RowsOK, Rows
<1>10. UserSound  BY <1>4, <1>6 DEF UserSound, ByCode, ResetSticks
<1>11. PagesTyped
  <2>1. /\ requests = 0 /\ isLoading = [t \in Tabs |-> FALSE] /\ countdown = [t \in Tabs |-> 0]
        /\ redirect = [t \in Tabs |-> FALSE]
        /\ page \in [Tabs -> IF user.exists THEN {"login", "password"} ELSE {"login"}]
    BY DEF AuthInit
  <2>2. page \in [Tabs -> Entries \cup ForgotPassword \cup {"dashboard"}]
    BY <2>1 DEF Entries, ForgotPassword
  <2> QED  BY <2>1, <2>2, CodesAssumption, PagesAssumption DEF PagesTyped
<1>12. InsideByCode  BY DEF AuthInit, InsideByCode
<1> QED  BY <1>7, <1>8, <1>9, <1>10, <1>11, <1>12 DEF AuthInv, CodesInv

----------------------------------------------------------------------------
(* What a step leaves as it was *)

\* Rows keep their purpose, an account stays, and nobody who is in is out.
Grows ==
    /\ DOMAIN otps \subseteq DOMAIN otps'
    /\ \A r \in DOMAIN otps : otps'[r].purpose = otps[r].purpose
    /\ user.exists => user'.exists /\ user'.old = user.old
    /\ ByCode => ByCode'

LEMMA HoldsKept ==
  ASSUME NEW h, NEW rows, NEW rows2, NEW u, NEW u2, NEW in, NEW in2,
         HoldsOK(h, rows, u, in),
         DOMAIN rows \subseteq DOMAIN rows2,
         \A r \in DOMAIN rows : rows2[r].purpose = rows[r].purpose,
         u.exists => u2.exists /\ u2.old = u.old, in => in2
  PROVE  HoldsOK(h, rows2, u2, in2)
  BY DEF HoldsOK, RowHeld, UserHeld

\* One call moves, to a step that it may be at.
LEMMA CallMoves ==
  ASSUME CallsOK, Grows, NEW c \in Calls,
         call' \in [Calls -> Requests],
         \A d \in Calls \ {c} : call'[d] = call[d],
         HoldsOK(call'[c], otps', user', ByCode')
  PROVE  CallsOK'
<1> DEFINE in2 == ByCode'
<1>1. ASSUME NEW d \in Calls PROVE HoldsOK(call'[d], otps', user', ByCode')
  <2>1. CASE d = c  BY <2>1
  <2>2. CASE d # c
    <3>1. call'[d] = call[d] /\ HoldsOK(call[d], otps, user, ByCode)  BY <2>2 DEF CallsOK
    <3> QED  BY <3>1, HoldsKept DEF Grows
  <2> QED  BY <2>1, <2>2
<1> QED  BY <1>1 DEF CallsOK

\* The rows and the account are left alone.
LEMMA Standstill ==
  ASSUME UNCHANGED <<user, otps, accepted>>  PROVE  Grows
  BY DEF Grows, ByCode

LEMMA Quiet ==
  ASSUME CodesInv,
         UNCHANGED <<user, otps, accepted, reused, guesses, raced, clobbered, chosen, confirmed>>
  PROVE  Grows /\ Typed' /\ RowsOK' /\ UserSound'
<1>1. Grows  BY Standstill
<1>2. Typed'  BY DEF CodesInv, Typed
<1>3. RowsOK'  BY DEF CodesInv, RowsOK
<1>4. UserSound'  BY DEF CodesInv, UserSound, ByCode, ResetSticks
<1> QED  BY <1>1, <1>2, <1>3, <1>4

----------------------------------------------------------------------------
(* The answer of a call *)

\* A request with other contents of its fields
LEMMA RequestFields ==
  ASSUME NEW h \in Requests, NEW result \in {None, "ok", "error", "requiresOtp"},
         NEW copy \in Users \cup Rows \cup {None}, NEW row \in 0 .. MaxCodes,
         NEW at \in {"idle", "create", "find", "throttle", "invalidate", "insert", "lookup",
                     "lock", "compare", "load", "save", "invalidateResets", "fresh", "answered"}
  PROVE  /\ [h EXCEPT !.at = at, !.result = result, !.copy = copy, !.row = row] \in Requests
         /\ [h EXCEPT !.at = at, !.result = result, !.row = row] \in Requests
         /\ [h EXCEPT !.at = at, !.copy = copy, !.row = row] \in Requests
         /\ [h EXCEPT !.at = at, !.copy = copy] \in Requests
<1>1. PICK A, B, C, D, E :
          /\ A = Operations \cup {None} /\ B = Tabs \cup {None}
          /\ C = (0 .. MaxCodes) \cup Passwords \cup {None} /\ D = Users \cup Rows \cup {None}
          /\ E = 0 .. MaxCodes
  OBVIOUS
<1>2. PICK F, G :
          /\ F = {"idle", "create", "find", "throttle", "invalidate", "insert", "lookup",
                   "lock", "compare", "load", "save", "invalidateResets", "fresh", "answered"}
          /\ G = {None, "ok", "error", "requiresOtp"}
  OBVIOUS
<1>3. Requests = [op : A, tab : B, live : BOOLEAN, at : F, arg : C, row : E, copy : D, result : G]
  BY <1>1, <1>2 DEF Requests
<1>4. at \in F /\ result \in G /\ copy \in D /\ row \in E  BY <1>1, <1>2
<1> QED  BY <1>3, <1>4

LEMMA LiveField == ASSUME NEW h \in Requests PROVE [h EXCEPT !.live = FALSE] \in Requests
<1>1. PICK A, B, C, D, E :
          /\ A = Operations \cup {None} /\ B = Tabs \cup {None}
          /\ C = (0 .. MaxCodes) \cup Passwords \cup {None} /\ D = Users \cup Rows \cup {None}
          /\ E = 0 .. MaxCodes
  OBVIOUS
<1>2. PICK F, G :
          /\ F = {"idle", "create", "find", "throttle", "invalidate", "insert", "lookup",
                   "lock", "compare", "load", "save", "invalidateResets", "fresh", "answered"}
          /\ G = {None, "ok", "error", "requiresOtp"}
  OBVIOUS
<1>3. Requests = [op : A, tab : B, live : BOOLEAN, at : F, arg : C, row : E, copy : D, result : G]
  BY <1>1, <1>2 DEF Requests
<1> QED  BY <1>3

LEMMA AnswerHolds ==
  ASSUME CallsOK, Grows, NEW c \in Calls, call[c].at # "idle",
         NEW result \in {"ok", "error", "requiresOtp"},
         Answer(c, result),
         result = "ok" /\ call[c].op \in {"login", "verifySignup"} => ByCode'
  PROVE  CallsOK'
<1>1. call[c] \in Requests /\ HoldsOK(call[c], otps, user, ByCode)  BY DEF CallsOK
<1>2. call[c].op \in Operations  BY <1>1 DEF HoldsOK, StepOK, Operations
<1>3. /\ call'[c].op = call[c].op /\ call'[c].at = "answered" /\ call'[c].arg = call[c].arg
      /\ call'[c].result = result
  BY <1>1 DEF Answer, CallsOK, Requests
<1>4. call' \in [Calls -> Requests] /\ \A d \in Calls \ {c} : call'[d] = call[d]
  <2>1. PICK h : h = [call[c] EXCEPT !.at = "answered", !.result = result, !.copy = None, !.row = 0]
    OBVIOUS
  <2>2. h \in Requests
    <3>1. 0 \in 0 .. MaxCodes  BY CodesAssumption
    <3> QED  BY <1>1, <2>1, <3>1, RequestFields
  <2>3. call' = [call EXCEPT ![c] = h]  BY <1>1, <2>1 DEF Answer, CallsOK, Requests
  <2> QED  BY <2>2, <2>3 DEF CallsOK
<1>5. HoldsOK(call'[c], otps', user', ByCode')
  BY <1>1, <1>2, <1>3 DEF HoldsOK, StepOK, LetIn
<1> QED  BY <1>4, <1>5, CallMoves

LEMMA GotoHolds ==
  ASSUME CallsOK, Grows, NEW c \in Calls,
         NEW step \in {"throttle", "invalidate", "insert", "fresh"},
         Goto(c, step), StepOK(call[c].op, step)
  PROVE  CallsOK'
<1>1. call[c] \in Requests /\ HoldsOK(call[c], otps, user, ByCode)  BY DEF CallsOK
<1>2. /\ call'[c].op = call[c].op /\ call'[c].at = step /\ call'[c].arg = call[c].arg
  BY <1>1 DEF Goto, CallsOK, Requests
<1>3. call' \in [Calls -> Requests] /\ \A d \in Calls \ {c} : call'[d] = call[d]
  BY <1>1 DEF Goto, CallsOK, Requests
<1>4. HoldsOK(call'[c], otps', user', ByCode')
  BY <1>1, <1>2 DEF HoldsOK, LetIn
<1> QED  BY <1>3, <1>4, CallMoves

----------------------------------------------------------------------------
(* Steps that only move a call *)

LEMMA QuietAnswer ==
  ASSUME CodesInv, NEW c \in Calls, call[c].at # "idle",
         NEW result \in {"ok", "error", "requiresOtp"}, Answer(c, result),
         result = "ok" /\ call[c].op \in {"login", "verifySignup"} => ByCode,
         UNCHANGED <<user, otps, accepted, reused, guesses, raced, clobbered, chosen, confirmed>>
  PROVE  CodesInv' /\ Grows
<1>1. Grows /\ Typed' /\ RowsOK' /\ UserSound'  BY Quiet
<1>2. CallsOK'  BY <1>1, AnswerHolds DEF CodesInv, Grows
<1> QED  BY <1>1, <1>2 DEF CodesInv

LEMMA QuietGoto ==
  ASSUME CodesInv, NEW c \in Calls, NEW step \in {"throttle", "invalidate", "insert", "fresh"},
         Goto(c, step), StepOK(call[c].op, step),
         UNCHANGED <<user, otps, accepted, reused, guesses, raced, clobbered, chosen, confirmed>>
  PROVE  CodesInv' /\ Grows
<1>1. Grows /\ Typed' /\ RowsOK' /\ UserSound'  BY Quiet
<1>2. CallsOK'  BY <1>1, GotoHolds DEF CodesInv
<1> QED  BY <1>1, <1>2 DEF CodesInv

\* At a step, the call has an operation that comes by it.
LEMMA StepHeld ==
  ASSUME CallsOK, NEW c \in Calls
  PROVE  call[c] \in Requests /\ HoldsOK(call[c], otps, user, ByCode) /\ StepOK(call[c].op, call[c].at)
  BY DEF CallsOK, HoldsOK

LEMMA ThrottleKeeps == ASSUME CodesInv, NEW c \in Calls, Throttle(c) PROVE CodesInv' /\ Grows
<1>1. call[c].at = "throttle" /\ StepOK(call[c].op, "throttle")
  BY StepHeld DEF Throttle, At, CodesInv
<1>2. StepOK(call[c].op, "invalidate") /\ ~call[c].op \in {"login", "verifySignup"}
  BY <1>1 DEF StepOK
<1>3. \/ Answer(c, "error") \/ Goto(c, "invalidate")
  BY DEF Throttle
<1>4. UNCHANGED <<user, otps, accepted, reused, guesses, raced, clobbered, chosen, confirmed>>
  BY DEF Throttle
<1>5. CASE Answer(c, "error")  BY <1>1, <1>4, <1>5, QuietAnswer
<1>6. CASE Goto(c, "invalidate")  BY <1>2, <1>4, <1>6, QuietGoto
<1> QED  BY <1>3, <1>5, <1>6

LEMMA LookupFailsKeeps == ASSUME CodesInv, NEW c \in Calls, LookupFails(c) PROVE CodesInv' /\ Grows
<1>1. call[c].at = "lookup" /\ Answer(c, "error")
      /\ UNCHANGED <<user, otps, accepted, reused, guesses, raced, clobbered, chosen, confirmed>>
  BY DEF LookupFails, At
<1> QED  BY <1>1, QuietAnswer

LEMMA FindUserKeeps == ASSUME CodesInv, NEW c \in Calls, FindUser(c) PROVE CodesInv' /\ Grows
<1>1. call[c].at = "find" /\ StepOK(call[c].op, "find")
  BY StepHeld DEF FindUser, At, CodesInv
<1>2. StepOK(call[c].op, "throttle") /\ ~call[c].op \in {"login", "verifySignup"}
  BY <1>1 DEF StepOK
<1>3. \/ Answer(c, "ok") \/ Goto(c, "throttle")
  BY DEF FindUser
<1>4. UNCHANGED <<user, otps, accepted, reused, guesses, raced, clobbered, chosen, confirmed>>
  BY DEF FindUser
<1>5. CASE Answer(c, "ok")  BY <1>1, <1>2, <1>4, <1>5, QuietAnswer
<1>6. CASE Goto(c, "throttle")  BY <1>2, <1>4, <1>6, QuietGoto
<1> QED  BY <1>3, <1>5, <1>6

LEMMA TokenExpiresKeeps == ASSUME CodesInv, NEW c \in Calls, TokenExpires(c) PROVE CodesInv' /\ Grows
<1>1. call[c].at = "load" /\ Answer(c, "error")
      /\ UNCHANGED <<user, otps, accepted, reused, guesses, raced, clobbered, chosen, confirmed>>
  BY DEF TokenExpires, At
<1> QED  BY <1>1, QuietAnswer

\* The gate of login looks at the account as it is by now.
LEMMA FreshUserKeeps == ASSUME CodesInv, NEW c \in Calls, FreshUser(c) PROVE CodesInv' /\ Grows
<1>1. call[c].at = "fresh"
      /\ UNCHANGED <<user, otps, accepted, reused, guesses, raced, clobbered, chosen, confirmed>>
  BY DEF FreshUser, At
<1>2. CASE user.isEmailVerified
  <2>1. Answer(c, "ok")  BY <1>2 DEF FreshUser
  <2>2. ByCode  BY <1>2 DEF CodesInv, UserSound
  <2> QED  BY <1>1, <2>1, <2>2, QuietAnswer
<1>3. CASE ~user.isEmailVerified
  <2>1. Answer(c, "requiresOtp")  BY <1>3 DEF FreshUser
  <2> QED  BY <1>1, <2>1, QuietAnswer
<1> QED  BY <1>2, <1>3

\* A row that is looked up is not consumed, and has attempts left when it is compared.
LEMMA LookupKeeps == ASSUME CodesInv, NEW c \in Calls, Lookup(c) PROVE CodesInv' /\ Grows
<1>1. call[c].at = "lookup"
      /\ UNCHANGED <<user, otps, accepted, reused, guesses, raced, clobbered, chosen, confirmed>>
  BY DEF Lookup, At
<1>2. Grows /\ Typed' /\ RowsOK' /\ UserSound'  BY <1>1, Quiet
<1>3. call[c] \in Requests /\ HoldsOK(call[c], otps, user, ByCode) /\ StepOK(call[c].op, "lookup")
  BY <1>1, StepHeld DEF CodesInv
<1>4. PICK r \in DOMAIN otps :
          /\ Usable(c, r)
          /\ call' = [call EXCEPT ![c].row = r, ![c].copy = otps[r],
                 ![c].at = IF otps[r].attempts >= MaxAttempts THEN "lock" ELSE "compare"]
  BY DEF Lookup
<1>5. PICK at : at = IF otps[r].attempts >= MaxAttempts THEN "lock" ELSE "compare"  OBVIOUS
<1>6. PICK h : h = [call[c] EXCEPT !.at = at, !.copy = otps[r], !.row = r]  OBVIOUS
<1>7. otps[r] \in Rows /\ r \in 0 .. MaxCodes  BY RowNumbers DEF CodesInv
<1>8. h \in Requests  BY <1>3, <1>5, <1>6, <1>7, RequestFields
<1>9. call' = [call EXCEPT ![c] = h]
  BY <1>3, <1>4, <1>5, <1>6 DEF Requests, CodesInv, CallsOK
<1>10. h.op = call[c].op /\ h.arg = call[c].arg /\ h.at = at /\ h.row = r /\ h.copy = otps[r]
  BY <1>3, <1>6 DEF Requests
<1>11. otps[r].purpose = PurposeOf(h.op) /\ ~otps[r].consumed
  BY <1>4, <1>10 DEF Usable, Newest, Active
<1>12. at = "compare" => otps[r].attempts < MaxAttempts
  BY <1>5, <1>7, CodesAssumption DEF Rows
<1>13. at \in {"lock", "compare"}  BY <1>5
<1>14. RowHeld(h, otps)  BY <1>7, <1>10, <1>11, <1>12 DEF RowHeld
<1>15. StepOK(h.op, h.at)  BY <1>3, <1>10, <1>13 DEF StepOK
<1>16. HoldsOK(h, otps, user, ByCode)
  BY <1>3, <1>10, <1>13, <1>14, <1>15 DEF HoldsOK, LetIn
<1>17. HoldsOK(h, otps', user', ByCode')
  BY <1>2, <1>16, HoldsKept DEF Grows
<1>18. /\ call' \in [Calls -> Requests] /\ call'[c] = h
       /\ \A d \in Calls \ {c} : call'[d] = call[d]
  BY <1>8, <1>9 DEF CodesInv, CallsOK
<1>19. CallsOK'
  BY <1>2, <1>17, <1>18, CallMoves DEF CodesInv
<1> QED  BY <1>2, <1>19 DEF CodesInv

\* A login that needs no migration goes on; other handlers keep a copy of the account.
LEMMA LoadUserKeeps == ASSUME CodesInv, NEW c \in Calls, LoadUser(c) PROVE CodesInv' /\ Grows
<1>1. call[c].at = "load"
      /\ UNCHANGED <<user, otps, accepted, reused, guesses, raced, clobbered, chosen, confirmed>>
  BY DEF LoadUser, At
<1>2. Grows /\ Typed' /\ RowsOK' /\ UserSound'  BY <1>1, Quiet
<1>3. call[c] \in Requests /\ HoldsOK(call[c], otps, user, ByCode) /\ StepOK(call[c].op, "load")
  BY <1>1, StepHeld DEF CodesInv
<1>4. CASE Answer(c, "error")  BY <1>1, <1>4, QuietAnswer
<1>5. CASE call[c].op = "verifyReset" /\ Answer(c, "ok")  BY <1>1, <1>5, QuietAnswer
<1>6. CASE call[c].op = "login" /\ Goto(c, "fresh")
  BY <1>1, <1>6, QuietGoto DEF StepOK
<1>7. CASE /\ user.exists /\ call[c].op # "verifyReset" /\ ~(call[c].op = "login" /\ user.hashed)
           /\ call' = [call EXCEPT ![c].at = "save", ![c].copy = user]
  <2>1. PICK h : h = [call[c] EXCEPT !.at = "save", !.copy = user]  OBVIOUS
  <2>2. user \in Users  BY DEF CodesInv, Typed
  <2>3. h \in Requests
    <3>1. 0 \in 0 .. MaxCodes  BY CodesAssumption
    <3> QED  BY <1>3, <2>1, <2>2, <3>1, RequestFields
  <2>4. call' = [call EXCEPT ![c] = h]
    BY <1>3, <1>7, <2>1 DEF Requests, CodesInv, CallsOK
  <2>5. h.op = call[c].op /\ h.arg = call[c].arg /\ h.at = "save" /\ h.copy = user
    BY <1>3, <2>1 DEF Requests
  <2>6. UserHeld(h, user, ByCode)  BY <1>7, <2>2, <2>5 DEF CodesInv, UserSound, UserHeld
  <2>7. StepOK(h.op, h.at)  BY <1>3, <1>7, <2>5 DEF StepOK
  <2>8. HoldsOK(h, otps, user, ByCode)
    BY <1>1, <1>3, <2>5, <2>6, <2>7 DEF HoldsOK, LetIn
  <2>9. HoldsOK(h, otps', user', ByCode')  BY <1>2, <2>8, HoldsKept DEF Grows
  <2>10. /\ call' \in [Calls -> Requests] /\ call'[c] = h
         /\ \A d \in Calls \ {c} : call'[d] = call[d]
    BY <2>3, <2>4 DEF CodesInv, CallsOK
  <2>11. CallsOK'  BY <1>2, <2>9, <2>10, CallMoves DEF CodesInv
  <2> QED  BY <1>2, <2>11 DEF CodesInv
<1> QED  BY <1>4, <1>5, <1>6, <1>7 DEF LoadUser

----------------------------------------------------------------------------
(* Steps that rewrite rows *)

LEMMA InPlace ==
  ASSUME CodesInv, UNCHANGED <<user, accepted>>,
         DOMAIN otps' = DOMAIN otps, otps' = [r \in DOMAIN otps' |-> otps'[r]],
         \A r \in DOMAIN otps : otps'[r] \in Rows /\ otps'[r].purpose = otps[r].purpose
  PROVE  Grows /\ otps' \in Seq(Rows) /\ Len(otps') <= MaxCodes
<1>1. ByCode => ByCode'
  BY DEF ByCode, CodesInv, Typed
<1>2. Grows  BY <1>1 DEF Grows
<1>3. otps' \in Seq(Rows) /\ Len(otps') = Len(otps)  BY Rewritten DEF CodesInv
<1> QED  BY <1>2, <1>3 DEF CodesInv, Typed

LEMMA UserSoundKept ==
  ASSUME UserSound, Grows, UNCHANGED <<user, clobbered, chosen, confirmed>>
  PROVE  UserSound'
  BY DEF UserSound, Grows, ResetSticks

\* No row becomes usable again, and its attempts stay.
LEMMA RowsSpent ==
  ASSUME CodesInv, UNCHANGED <<user, accepted, reused, guesses, raced, clobbered, chosen, confirmed>>,
         DOMAIN otps' = DOMAIN otps, otps' = [r \in DOMAIN otps' |-> otps'[r]],
         \A r \in DOMAIN otps : /\ otps'[r] \in Rows /\ otps'[r].purpose = otps[r].purpose
                                /\ otps'[r].attempts = otps[r].attempts
                                /\ otps[r].consumed => otps'[r].consumed
  PROVE  Grows /\ Typed' /\ RowsOK' /\ UserSound'
<1>1. Grows /\ otps' \in Seq(Rows) /\ Len(otps') <= MaxCodes  BY InPlace
<1>2. Typed'  BY <1>1 DEF CodesInv, Typed
<1>3. RowsOK'
  <2>1. \A r \in 1 .. MaxCodes : r \notin DOMAIN otps' => guesses'[r] = 0  BY DEF CodesInv, RowsOK
  <2>2. ASSUME NEW r \in DOMAIN otps \ raced
        PROVE  /\ r \notin reused /\ guesses[r] <= otps'[r].attempts
               /\ r \in accepted => otps'[r].consumed
    BY <2>2 DEF CodesInv, RowsOK
  <2> QED  BY <2>1, <2>2 DEF RowsOK
<1>4. UserSound'  BY <1>1, UserSoundKept DEF CodesInv
<1> QED  BY <1>1, <1>2, <1>3, <1>4

LEMMA ConsumedIsRow ==
  ASSUME NEW x \in Rows
  PROVE  /\ [x EXCEPT !.consumed = TRUE] \in Rows
         /\ [x EXCEPT !.consumed = TRUE].purpose = x.purpose
         /\ [x EXCEPT !.consumed = TRUE].attempts = x.attempts
         /\ [x EXCEPT !.consumed = TRUE].consumed
  BY DEF Rows

LEMMA InvalidatedSpends ==
  ASSUME CodesInv, NEW p, otps' = Invalidated(p),
         UNCHANGED <<user, accepted, reused, guesses, raced, clobbered, chosen, confirmed>>
  PROVE  Grows /\ Typed' /\ RowsOK' /\ UserSound'
<1>1. otps' = [r \in DOMAIN otps |->
                  IF r \in Active(p) THEN [otps[r] EXCEPT !.consumed = TRUE] ELSE otps[r]]
  BY DEF Invalidated
<1>2. DOMAIN otps' = DOMAIN otps /\ otps' = [r \in DOMAIN otps' |-> otps'[r]]  BY <1>1
<1>3. ASSUME NEW r \in DOMAIN otps
      PROVE  /\ otps'[r] \in Rows /\ otps'[r].purpose = otps[r].purpose
             /\ otps'[r].attempts = otps[r].attempts
             /\ otps[r].consumed => otps'[r].consumed
  <2>1. otps[r] \in Rows  BY RowNumbers DEF CodesInv
  <2>2. CASE r \in Active(p)
    <3>1. otps'[r] = [otps[r] EXCEPT !.consumed = TRUE]  BY <1>1, <2>2
    <3> QED  BY <2>1, <3>1, ConsumedIsRow
  <2>3. CASE r \notin Active(p)
    <3>1. otps'[r] = otps[r]  BY <1>1, <2>3
    <3> QED  BY <2>1, <3>1
  <2> QED  BY <2>2, <2>3
<1> QED  BY <1>2, <1>3, RowsSpent

LEMMA InvalidateOtpsKeeps == ASSUME CodesInv, NEW c \in Calls, InvalidateOtps(c) PROVE CodesInv' /\ Grows
<1>1. Grows /\ Typed' /\ RowsOK' /\ UserSound'
  BY InvalidatedSpends DEF InvalidateOtps
<1>2. StepOK(call[c].op, "invalidate")
  BY StepHeld DEF InvalidateOtps, At, CodesInv
<1>3. StepOK(call[c].op, "insert")  BY <1>2 DEF StepOK
<1>4. CallsOK'  BY <1>1, <1>3, GotoHolds DEF CodesInv, InvalidateOtps
<1> QED  BY <1>1, <1>4 DEF CodesInv

LEMMA InvalidateResetsKeeps == ASSUME CodesInv, NEW c \in Calls, InvalidateResets(c) PROVE CodesInv' /\ Grows
<1>1. Grows /\ Typed' /\ RowsOK' /\ UserSound'
  BY InvalidatedSpends DEF InvalidateResets
<1>2. call[c].at = "invalidateResets" /\ StepOK(call[c].op, "invalidateResets") /\ Answer(c, "ok")
  BY StepHeld DEF InvalidateResets, At, CodesInv
<1>3. ~call[c].op \in {"login", "verifySignup"}  BY <1>2 DEF StepOK
<1>4. CallsOK'  BY <1>1, <1>2, <1>3, AnswerHolds DEF CodesInv
<1> QED  BY <1>1, <1>4 DEF CodesInv

LEMMA LockKeeps == ASSUME CodesInv, NEW c \in Calls, Lock(c) PROVE CodesInv' /\ Grows
<1>1. call[c].at = "lock" /\ Answer(c, "error")
      /\ UNCHANGED <<user, accepted, reused, guesses, raced, clobbered, chosen, confirmed>>
  BY DEF Lock, At
<1>2. PICK k : k = call[c].row  OBVIOUS
<1>3. k \in DOMAIN otps  BY <1>1, <1>2, StepHeld DEF CodesInv, HoldsOK, RowHeld
<1>4. otps[k] \in Rows /\ DOMAIN otps = 1 .. Len(otps)  BY <1>3, RowNumbers DEF CodesInv
<1>5. otps' = [otps EXCEPT ![k] = [otps[k] EXCEPT !.consumed = TRUE]]
  BY <1>2, <1>3 DEF Lock
<1>6. otps = [r \in DOMAIN otps |-> otps[r]]  BY DEF CodesInv, Typed
<1>7. DOMAIN otps' = DOMAIN otps /\ otps' = [r \in DOMAIN otps' |-> otps'[r]]  BY <1>5, <1>6
<1>8. ASSUME NEW r \in DOMAIN otps
      PROVE  /\ otps'[r] \in Rows /\ otps'[r].purpose = otps[r].purpose
             /\ otps'[r].attempts = otps[r].attempts
             /\ otps[r].consumed => otps'[r].consumed
  <2>1. otps[r] \in Rows  BY RowNumbers DEF CodesInv
  <2>2. CASE r = k
    <3>1. otps'[r] = [otps[r] EXCEPT !.consumed = TRUE]  BY <1>3, <1>5, <2>2
    <3> QED  BY <2>1, <3>1, ConsumedIsRow
  <2>3. CASE r # k
    <3>1. otps'[r] = otps[r]  BY <1>5, <2>3
    <3> QED  BY <2>1, <3>1
  <2> QED  BY <2>2, <2>3
<1>9. Grows /\ Typed' /\ RowsOK' /\ UserSound'  BY <1>1, <1>7, <1>8, RowsSpent
<1>10. CallsOK'  BY <1>1, <1>9, AnswerHolds DEF CodesInv
<1> QED  BY <1>9, <1>10 DEF CodesInv

\* A new row gets the next number; nobody has guessed at it.
LEMMA Appended ==
  ASSUME CodesInv, NEW p \in Purposes, Len(otps) # MaxCodes, otps' = Append(otps, NewRow(p)),
         UNCHANGED <<user, accepted, reused, guesses, raced, clobbered, chosen, confirmed>>
  PROVE  Grows /\ Typed' /\ RowsOK' /\ UserSound'
<1>1. DOMAIN otps = 1 .. Len(otps) /\ Len(otps) + 1 <= MaxCodes /\ Len(otps) + 1 \in 1 .. MaxCodes
      /\ Len(otps) \in Nat
  BY RowNumbers, RoomLeft DEF CodesInv
<1>2. otps \in Seq(Rows) /\ NewRow(p) \in Rows  BY NewRowIsRow DEF CodesInv, Typed
<1>3. /\ otps' \in Seq(Rows) /\ Len(otps') = Len(otps) + 1
      /\ \A r \in 1 .. Len(otps) : otps'[r] = otps[r]
      /\ otps'[Len(otps) + 1] = NewRow(p)
  BY <1>2, AppendProperties
<1>4. Len(otps') <= MaxCodes  BY <1>1, <1>3
<1>5. DOMAIN otps' = 1 .. (Len(otps) + 1)
  BY <1>3, LenProperties
<1>6. DOMAIN otps \subseteq DOMAIN otps'  BY <1>1, <1>5
<1>7. Grows
  <2>1. \A r \in DOMAIN otps : otps'[r].purpose = otps[r].purpose  BY <1>1, <1>3
  <2>2. ByCode => ByCode'  BY <2>1 DEF ByCode, CodesInv, Typed
  <2> QED  BY <1>6, <2>1, <2>2 DEF Grows
<1>8. Typed'  BY <1>3, <1>4, <1>6 DEF CodesInv, Typed
<1>9. RowsOK'
  <2>1. \A r \in 1 .. MaxCodes : r \notin DOMAIN otps' => guesses'[r] = 0
    BY <1>6 DEF CodesInv, RowsOK
  <2>2. ASSUME NEW r \in DOMAIN otps' \ raced
        PROVE  /\ r \notin reused /\ guesses[r] <= otps'[r].attempts
               /\ r \in accepted => otps'[r].consumed
    <3>1. CASE r \in DOMAIN otps
      <4>1. otps'[r] = otps[r]  BY <1>1, <1>3, <3>1
      <4> QED  BY <2>2, <3>1, <4>1 DEF CodesInv, RowsOK
    <3>2. CASE r \notin DOMAIN otps
      <4>1. r = Len(otps) + 1  BY <1>1, <1>5, <2>2, <3>2
      <4>2. otps'[r].attempts = 0  BY <1>3, <4>1 DEF NewRow
      <4>3. r \in 1 .. MaxCodes  BY <1>1, <4>1
      <4>4. guesses[r] = 0  BY <3>2, <4>3 DEF CodesInv, RowsOK
      <4>5. r \notin accepted /\ r \notin reused  BY <3>2 DEF CodesInv, Typed
      <4> QED  BY <4>2, <4>4, <4>5
    <3> QED  BY <3>1, <3>2
  <2> QED  BY <2>1, <2>2 DEF RowsOK
<1>10. UserSound'  BY <1>7, UserSoundKept DEF CodesInv
<1> QED  BY <1>7, <1>8, <1>9, <1>10

LEMMA InsertOtpKeeps == ASSUME CodesInv, NEW c \in Calls, InsertOtp(c) PROVE CodesInv' /\ Grows
<1>1. call[c].at = "insert"
      /\ UNCHANGED <<user, accepted, reused, guesses, raced, clobbered, chosen, confirmed>>
  BY DEF InsertOtp, At
<1>2. call[c] \in Requests /\ HoldsOK(call[c], otps, user, ByCode) /\ StepOK(call[c].op, "insert")
  BY <1>1, StepHeld DEF CodesInv
<1>3. call[c].op \in Operations /\ ~call[c].op \in {"login", "verifySignup"}
  BY <1>2 DEF StepOK, Operations
<1>4. CASE Len(otps) = MaxCodes
  <2>1. Answer(c, "error") /\ UNCHANGED otps  BY <1>4 DEF InsertOtp
  <2> QED  BY <1>1, <2>1, QuietAnswer
<1>5. CASE Len(otps) # MaxCodes
  <2>1. otps' = Append(otps, NewRow(PurposeOf(call[c].op)))  BY <1>5 DEF InsertOtp
  <2>2. PurposeOf(call[c].op) \in Purposes  BY DEF PurposeOf, Purposes
  <2>3. Grows /\ Typed' /\ RowsOK' /\ UserSound'  BY <1>1, <1>5, <2>1, <2>2, Appended
  <2>4. CASE Answer(c, "error")
    <3>1. CallsOK'  BY <1>1, <2>3, <2>4, AnswerHolds DEF CodesInv
    <3> QED  BY <2>3, <3>1 DEF CodesInv
  <2>5. CASE call' = [call EXCEPT ![c].at = "answered", ![c].result = "ok",
                                  ![c].row = Len(otps) + 1]
    <3>1. PICK h : h = [call[c] EXCEPT !.at = "answered", !.result = "ok", !.row = Len(otps) + 1]
      OBVIOUS
    <3>2. Len(otps) + 1 \in 0 .. MaxCodes
      BY <1>5, RoomLeft DEF CodesInv
    <3>3. h \in Requests  BY <1>2, <3>1, <3>2, RequestFields
    <3>4. call' = [call EXCEPT ![c] = h]
      BY <1>2, <2>5, <3>1 DEF Requests, CodesInv, CallsOK
    <3>5. h.op = call[c].op /\ h.arg = call[c].arg /\ h.at = "answered"
      BY <1>2, <3>1 DEF Requests
    <3>6. HoldsOK(h, otps', user', ByCode')
      BY <1>2, <1>3, <3>5 DEF HoldsOK, StepOK, LetIn
    <3>7. /\ call' \in [Calls -> Requests] /\ call'[c] = h
          /\ \A d \in Calls \ {c} : call'[d] = call[d]
      BY <3>3, <3>4 DEF CodesInv, CallsOK
    <3>8. CallsOK'  BY <2>3, <3>6, <3>7, CallMoves DEF CodesInv
    <3> QED  BY <2>3, <3>8 DEF CodesInv
  <2> QED  BY <1>5, <2>4, <2>5 DEF InsertOtp
<1> QED  BY <1>4, <1>5

----------------------------------------------------------------------------
(* A code is compared *)

\* The save from a copy that is not out of date is the one save that keeps count.
LEMMA SavedRow ==
  ASSUME CodesInv, NEW c \in Calls, call[c].at = "compare"
  PROVE  /\ call[c].row \in DOMAIN otps /\ call[c].row \in 1 .. MaxCodes
         /\ otps[call[c].row] \in Rows
         /\ otps[call[c].row].purpose = PurposeOf(call[c].op)
         /\ \A consumed \in BOOLEAN, attempts \in 0 .. MaxAttempts :
               LET x == Saved(call[c].row, consumed, attempts) IN
               /\ x \in Rows /\ x.purpose = otps[call[c].row].purpose
               /\ x.consumed = consumed /\ x.attempts = attempts
         /\ call[c].copy.attempts \in 0 .. MaxAttempts
         /\ call[c].copy.attempts + 1 \in 0 .. MaxAttempts
         /\ ~OutOfDate(c) => /\ ~otps[call[c].row].consumed
                             /\ otps[call[c].row].attempts = call[c].copy.attempts
<1>1. RowHeld(call[c], otps)  BY StepHeld DEF CodesInv, HoldsOK
<1>2. PICK r : r = call[c].row  OBVIOUS
<1>3. PICK y : y = call[c].copy  OBVIOUS
<1>4. /\ r \in DOMAIN otps /\ y \in Rows /\ otps[r].purpose = PurposeOf(call[c].op)
      /\ ~y.consumed /\ y.attempts < MaxAttempts
  BY <1>1, <1>2, <1>3 DEF RowHeld
<1>5. otps[r] \in Rows /\ r \in 1 .. MaxCodes  BY <1>4, RowNumbers DEF CodesInv
<1>6. ASSUME NEW consumed \in BOOLEAN, NEW attempts \in 0 .. MaxAttempts
      PROVE  /\ Saved(r, consumed, attempts) \in Rows
             /\ Saved(r, consumed, attempts).purpose = otps[r].purpose
             /\ Saved(r, consumed, attempts).consumed = consumed
             /\ Saved(r, consumed, attempts).attempts = attempts
  BY <1>5 DEF Saved, Rows
<1>7. y.attempts \in 0 .. MaxAttempts /\ y.consumed \in BOOLEAN  BY <1>4 DEF Rows
<1>8. y.attempts + 1 \in 0 .. MaxAttempts  BY <1>4, <1>7, Bounds
<1>9. OutOfDate(c) <=> Saved(r, y.consumed, y.attempts) # otps[r]
  BY <1>2, <1>3 DEF OutOfDate
<1>10. ~OutOfDate(c) => ~otps[r].consumed /\ otps[r].attempts = y.attempts
  BY <1>4, <1>6, <1>7, <1>9
<1> QED  BY <1>2, <1>3, <1>4, <1>5, <1>6, <1>7, <1>8, <1>10

LEMMA WrongGuessKeeps == ASSUME CodesInv, NEW c \in Calls, WrongGuess(c) PROVE CodesInv' /\ Grows
<1>1. call[c].at = "compare" /\ Answer(c, "error")
      /\ UNCHANGED <<user, accepted, reused, clobbered, chosen, confirmed>>
  BY DEF WrongGuess, At
<1>2. PICK k : k = call[c].row  OBVIOUS
<1>3. PICK n : n = call[c].copy.attempts + 1  OBVIOUS
<1>4. /\ k \in DOMAIN otps /\ k \in 1 .. MaxCodes /\ n \in 0 .. MaxAttempts
      /\ Saved(k, FALSE, n) \in Rows /\ Saved(k, FALSE, n).purpose = otps[k].purpose
      /\ ~Saved(k, FALSE, n).consumed /\ Saved(k, FALSE, n).attempts = n
      /\ call[c].copy.attempts \in 0 .. MaxAttempts
      /\ ~OutOfDate(c) => ~otps[k].consumed /\ otps[k].attempts + 1 = n
  BY <1>1, <1>2, <1>3, SavedRow
<1>5. otps' = [otps EXCEPT ![k] = Saved(k, FALSE, n)]  BY <1>2, <1>3 DEF WrongGuess
<1>6. guesses' = [guesses EXCEPT ![k] = IF @ > MaxAttempts THEN @ ELSE @ + 1]
  BY <1>2 DEF WrongGuess
<1>7. raced' = IF OutOfDate(c) THEN raced \cup {k} ELSE raced  BY <1>2 DEF WrongGuess
<1>8. otps = [r \in DOMAIN otps |-> otps[r]]  BY DEF CodesInv, Typed
<1>9. DOMAIN otps' = DOMAIN otps /\ otps' = [r \in DOMAIN otps' |-> otps'[r]]  BY <1>5, <1>8
<1>10. ASSUME NEW r \in DOMAIN otps
       PROVE  otps'[r] \in Rows /\ otps'[r].purpose = otps[r].purpose
  <2>1. otps[r] \in Rows  BY RowNumbers DEF CodesInv
  <2> QED  BY <1>4, <1>5, <2>1
<1>11. Grows /\ otps' \in Seq(Rows) /\ Len(otps') <= MaxCodes  BY <1>1, <1>9, <1>10, InPlace
<1>12. Typed'
  <2>1. guesses' \in [1 .. MaxCodes -> 0 .. MaxAttempts + 1]
    <3>1. guesses \in [1 .. MaxCodes -> 0 .. MaxAttempts + 1]  BY DEF CodesInv, Typed
    <3>2. guesses[k] \in 0 .. MaxAttempts + 1  BY <1>4, <3>1
    <3>3. (IF guesses[k] > MaxAttempts THEN guesses[k] ELSE guesses[k] + 1) \in 0 .. MaxAttempts + 1
      BY <3>2, Bounds
    <3> QED  BY <1>6, <3>1, <3>3
  <2>2. raced' \subseteq DOMAIN otps'  BY <1>4, <1>7, <1>9 DEF CodesInv, Typed
  <2> QED  BY <1>1, <1>9, <1>11, <2>1, <2>2 DEF CodesInv, Typed
<1>13. RowsOK'
  <2>1. guesses \in [1 .. MaxCodes -> 0 .. MaxAttempts + 1]  BY DEF CodesInv, Typed
  <2>2. \A r \in 1 .. MaxCodes : r \notin DOMAIN otps' => guesses'[r] = 0
    BY <1>4, <1>6, <1>9, <2>1 DEF CodesInv, RowsOK
  <2>3. ASSUME NEW r \in DOMAIN otps' \ raced'
        PROVE  /\ r \notin reused' /\ guesses'[r] <= otps'[r].attempts
               /\ r \in accepted' => otps'[r].consumed
    <3>1. r \in DOMAIN otps \ raced  BY <1>7, <1>9, <2>3
    <3>2. /\ r \notin reused /\ guesses[r] <= otps[r].attempts
          /\ r \in accepted => otps[r].consumed
      BY <3>1 DEF CodesInv, RowsOK
    <3>3. CASE r # k
      <4>1. otps'[r] = otps[r]  BY <1>5, <3>3
      <4>2. guesses'[r] = guesses[r]  BY <1>6, <2>1, <3>3
      <4> QED  BY <1>1, <3>2, <4>1, <4>2
    <3>4. CASE r = k
      <4>1. ~OutOfDate(c)  BY <1>7, <2>3, <3>4
      <4>2. otps'[k] = Saved(k, FALSE, n)  BY <1>4, <1>5
      <4>3. otps'[k].attempts = otps[k].attempts + 1 /\ ~otps[k].consumed  BY <1>4, <4>1, <4>2
      <4>4. k \notin accepted  BY <3>2, <3>4, <4>3
      <4>5. guesses'[k] <= otps[k].attempts + 1
        <5>1. guesses[k] \in Nat /\ otps[k].attempts \in Nat
          <6>1. otps[k] \in Rows  BY <1>4, RowNumbers DEF CodesInv
          <6>2. guesses[k] \in 0 .. MaxAttempts + 1  BY <1>4, <2>1
          <6> QED  BY <6>1, <6>2, Bounds DEF Rows
        <5>2. guesses'[k] = IF guesses[k] > MaxAttempts THEN guesses[k] ELSE guesses[k] + 1
          BY <1>4, <1>6, <2>1
        <5>3. guesses[k] <= otps[k].attempts  BY <3>2, <3>4
        <5> QED  BY <5>1, <5>2, <5>3, Bounds
      <4> QED  BY <1>1, <3>2, <3>4, <4>3, <4>4, <4>5
    <3> QED  BY <3>3, <3>4
  <2> QED  BY <2>2, <2>3 DEF RowsOK
<1>14. UserSound'  BY <1>1, <1>11, UserSoundKept DEF CodesInv
<1>15. CallsOK'  BY <1>1, <1>11, AnswerHolds DEF CodesInv
<1> QED  BY <1>11, <1>12, <1>13, <1>14, <1>15 DEF CodesInv

\* An accepted code of SIGNUP lets its address in.
LEMMA RightCodeKeeps == ASSUME CodesInv, NEW c \in Calls, RightCode(c) PROVE CodesInv' /\ Grows
<1>1. call[c].at = "compare" /\ UNCHANGED <<user, guesses, clobbered, chosen, confirmed>>
  BY DEF RightCode, At
<1>2. PICK k : k = call[c].row  OBVIOUS
<1>3. PICK n : n = call[c].copy.attempts  OBVIOUS
<1>4. /\ k \in DOMAIN otps /\ k \in 1 .. MaxCodes /\ n \in 0 .. MaxAttempts
      /\ otps[k].purpose = PurposeOf(call[c].op)
      /\ Saved(k, TRUE, n) \in Rows /\ Saved(k, TRUE, n).purpose = otps[k].purpose
      /\ Saved(k, TRUE, n).consumed /\ Saved(k, TRUE, n).attempts = n
      /\ ~OutOfDate(c) => ~otps[k].consumed /\ otps[k].attempts = n
  BY <1>1, <1>2, <1>3, SavedRow
<1>5. otps' = [otps EXCEPT ![k] = Saved(k, TRUE, n)]  BY <1>2, <1>3 DEF RightCode
<1>6. accepted' = accepted \cup {k} /\ reused' = IF k \in accepted THEN reused \cup {k} ELSE reused
  BY <1>2 DEF RightCode
<1>7. raced' = IF OutOfDate(c) THEN raced \cup {k} ELSE raced  BY <1>2 DEF RightCode
<1>8. otps = [r \in DOMAIN otps |-> otps[r]]  BY DEF CodesInv, Typed
<1>9. DOMAIN otps' = DOMAIN otps /\ otps' = [r \in DOMAIN otps' |-> otps'[r]]  BY <1>5, <1>8
<1>10. ASSUME NEW r \in DOMAIN otps
       PROVE  otps'[r] \in Rows /\ otps'[r].purpose = otps[r].purpose
  <2>1. otps[r] \in Rows  BY RowNumbers DEF CodesInv
  <2> QED  BY <1>4, <1>5, <2>1
<1>11. otps' \in Seq(Rows) /\ Len(otps') = Len(otps)  BY <1>9, <1>10, Rewritten DEF CodesInv
<1>12. Grows
  <2>1. ByCode => ByCode'  BY <1>1, <1>6, <1>10 DEF ByCode, CodesInv, Typed
  <2> QED  BY <1>1, <1>9, <1>10, <2>1 DEF Grows
<1>13. Typed'
  BY <1>1, <1>4, <1>6, <1>7, <1>9, <1>11 DEF CodesInv, Typed
<1>14. RowsOK'
  <2>1. \A r \in 1 .. MaxCodes : r \notin DOMAIN otps' => guesses'[r] = 0
    BY <1>1, <1>9 DEF CodesInv, RowsOK
  <2>2. ASSUME NEW r \in DOMAIN otps' \ raced'
        PROVE  /\ r \notin reused' /\ guesses'[r] <= otps'[r].attempts
               /\ r \in accepted' => otps'[r].consumed
    <3>1. r \in DOMAIN otps \ raced  BY <1>7, <1>9, <2>2
    <3>2. /\ r \notin reused /\ guesses[r] <= otps[r].attempts
          /\ r \in accepted => otps[r].consumed
      BY <3>1 DEF CodesInv, RowsOK
    <3>3. CASE r # k
      <4>1. otps'[r] = otps[r]  BY <1>5, <3>3
      <4>2. r \notin reused' /\ (r \in accepted' => r \in accepted)  BY <1>6, <3>2, <3>3
      <4> QED  BY <1>1, <3>2, <4>1, <4>2
    <3>4. CASE r = k
      <4>1. ~OutOfDate(c)  BY <1>7, <2>2, <3>4
      <4>2. otps'[k] = Saved(k, TRUE, n)  BY <1>4, <1>5
      <4>3. otps'[k].attempts = otps[k].attempts /\ otps'[k].consumed /\ ~otps[k].consumed
        BY <1>4, <4>1, <4>2
      <4>4. k \notin accepted  BY <3>2, <3>4, <4>3
      <4>5. k \notin reused'  BY <1>6, <3>2, <3>4, <4>4
      <4> QED  BY <1>1, <3>2, <3>4, <4>3, <4>5
    <3> QED  BY <3>3, <3>4
  <2> QED  BY <2>1, <2>2 DEF RowsOK
<1>15. UserSound'  BY <1>1, <1>12, UserSoundKept DEF CodesInv
<1>16. CallsOK'
  <2>1. call[c] \in Requests /\ HoldsOK(call[c], otps, user, ByCode) /\ StepOK(call[c].op, "compare")
    BY <1>1, StepHeld DEF CodesInv
  <2>2. PICK h : h = [call[c] EXCEPT !.at = "load", !.copy = None, !.row = 0]  OBVIOUS
  <2>3. h \in Requests
    <3>1. 0 \in 0 .. MaxCodes  BY Bounds
    <3> QED  BY <2>1, <2>2, <3>1, RequestFields
  <2>4. call' = [call EXCEPT ![c] = h]
    BY <2>1, <2>2 DEF RightCode, Requests, CodesInv, CallsOK
  <2>5. h.op = call[c].op /\ h.arg = call[c].arg /\ h.at = "load"
    BY <2>1, <2>2 DEF Requests
  <2>6. h.op = "verifySignup" => ByCode'
    BY <1>4, <1>6, <1>10, <2>5 DEF PurposeOf, ByCode
  <2>7. StepOK(h.op, h.at)  BY <2>1, <2>5 DEF StepOK
  <2>8. HoldsOK(h, otps', user', ByCode')
    BY <2>1, <2>5, <2>6, <2>7 DEF HoldsOK, LetIn
  <2>9. /\ call' \in [Calls -> Requests] /\ call'[c] = h
        /\ \A d \in Calls \ {c} : call'[d] = call[d]
    BY <2>3, <2>4 DEF CodesInv, CallsOK
  <2> QED  BY <1>12, <2>8, <2>9, CallMoves DEF CodesInv
<1> QED  BY <1>12, <1>13, <1>14, <1>15, <1>16 DEF CodesInv

----------------------------------------------------------------------------
(* The account is saved *)

LEMMA CreateUserKeeps == ASSUME CodesInv, NEW c \in Calls, CreateUser(c) PROVE CodesInv' /\ Grows
<1>1. call[c].at = "create"
      /\ UNCHANGED <<otps, accepted, reused, guesses, raced, clobbered, confirmed>>
  BY DEF CreateUser, At
<1>2. HoldsOK(call[c], otps, user, ByCode) /\ StepOK(call[c].op, "create")
  BY <1>1, StepHeld DEF CodesInv
<1>3. CASE user.exists
  <2>1. Answer(c, "error") /\ UNCHANGED <<user, chosen>>  BY <1>3 DEF CreateUser
  <2> QED  BY <1>1, <2>1, QuietAnswer
<1>4. CASE ~user.exists
  <2>1. /\ user' = [exists |-> TRUE, password |-> call[c].arg, hashed |-> TRUE,
                    isEmailVerified |-> FALSE, isActive |-> TRUE, old |-> FALSE]
        /\ chosen' = call[c].arg /\ Goto(c, "throttle")
    BY <1>4 DEF CreateUser
  <2>2. call[c].op = "register"  BY <1>2 DEF StepOK
  <2>3. call[c].arg \in Passwords  BY <1>2, <2>2 DEF HoldsOK
  <2>4. user' \in Users  BY <2>1, <2>3 DEF Users
  <2>5. ~user.old /\ ~confirmed  BY <1>4 DEF CodesInv, UserSound, UserOK
  <2>6. Grows
    <3>1. ByCode => ByCode'  BY <1>1, <2>5 DEF ByCode
    <3> QED  BY <1>1, <1>4, <3>1 DEF Grows
  <2>7. Typed'  BY <1>1, <2>1, <2>3, <2>4 DEF CodesInv, Typed
  <2>8. RowsOK'  BY <1>1 DEF CodesInv, RowsOK
  <2>9. UserSound'
    <3>1. ResetSticks'  BY <1>1, <2>1, <2>5 DEF ResetSticks
    <3>2. UserOK(user')  BY <2>1 DEF UserOK
    <3>3. ~user'.isEmailVerified /\ ~confirmed'  BY <1>1, <2>1, <2>5
    <3> QED  BY <3>1, <3>2, <3>3 DEF UserSound
  <2>10. StepOK(call[c].op, "throttle")  BY <2>2 DEF StepOK
  <2>11. CallsOK'  BY <2>1, <2>6, <2>10, GotoHolds DEF CodesInv
  <2> QED  BY <2>6, <2>7, <2>8, <2>9, <2>11 DEF CodesInv
<1> QED  BY <1>3, <1>4

\* What was loaded comes back, but for what the handler is there to change: what was chosen
\* or confirmed meanwhile is lost only when the copy is out of date, and a login that saves
\* is of a row that counts as verified.
LEMMA SaveUserSound ==
  ASSUME CodesInv, NEW c \in Calls, SaveUser(c)
  PROVE  /\ Grows /\ Typed' /\ UserSound'
         /\ call[c].op \in {"verifySignup", "confirmReset", "login"}
         /\ call[c].op = "verifySignup" => ByCode
<1>1. call[c].at = "save" /\ UNCHANGED <<otps, accepted, reused, guesses, raced>>
  BY DEF SaveUser, At
<1>2. HoldsOK(call[c], otps, user, ByCode) /\ StepOK(call[c].op, "save") /\ call[c] \in Requests
  BY <1>1, StepHeld DEF CodesInv
<1>3. call[c].op \in {"verifySignup", "confirmReset", "login"}  BY <1>2 DEF StepOK
<1>4. call[c].op = "verifySignup" => ByCode  BY <1>1, <1>2 DEF HoldsOK, LetIn
<1>5. UserHeld(call[c], user, ByCode)  BY <1>1, <1>2 DEF HoldsOK
<1>6. PICK u : u = call[c].copy  OBVIOUS
<1>7. /\ user.exists /\ u \in Users /\ u.exists /\ UserOK(u) /\ u.old = user.old
      /\ (u.isEmailVerified => ByCode)
      /\ (call[c].op = "login" => ~u.hashed)
  BY <1>5, <1>6 DEF UserHeld
<1>8. user' = Changed(c, u)  BY <1>6 DEF SaveUser
<1>9. clobbered' = IF u # user THEN clobbered \cup {call[c].op} ELSE clobbered
  BY <1>6 DEF SaveUser
<1>10. /\ chosen' = IF call[c].op = "confirmReset" THEN call[c].arg ELSE chosen
       /\ confirmed' = (confirmed \/ call[c].op = "verifySignup")
  BY DEF SaveUser
<1>11. Typed /\ UserSound  BY DEF CodesInv
<1>12. CASE call[c].op = "verifySignup"
  <2>1. user' = [u EXCEPT !.isEmailVerified = TRUE]  BY <1>8, <1>12 DEF Changed
  <2>2. /\ user' \in Users /\ user'.exists /\ user'.old = user.old /\ user'.isEmailVerified
        /\ user'.password = u.password /\ UserOK(user')
    BY <1>7, <2>1 DEF Users, UserOK
  <2>3. ByCode' <=> ByCode  BY <1>1, <2>2 DEF ByCode
  <2>4. Grows  BY <1>1, <2>2, <2>3 DEF Grows
  <2>5. Typed'
    <3>1. clobbered' \subseteq Operations  BY <1>9, <1>11, <1>12 DEF Typed, Operations
    <3> QED  BY <1>1, <1>10, <1>11, <1>12, <2>2, <3>1 DEF Typed
  <2>6. ResetSticks'
    <3>1. user'.password # chosen' => clobbered' \cap {"verifySignup", "login"} # {}
      BY <1>9, <1>10, <1>11, <1>12, <2>2 DEF UserSound, ResetSticks
    <3> QED  BY <2>2, <3>1 DEF ResetSticks
  <2>7. UserSound'  BY <1>4, <1>12, <2>2, <2>3, <2>6 DEF UserSound
  <2> QED  BY <1>3, <1>4, <2>4, <2>5, <2>7
<1>13. CASE call[c].op = "confirmReset"
  <2>1. user' = [u EXCEPT !.password = call[c].arg, !.hashed = TRUE]
    BY <1>8, <1>13 DEF Changed
  <2>2. call[c].arg \in Passwords  BY <1>2, <1>13 DEF HoldsOK
  <2>3. /\ user' \in Users /\ user'.exists /\ user'.old = user.old
        /\ user'.isEmailVerified = u.isEmailVerified
        /\ user'.password = call[c].arg /\ UserOK(user')
    BY <1>7, <2>1, <2>2 DEF Users, UserOK
  <2>4. ByCode' <=> ByCode  BY <1>1, <2>3 DEF ByCode
  <2>5. Grows  BY <1>1, <2>3, <2>4 DEF Grows
  <2>6. Typed'
    <3>1. clobbered' \subseteq Operations  BY <1>9, <1>11, <1>13 DEF Typed, Operations
    <3> QED  BY <1>1, <1>10, <1>11, <1>13, <2>2, <2>3, <3>1 DEF Typed
  <2>7. ResetSticks'
    <3>1. user'.password = chosen'  BY <1>10, <1>13, <2>3
    <3>2. confirmed' = confirmed  BY <1>10, <1>11, <1>13 DEF Typed
    <3>3. confirmed /\ ~user'.isEmailVerified => "confirmReset" \in clobbered'
      BY <1>9, <1>11, <1>13, <2>3 DEF UserSound, ResetSticks
    <3> QED  BY <3>1, <3>2, <3>3 DEF ResetSticks
  <2>8. UserSound'  BY <1>7, <2>3, <2>4, <2>7 DEF UserSound
  <2> QED  BY <1>3, <1>4, <2>5, <2>6, <2>8
<1>14. CASE call[c].op = "login"
  <2>1. user' = [u EXCEPT !.hashed = TRUE]  BY <1>8, <1>14 DEF Changed
  <2>2. /\ user' \in Users /\ user'.exists /\ user'.old = user.old
        /\ user'.isEmailVerified = u.isEmailVerified
        /\ user'.password = u.password /\ UserOK(user')
    BY <1>7, <2>1 DEF Users, UserOK
  <2>3. u.isEmailVerified  BY <1>7, <1>14 DEF UserOK
  <2>4. ByCode' <=> ByCode  BY <1>1, <2>2 DEF ByCode
  <2>5. Grows  BY <1>1, <2>2, <2>4 DEF Grows
  <2>6. Typed'
    <3>1. clobbered' \subseteq Operations  BY <1>9, <1>11, <1>14 DEF Typed, Operations
    <3> QED  BY <1>1, <1>10, <1>11, <1>14, <2>2, <3>1 DEF Typed
  <2>7. ResetSticks'
    <3>1. user'.password # chosen' => clobbered' \cap {"verifySignup", "login"} # {}
      BY <1>9, <1>10, <1>11, <1>14, <2>2 DEF UserSound, ResetSticks
    <3> QED  BY <2>2, <2>3, <3>1 DEF ResetSticks
  <2>8. UserSound'  BY <1>7, <2>2, <2>4, <2>7 DEF UserSound
  <2> QED  BY <1>3, <1>4, <2>5, <2>6, <2>8
<1> QED  BY <1>3, <1>12, <1>13, <1>14

LEMMA SaveUserKeeps == ASSUME CodesInv, NEW c \in Calls, SaveUser(c) PROVE CodesInv' /\ Grows
<1>1. call[c].at = "save" /\ UNCHANGED <<otps, accepted, reused, guesses, raced>>
  BY DEF SaveUser, At
<1>2. /\ Grows /\ Typed' /\ UserSound'
      /\ call[c].op \in {"verifySignup", "confirmReset", "login"}
      /\ call[c].op = "verifySignup" => ByCode
  BY SaveUserSound
<1>3. RowsOK'  BY <1>1 DEF CodesInv, RowsOK
<1>4. CASE call[c].op = "verifySignup"
  <2>1. Answer(c, "ok")  BY <1>4 DEF SaveUser
  <2>2. CallsOK'  BY <1>1, <1>2, <1>4, <2>1, AnswerHolds DEF CodesInv, Grows
  <2> QED  BY <1>2, <1>3, <2>2 DEF CodesInv
<1>5. ASSUME NEW next \in {"invalidateResets", "fresh"}, StepOK(call[c].op, next),
             call' = [call EXCEPT ![c].at = next, ![c].copy = None]
      PROVE  CodesInv' /\ Grows
  <2>1. call[c] \in Requests /\ HoldsOK(call[c], otps, user, ByCode)  BY StepHeld DEF CodesInv
  <2>2. PICK h : h = [call[c] EXCEPT !.at = next, !.copy = None]  OBVIOUS
  <2>3. h \in Requests
    <3>1. 0 \in 0 .. MaxCodes  BY Bounds
    <3> QED  BY <1>5, <2>1, <2>2, <3>1, RequestFields
  <2>4. call' = [call EXCEPT ![c] = h]
    BY <1>5, <2>1, <2>2 DEF Requests, CodesInv, CallsOK
  <2>5. h.op = call[c].op /\ h.arg = call[c].arg /\ h.at = next
    BY <2>1, <2>2 DEF Requests
  <2>6. HoldsOK(h, otps', user', ByCode')
    BY <1>5, <2>1, <2>5 DEF HoldsOK, LetIn
  <2>7. /\ call' \in [Calls -> Requests] /\ call'[c] = h
        /\ \A d \in Calls \ {c} : call'[d] = call[d]
    BY <2>3, <2>4 DEF CodesInv, CallsOK
  <2>8. CallsOK'  BY <1>2, <2>6, <2>7, CallMoves DEF CodesInv
  <2> QED  BY <1>2, <1>3, <2>8 DEF CodesInv
<1>6. CASE call[c].op = "confirmReset"
  <2>1. call' = [call EXCEPT ![c].at = "invalidateResets", ![c].copy = None]
    BY <1>6 DEF SaveUser
  <2>2. StepOK(call[c].op, "invalidateResets")  BY <1>6 DEF StepOK
  <2> QED  BY <1>5, <2>1, <2>2
<1>7. CASE call[c].op = "login"
  <2>1. call' = [call EXCEPT ![c].at = "fresh", ![c].copy = None]  BY <1>7 DEF SaveUser
  <2>2. StepOK(call[c].op, "fresh")  BY <1>7 DEF StepOK
  <2> QED  BY <1>5, <2>1, <2>2
<1> QED  BY <1>2, <1>4, <1>6, <1>7

LEMMA HandlerKeeps == ASSUME CodesInv, NEW c \in Calls, Handler(c) PROVE CodesInv' /\ Grows
  BY ThrottleKeeps, InvalidateOtpsKeeps, InsertOtpKeeps, LookupFailsKeeps, LookupKeeps, LockKeeps,
     WrongGuessKeeps, RightCodeKeeps, CreateUserKeeps, FindUserKeeps, LoadUserKeeps,
     TokenExpiresKeeps, SaveUserKeeps, InvalidateResetsKeeps, FreshUserKeeps
  DEF Handler

----------------------------------------------------------------------------
(* The pages *)

\* Calls are dropped, or lose the page that waits for them.
LEMMA CallsDropped ==
  ASSUME CallsOK, Grows, call' = [d \in Calls |-> call'[d]],
         \A d \in Calls : call'[d] \in {Idle, call[d], [call[d] EXCEPT !.live = FALSE]}
  PROVE  CallsOK'
<1>1. ASSUME NEW d \in Calls
      PROVE  call'[d] \in Requests /\ HoldsOK(call'[d], otps', user', ByCode')
  <2>1. call[d] \in Requests /\ HoldsOK(call[d], otps, user, ByCode)  BY DEF CallsOK
  <2>2. HoldsOK(call[d], otps', user', ByCode')  BY <2>1, HoldsKept DEF Grows
  <2>3. CASE call'[d] = Idle
    <3>1. HoldsOK(Idle, otps', user', ByCode')  BY IdleHolds
    <3> QED  BY <2>3, <3>1, IdleIsRequest
  <2>4. CASE call'[d] = call[d]  BY <2>1, <2>2, <2>4
  <2>5. CASE call'[d] = [call[d] EXCEPT !.live = FALSE]
    <3>1. PICK h : h = [call[d] EXCEPT !.live = FALSE]  OBVIOUS
    <3>2. /\ h.op = call[d].op /\ h.at = call[d].at /\ h.arg = call[d].arg
          /\ h.row = call[d].row /\ h.copy = call[d].copy /\ h.result = call[d].result
      BY <2>1, <3>1 DEF Requests
    <3>3. h \in Requests  BY <2>1, <3>1, LiveField
    <3>4. HoldsOK(h, otps', user', ByCode')
      BY <2>2, <3>2 DEF HoldsOK, RowHeld, UserHeld, LetIn
    <3> QED  BY <2>5, <3>1, <3>3, <3>4
  <2> QED  BY <1>1, <2>3, <2>4, <2>5
<1> QED  BY <1>1 DEF CallsOK

LEMMA ReleasedDrops ==
  ASSUME NEW c, call' = Released(c)
  PROVE  /\ call' = [d \in Calls |-> call'[d]]
         /\ \A d \in Calls : call'[d] \in {Idle, call[d], [call[d] EXCEPT !.live = FALSE]}
  BY DEF Released

LEMMA OrphanedDrops ==
  ASSUME NEW t, NEW c, call' = Orphaned(t, c)
  PROVE  /\ call' = [d \in Calls |-> call'[d]]
         /\ \A d \in Calls : call'[d] \in {Idle, call[d], [call[d] EXCEPT !.live = FALSE]}
  BY DEF Orphaned

LEMMA ToldSpends ==
  ASSUME CodesInv, NEW c \in Calls, otps' = Told(c),
         UNCHANGED <<user, accepted, reused, guesses, raced, clobbered, chosen, confirmed>>
  PROVE  Grows /\ Typed' /\ RowsOK' /\ UserSound'
<1>1. PICK k : k = call[c].row  OBVIOUS
<1>2. PICK t : t = call[c].tab  OBVIOUS
<1>3. t \in Tabs \cup {None}  BY <1>2, StepHeld DEF CodesInv, Requests
<1>4. otps = [r \in DOMAIN otps |-> otps[r]]  BY DEF CodesInv, Typed
<1>5. otps' = otps \/ otps' = [otps EXCEPT ![k].told = t]  BY <1>1, <1>2 DEF Told
<1>6. DOMAIN otps' = DOMAIN otps /\ otps' = [r \in DOMAIN otps' |-> otps'[r]]  BY <1>4, <1>5
<1>7. ASSUME NEW r \in DOMAIN otps
      PROVE  /\ otps'[r] \in Rows /\ otps'[r].purpose = otps[r].purpose
             /\ otps'[r].attempts = otps[r].attempts
             /\ otps[r].consumed => otps'[r].consumed
  <2>1. otps[r] \in Rows  BY RowNumbers DEF CodesInv
  <2>2. otps'[r] = otps[r] \/ otps'[r] = [otps[r] EXCEPT !.told = t]  BY <1>5
  <2> QED  BY <1>3, <2>1, <2>2 DEF Rows
<1> QED  BY <1>6, <1>7, RowsSpent

\* What every step of a page keeps of the pages
LEMMA PushKeeps ==
  ASSUME AuthInv, Grows, NEW t, NEW c, NEW p \in Entries \cup {"dashboard"}, Push(t, p, c),
         p = "dashboard" => ByCode
  PROVE  /\ CallsOK' /\ InsideByCode'
         /\ page' \in [Tabs -> Entries \cup ForgotPassword \cup {"dashboard"}]
         /\ isLoading' \in [Tabs -> BOOLEAN]
         /\ countdown' \in [Tabs -> 0 .. ResendTicks]
<1>1. CASE SameRoute(page[t], p)
  <2>1. call' = Released(c) /\ UNCHANGED <<page, isLoading, countdown>>  BY <1>1 DEF Push
  <2>2. CallsOK'  BY <2>1, ReleasedDrops, CallsDropped DEF AuthInv, CodesInv
  <2> QED  BY <2>1, <2>2 DEF AuthInv, PagesTyped, InsideByCode, Grows
<1>2. CASE ~SameRoute(page[t], p)
  <2>1. /\ page' = [page EXCEPT ![t] = p] /\ isLoading' = [isLoading EXCEPT ![t] = FALSE]
        /\ countdown' = [countdown EXCEPT ![t] = MountedCountdown(p)]
        /\ call' = Orphaned(t, c)
    BY <1>2 DEF Push
  <2>2. CallsOK'  BY <2>1, OrphanedDrops, CallsDropped DEF AuthInv, CodesInv
  <2>3. MountedCountdown(p) \in 0 .. ResendTicks  BY Bounds DEF MountedCountdown
  <2>4. InsideByCode'  BY <2>1 DEF AuthInv, PagesTyped, InsideByCode, Grows
  <2> QED  BY <2>1, <2>2, <2>3, <2>4 DEF AuthInv, PagesTyped
<1> QED  BY <1>1, <1>2

LEMMA HandlerStep ==
  ASSUME AuthInv, NEW c \in Calls, Handler(c), UNCHANGED pageVars
  PROVE  AuthInv'
<1>1. CodesInv'  BY HandlerKeeps DEF AuthInv
<1>2. ByCode => ByCode'  BY HandlerKeeps DEF AuthInv, Grows
<1>3. PagesTyped' /\ InsideByCode'
  BY <1>2 DEF AuthInv, PagesTyped, InsideByCode, pageVars
<1> QED  BY <1>1, <1>3 DEF AuthInv

----------------------------------------------------------------------------
(* Requests *)

LEMMA SendKeeps ==
  ASSUME AuthInv, NEW t \in Tabs, NEW op \in Operations, NEW x, Send(t, op, x),
         x \in (0 .. MaxCodes) \cup Passwords \cup {None},
         op \in {"register", "confirmReset"} => x \in Passwords,
         UNCHANGED <<user, otps, accepted, reused, guesses, raced, clobbered, chosen, confirmed>>
  PROVE  CodesInv' /\ Grows /\ requests' \in 0 .. MaxRequests
<1>1. PICK c \in Calls : call[c].op = None /\ call' = [call EXCEPT ![c] = Started(op, t, x)]
  BY DEF Send
<1>2. Grows /\ Typed' /\ RowsOK' /\ UserSound'  BY Quiet DEF AuthInv
<1>3. PICK h : h = Started(op, t, x)  OBVIOUS
<1>4. PICK at : at = FirstStep(op)  OBVIOUS
<1>5. StepOK(op, at) /\ at \in {"create", "lookup", "throttle", "find", "load"}
  BY <1>4 DEF FirstStep, StepOK, Operations
<1>6. h = [op |-> op, at |-> at, tab |-> t, live |-> TRUE, arg |-> x, row |-> 0, copy |-> None,
           result |-> None]
  BY <1>3, <1>4 DEF Started, Idle
<1>7. h \in Requests
  <2>1. 0 \in 0 .. MaxCodes  BY Bounds
  <2>2. at \in {"idle", "create", "find", "throttle", "invalidate", "insert", "lookup",
                "lock", "compare", "load", "save", "invalidateResets", "fresh", "answered"}
    BY <1>5
  <2> QED  BY <1>6, <2>1, <2>2 DEF Requests
<1>8. ~(op = "verifySignup" /\ at \in {"load", "save"})
  BY <1>4 DEF FirstStep
<1>9. HoldsOK(h, otps', user', ByCode')
  BY <1>5, <1>6, <1>8 DEF HoldsOK, LetIn
<1>10. /\ call' \in [Calls -> Requests] /\ call'[c] = h
       /\ \A d \in Calls \ {c} : call'[d] = call[d]
  BY <1>1, <1>3, <1>7 DEF AuthInv, CodesInv, CallsOK
<1>11. CallsOK'  BY <1>2, <1>9, <1>10, CallMoves DEF AuthInv, CodesInv
<1>12. requests' \in 0 .. MaxRequests
  <2>1. requests < MaxRequests /\ requests' = requests + 1 /\ requests \in 0 .. MaxRequests
    BY DEF Send, AuthInv, PagesTyped
  <2> QED  BY <2>1, PagesAssumption
<1> QED  BY <1>2, <1>11, <1>12 DEF CodesInv

LEMMA AskStep == ASSUME AuthInv, NEW t \in Tabs, Ask(t) PROVE AuthInv'
<1>1. UNCHANGED <<user, otps, accepted, reused, guesses, raced, clobbered, chosen, confirmed>>
  BY DEF Ask
<1>2. PICK op \in Operations, x \in (0 .. MaxCodes) \cup Passwords \cup {None} :
          /\ Send(t, op, x)
          /\ op \in {"register", "confirmReset"} => x \in Passwords
          /\ isLoading' = [isLoading EXCEPT ![t] = TRUE] \/ UNCHANGED isLoading
          /\ UNCHANGED <<page, countdown, redirect>>
  <2>1. DOMAIN otps \cup {WrongCode} \subseteq 0 .. MaxCodes
    BY RowNumbers, Bounds DEF AuthInv, CodesInv, WrongCode
  <2>2. CASE SubmitRegister(t)
    BY <2>2 DEF SubmitRegister, Submit, Operations
  <2>3. CASE SubmitLogin(t)
    BY <2>3 DEF SubmitLogin, Submit, Operations
  <2>4. CASE SubmitSignupCode(t)
    BY <2>1, <2>4 DEF SubmitSignupCode, Submit, Operations
  <2>5. CASE SubmitEmail(t)
    BY <2>5 DEF SubmitEmail, Submit, Operations
  <2>6. CASE SubmitCode(t)
    BY <2>1, <2>6 DEF SubmitCode, Submit, Operations
  <2>7. CASE SubmitPassword(t)
    BY <2>7 DEF SubmitPassword, Submit, Operations
  <2>8. CASE ResendSignup(t)
    BY <2>8 DEF ResendSignup, Operations
  <2>9. CASE ResendReset(t)
    BY <2>9 DEF ResendReset, Operations
  <2> QED  BY <2>2, <2>3, <2>4, <2>5, <2>6, <2>7, <2>8, <2>9 DEF Ask
<1>3. CodesInv' /\ Grows /\ requests' \in 0 .. MaxRequests  BY <1>1, <1>2, SendKeeps
<1>4. PagesTyped' /\ InsideByCode'
  BY <1>2, <1>3 DEF AuthInv, PagesTyped, InsideByCode, Grows
<1> QED  BY <1>3, <1>4 DEF AuthInv

----------------------------------------------------------------------------
(* Answers *)

\* A page that is not left moves on to a step of forgot-password at most.
LEMMA NextStepKeeps ==
  ASSUME AuthInv, Grows, NEW c \in Calls, NEW step \in ForgotPassword, NextStep(c, step)
  PROVE  /\ CallsOK' /\ InsideByCode'
         /\ page' \in [Tabs -> Entries \cup ForgotPassword \cup {"dashboard"}]
         /\ isLoading' \in [Tabs -> BOOLEAN]
<1>1. call' = Released(c) /\ isLoading' = Settled(c)
      /\ page' = IF call[c].live THEN [page EXCEPT ![call[c].tab] = step] ELSE page
  BY DEF NextStep
<1>2. CallsOK'  BY <1>1, ReleasedDrops, CallsDropped DEF AuthInv, CodesInv
<1>3. InsideByCode'
  BY <1>1 DEF AuthInv, PagesTyped, InsideByCode, Grows, ForgotPassword
<1> QED  BY <1>1, <1>2, <1>3 DEF AuthInv, PagesTyped, Settled

LEMMA HearStep == ASSUME AuthInv, NEW c \in Calls, Hear(c) PROVE AuthInv'
<1>1. UNCHANGED <<requests, user, accepted, reused, guesses, raced, clobbered, chosen, confirmed>>
  BY DEF Hear
<1>2. ASSUME UNCHANGED otps PROVE Grows /\ Typed' /\ RowsOK' /\ UserSound'
  BY <1>1, <1>2, Quiet DEF AuthInv
<1>3. ASSUME otps' = Told(c) PROVE Grows /\ Typed' /\ RowsOK' /\ UserSound'
  BY <1>1, <1>3, ToldSpends DEF AuthInv
<1>4. CASE FormFails(c) \/ ResendFails(c)
  <2>1. /\ call' = Released(c) /\ UNCHANGED <<otps, page, countdown, redirect>>
        /\ isLoading' = Settled(c) \/ UNCHANGED isLoading
    BY <1>4 DEF FormFails, ResendFails
  <2>2. CallsOK'  BY <1>2, <2>1, ReleasedDrops, CallsDropped DEF AuthInv, CodesInv
  <2>3. PagesTyped' /\ InsideByCode'
    BY <1>1, <1>2, <2>1 DEF AuthInv, PagesTyped, InsideByCode, Grows, Settled
  <2> QED  BY <1>2, <2>1, <2>2, <2>3 DEF AuthInv, CodesInv
<1>5. CASE RegisterDone(c) \/ LoginGateDone(c)
  <2>1. otps' = Told(c) /\ Push(call[c].tab, "verify-email", c) /\ UNCHANGED redirect
    BY <1>5 DEF RegisterDone, LoginGateDone
  <2>2. /\ CallsOK' /\ InsideByCode'
        /\ page' \in [Tabs -> Entries \cup ForgotPassword \cup {"dashboard"}]
        /\ isLoading' \in [Tabs -> BOOLEAN]
        /\ countdown' \in [Tabs -> 0 .. ResendTicks]
    BY <1>3, <2>1, PushKeeps DEF Entries
  <2>3. PagesTyped'  BY <1>1, <2>1, <2>2 DEF AuthInv, PagesTyped
  <2> QED  BY <1>3, <2>1, <2>2, <2>3 DEF AuthInv, CodesInv
<1>6. CASE SignedIn(c)
  <2>1. Push(call[c].tab, "dashboard", c) /\ UNCHANGED <<otps, redirect>>
    BY <1>6 DEF SignedIn
  <2>2. ByCode
    <3>1. call[c].at = "answered" /\ call[c].op \in {"login", "verifySignup"} /\ call[c].result = "ok"
      BY <1>6 DEF SignedIn, Answered, At
    <3> QED  BY <3>1, StepHeld DEF AuthInv, CodesInv, HoldsOK, LetIn
  <2>3. /\ CallsOK' /\ InsideByCode'
        /\ page' \in [Tabs -> Entries \cup ForgotPassword \cup {"dashboard"}]
        /\ isLoading' \in [Tabs -> BOOLEAN]
        /\ countdown' \in [Tabs -> 0 .. ResendTicks]
    BY <1>2, <2>1, <2>2, PushKeeps
  <2>4. PagesTyped'  BY <1>1, <2>1, <2>3 DEF AuthInv, PagesTyped
  <2> QED  BY <1>2, <2>1, <2>3, <2>4 DEF AuthInv, CodesInv
<1>7. CASE LoginGated(c)
  <2>1. /\ call[c].op = "login"
        /\ call' = [call EXCEPT ![c] =
               [Started("resendAtLogin", call[c].tab, None) EXCEPT !.live = call[c].live]]
        /\ UNCHANGED <<otps, page, isLoading, countdown, redirect>>
    BY <1>7 DEF LoginGated, Answered
  <2>2. call[c] \in Requests  BY StepHeld DEF AuthInv, CodesInv
  <2>3. PICK h : h = [Started("resendAtLogin", call[c].tab, None) EXCEPT !.live = call[c].live]
    OBVIOUS
  <2>4. h = [op |-> "resendAtLogin", at |-> "throttle", tab |-> call[c].tab, live |-> call[c].live,
             arg |-> None, row |-> 0, copy |-> None, result |-> None]
    BY <2>3 DEF Started, FirstStep, Idle
  <2>5. h \in Requests
    <3>1. 0 \in 0 .. MaxCodes /\ "resendAtLogin" \in Operations  BY Bounds DEF Operations
    <3>2. call[c].tab \in Tabs \cup {None} /\ call[c].live \in BOOLEAN  BY <2>2 DEF Requests
    <3> QED  BY <2>4, <3>1, <3>2 DEF Requests
  <2>6. HoldsOK(h, otps', user', ByCode')
    BY <2>4 DEF HoldsOK, StepOK, LetIn
  <2>7. /\ call' \in [Calls -> Requests] /\ call'[c] = h
        /\ \A d \in Calls \ {c} : call'[d] = call[d]
    BY <2>1, <2>3, <2>5 DEF AuthInv, CodesInv, CallsOK
  <2>8. CallsOK'  BY <1>2, <2>1, <2>6, <2>7, CallMoves DEF AuthInv, CodesInv
  <2>9. PagesTyped' /\ InsideByCode'
    BY <1>1, <1>2, <2>1 DEF AuthInv, PagesTyped, InsideByCode, Grows
  <2> QED  BY <1>2, <2>1, <2>8, <2>9 DEF AuthInv, CodesInv
<1>8. CASE ResendDone(c)
  <2>1. /\ otps' = Told(c) /\ call' = Released(c) /\ UNCHANGED <<page, isLoading, redirect>>
        /\ countdown' = IF call[c].live THEN [countdown EXCEPT ![call[c].tab] = ResendTicks]
                        ELSE countdown
    BY <1>8 DEF ResendDone
  <2>2. CallsOK'  BY <1>3, <2>1, ReleasedDrops, CallsDropped DEF AuthInv, CodesInv
  <2>3. countdown' \in [Tabs -> 0 .. ResendTicks]
    BY <2>1, FullCountdown DEF AuthInv, PagesTyped
  <2>4. PagesTyped' /\ InsideByCode'
    BY <1>1, <1>3, <2>1, <2>3 DEF AuthInv, PagesTyped, InsideByCode, Grows
  <2> QED  BY <1>3, <2>1, <2>2, <2>4 DEF AuthInv, CodesInv
<1>9. CASE EmailDone(c)
  <2>1. /\ otps' = Told(c) /\ NextStep(c, "code") /\ UNCHANGED redirect
        /\ countdown' = IF call[c].live THEN [countdown EXCEPT ![call[c].tab] = ResendTicks]
                        ELSE countdown
    BY <1>9 DEF EmailDone
  <2>2. /\ CallsOK' /\ InsideByCode'
        /\ page' \in [Tabs -> Entries \cup ForgotPassword \cup {"dashboard"}]
        /\ isLoading' \in [Tabs -> BOOLEAN]
    BY <1>3, <2>1, NextStepKeeps DEF ForgotPassword
  <2>3. countdown' \in [Tabs -> 0 .. ResendTicks]
    BY <2>1, FullCountdown DEF AuthInv, PagesTyped
  <2>4. PagesTyped'  BY <1>1, <2>1, <2>2, <2>3 DEF AuthInv, PagesTyped
  <2> QED  BY <1>3, <2>1, <2>2, <2>4 DEF AuthInv, CodesInv
<1>10. CASE CodeDone(c) \/ PasswordDone(c)
  <2>1. /\ NextStep(c, "password") \/ NextStep(c, "done")
        /\ UNCHANGED <<otps, countdown>>
        /\ redirect' = [redirect EXCEPT ![call[c].tab] = TRUE] \/ UNCHANGED redirect
    BY <1>10 DEF CodeDone, PasswordDone
  <2>2. /\ CallsOK' /\ InsideByCode'
        /\ page' \in [Tabs -> Entries \cup ForgotPassword \cup {"dashboard"}]
        /\ isLoading' \in [Tabs -> BOOLEAN]
    BY <1>2, <2>1, NextStepKeeps DEF ForgotPassword
  <2>3. PagesTyped'  BY <1>1, <2>1, <2>2 DEF AuthInv, PagesTyped
  <2> QED  BY <1>2, <2>1, <2>2, <2>3 DEF AuthInv, CodesInv
<1> QED  BY <1>4, <1>5, <1>6, <1>7, <1>8, <1>9, <1>10 DEF Hear

----------------------------------------------------------------------------
(* Time and navigation *)

LEMMA PushStep ==
  ASSUME AuthInv, NEW t \in Tabs, NEW p \in Entries, Push(t, p, None),
         redirect' \in [Tabs -> BOOLEAN],
         UNCHANGED <<requests, user, otps, accepted, reused, guesses, raced, clobbered, chosen, confirmed>>
  PROVE  AuthInv'
<1>1. Grows /\ Typed' /\ RowsOK' /\ UserSound'  BY Quiet DEF AuthInv
<1>2. p # "dashboard"  BY DEF Entries
<1>3. /\ CallsOK' /\ InsideByCode'
      /\ page' \in [Tabs -> Entries \cup ForgotPassword \cup {"dashboard"}]
      /\ isLoading' \in [Tabs -> BOOLEAN]
      /\ countdown' \in [Tabs -> 0 .. ResendTicks]
  BY <1>1, <1>2, PushKeeps
<1>4. PagesTyped'  BY <1>3 DEF AuthInv, PagesTyped
<1> QED  BY <1>1, <1>3, <1>4 DEF AuthInv, CodesInv

LEMMA RedirectStep == ASSUME AuthInv, NEW t \in Tabs, Redirect(t) PROVE AuthInv'
<1>1. redirect' \in [Tabs -> BOOLEAN]  BY DEF Redirect, AuthInv, PagesTyped
<1>2. "login" \in Entries  BY DEF Entries
<1> QED  BY <1>1, <1>2, PushStep DEF Redirect

LEMMA VisitStep == ASSUME AuthInv, NEW t \in Tabs, NEW p \in Entries, Visit(t, p) PROVE AuthInv'
<1>1. redirect' \in [Tabs -> BOOLEAN]  BY DEF Visit, AuthInv, PagesTyped
<1> QED  BY <1>1, PushStep DEF Visit

LEMMA TickStep == ASSUME AuthInv, Tick PROVE AuthInv'
<1>1. /\ UNCHANGED <<requests, page, isLoading, redirect, user, call, accepted, reused, guesses,
                     raced, clobbered, chosen, confirmed>>
      /\ otps' = [r \in DOMAIN otps |-> [otps[r] EXCEPT !.age = IF @ = OldAge THEN @ ELSE @ + 1]]
      /\ countdown' = [t \in Tabs |-> IF countdown[t] = 0 THEN 0 ELSE countdown[t] - 1]
  BY DEF Tick
<1>2. DOMAIN otps' = DOMAIN otps /\ otps' = [r \in DOMAIN otps' |-> otps'[r]]  BY <1>1
<1>3. ASSUME NEW r \in DOMAIN otps
      PROVE  /\ otps'[r] \in Rows /\ otps'[r].purpose = otps[r].purpose
             /\ otps'[r].attempts = otps[r].attempts
             /\ otps[r].consumed => otps'[r].consumed
  <2>1. otps[r] \in Rows  BY RowNumbers DEF AuthInv, CodesInv
  <2>2. PICK a : a = IF otps[r].age = OldAge THEN otps[r].age ELSE otps[r].age + 1  OBVIOUS
  <2>3. a \in 0 .. OldAge
    <3>1. OldAge \in Nat  BY Bounds DEF OldAge
    <3>2. otps[r].age \in 0 .. OldAge  BY <2>1 DEF Rows
    <3> QED  BY <2>2, <3>1, <3>2
  <2>4. otps'[r] = [otps[r] EXCEPT !.age = a]  BY <1>1, <2>2
  <2> QED  BY <2>1, <2>3, <2>4 DEF Rows
<1>4. Grows /\ Typed' /\ RowsOK' /\ UserSound'  BY <1>1, <1>2, <1>3, RowsSpent DEF AuthInv
<1>5. CallsOK'
  BY <1>1, <1>4, CallsDropped DEF AuthInv, CodesInv, CallsOK
<1>6. countdown' \in [Tabs -> 0 .. ResendTicks]
  <2>1. ASSUME NEW t \in Tabs
        PROVE  (IF countdown[t] = 0 THEN 0 ELSE countdown[t] - 1) \in 0 .. ResendTicks
    <3>1. countdown[t] \in 0 .. ResendTicks  BY DEF AuthInv, PagesTyped
    <3> QED  BY <3>1, Bounds
  <2> QED  BY <1>1, <2>1
<1>7. PagesTyped' /\ InsideByCode'
  BY <1>1, <1>4, <1>6 DEF AuthInv, PagesTyped, InsideByCode, Grows
<1> QED  BY <1>4, <1>5, <1>7 DEF AuthInv, CodesInv

LEMMA AuthStep == ASSUME AuthInv, [AuthNext]_authVars PROVE AuthInv'
<1>1. ASSUME UNCHANGED authVars PROVE AuthInv'
  <2>1. UNCHANGED <<user, otps, accepted, reused, guesses, raced, clobbered, chosen, confirmed>>
        /\ UNCHANGED <<call, requests, page, isLoading, countdown, redirect>>
    BY <1>1 DEF authVars, codeVars, pageVars
  <2>2. Grows /\ Typed' /\ RowsOK' /\ UserSound'  BY <2>1, Quiet DEF AuthInv
  <2>3. CallsOK'  BY <2>1, <2>2, CallsDropped DEF AuthInv, CodesInv, CallsOK
  <2>4. PagesTyped' /\ InsideByCode'
    BY <2>1, <2>2 DEF AuthInv, PagesTyped, InsideByCode, Grows
  <2> QED  BY <2>2, <2>3, <2>4 DEF AuthInv, CodesInv
<1>2. ASSUME NEW c \in Calls, Handler(c), UNCHANGED pageVars PROVE AuthInv'
  BY <1>2, HandlerStep
<1>3. ASSUME NEW c \in Calls, Hear(c) PROVE AuthInv'  BY <1>3, HearStep
<1>4. ASSUME NEW t \in Tabs, Ask(t) \/ Redirect(t) \/ \E p \in Entries : Visit(t, p)
      PROVE  AuthInv'
  BY <1>4, AskStep, RedirectStep, VisitStep
<1> QED  BY <1>1, <1>2, <1>3, <1>4, TickStep DEF AuthNext

THEOREM AuthInvariant == AuthSpec => []AuthInv
<1> QED  BY AuthBegins, AuthStep, PTL DEF AuthSpec

\* Every variable holds what it is declared for, and a call in the middle of a verification
\* or a save holds the copy that it is about.
THEOREM AuthTyped == AuthSpec => []AuthTypeOK
<1>1. AuthInv => AuthTypeOK
  <2> SUFFICES ASSUME AuthInv PROVE AuthTypeOK  OBVIOUS
  <2>1. DOMAIN otps \subseteq 1 .. MaxCodes  BY RowNumbers DEF AuthInv, CodesInv
  <2>2. accepted \subseteq 1 .. MaxCodes /\ raced \subseteq 1 .. MaxCodes
    BY <2>1 DEF AuthInv, CodesInv, Typed
  <2>3. ASSUME NEW c \in Calls
        PROVE  /\ call[c].at \in {"compare", "lock"} =>
                     call[c].row \in DOMAIN otps /\ call[c].copy \in Rows
               /\ call[c].at = "save" => call[c].copy \in Users
    BY StepHeld DEF AuthInv, CodesInv, HoldsOK, RowHeld, UserHeld
  <2>4. TypeOK  BY <2>2, <2>3 DEF AuthInv, CodesInv, Typed, CallsOK, TypeOK
  <2> QED  BY <2>4 DEF AuthInv, PagesTyped, AuthTypeOK
<1> QED  BY <1>1, AuthInvariant, PTL

\* A code is accepted once and gets no more wrong guesses than maxAttempts, unless a
\* verification saved its row from a copy that was out of date.
THEOREM CodesSpent == AuthSpec => []CodesAreSpent
<1>1. AuthInv => CodesAreSpent
  <2> SUFFICES ASSUME AuthInv, NEW r \in 1 .. MaxCodes, r \notin raced
               PROVE  r \notin reused /\ guesses[r] <= MaxAttempts
    BY DEF CodesAreSpent
  <2>1. CASE r \in DOMAIN otps
    <3>1. r \notin reused /\ guesses[r] <= otps[r].attempts
      BY <2>1 DEF AuthInv, CodesInv, RowsOK
    <3>2. otps[r].attempts \in 0 .. MaxAttempts
      BY <2>1, RowNumbers DEF AuthInv, CodesInv, Rows
    <3>3. guesses[r] \in 0 .. MaxAttempts + 1  BY DEF AuthInv, CodesInv, Typed
    <3> QED  BY <3>1, <3>2, <3>3, Bounds
  <2>2. CASE r \notin DOMAIN otps
    <3>1. guesses[r] = 0  BY <2>2 DEF AuthInv, CodesInv, RowsOK
    <3>2. r \notin reused  BY <2>2 DEF AuthInv, CodesInv, Typed
    <3> QED  BY <3>1, <3>2, Bounds
  <2> QED  BY <2>1, <2>2
<1> QED  BY <1>1, AuthInvariant, PTL

\* Nobody is on the dashboard, and no address counts as verified, before a SIGNUP code was
\* accepted, whatever handlers overlap and however the pages are left.
THEOREM CodesSignIn == AuthSpec => []SignedInVerified
<1>1. AuthInv => SignedInVerified
  BY DEF AuthInv, CodesInv, UserSound, InsideByCode, ByCode, SignedInVerified
<1> QED  BY <1>1, AuthInvariant, PTL

\* A chosen password and a verified address are lost only to a save of an out-of-date copy.
THEOREM CodesResetStick == AuthSpec => []ResetSticks
<1>1. AuthInv => ResetSticks  BY DEF AuthInv, CodesInv, UserSound
<1> QED  BY <1>1, AuthInvariant, PTL

----------------------------------------------------------------------------
(* The countdown of the pages *)

\* The page that waits for an operation, as long as it is there
PagesOf(op) ==
    CASE op = "register" -> {"register"}
      [] op \in {"login", "resendAtLogin"} -> {"login"}
      [] op \in {"verifySignup", "resendSignup"} -> {"verify-email"}
      [] OTHER -> ForgotPassword

WaitsOK(h, pages) ==
    /\ h.op # None => h.tab \in Tabs
    /\ h.live => h.op # None /\ pages[h.tab] \in PagesOf(h.op)

\* A row that a tab was told of is old enough once the countdown of its page is over.
FarEnough(x, t, p, n) ==
    x.told = t /\ x.purpose = (IF p = "code" THEN "PASSWORD_RESET" ELSE "SIGNUP") =>
        x.age + n >= ResendTicks

CountdownsOK ==
    \A t \in Tabs, r \in DOMAIN otps :
        page[t] \in {"verify-email", "code"} => FarEnough(otps[r], t, page[t], countdown[t])

LinkInv == AuthInv /\ (\A c \in Calls : WaitsOK(call[c], page)) /\ CountdownsOK

LEMMA LinkBegins == AuthInit => LinkInv
<1> SUFFICES ASSUME AuthInit PROVE LinkInv  OBVIOUS
<1>1. AuthInv  BY AuthBegins
<1>2. \A c \in Calls : WaitsOK(call[c], page)
  BY IdleIsRequest DEF AuthInit, CodesInit, WaitsOK
<1>3. \A t \in Tabs : page[t] \notin {"verify-email", "code"}
  BY DEF AuthInit
<1> QED  BY <1>1, <1>2, <1>3 DEF LinkInv, CountdownsOK

\* Handlers keep what a page is told of a row, its age, and who waits for whom.
RowsAge ==
    \A r \in DOMAIN otps' :
        \/ otps'[r].told = None
        \/ r \in DOMAIN otps /\ otps'[r].told = otps[r].told /\ otps'[r].age = otps[r].age
               /\ otps'[r].purpose = otps[r].purpose

SameCallers ==
    \A d \in Calls : /\ call'[d].op = call[d].op /\ call'[d].tab = call[d].tab
                     /\ call'[d].live = call[d].live

LEMMA HandlerCallers == ASSUME CallsOK, NEW c \in Calls, Handler(c) PROVE SameCallers
<1>1. call \in [Calls -> Requests]  BY DEF CallsOK
<1>2. ASSUME NEW result, Answer(c, result) PROVE SameCallers
  BY <1>1, <1>2 DEF Answer, SameCallers, Requests
<1>3. ASSUME NEW step, Goto(c, step) PROVE SameCallers
  BY <1>1, <1>3 DEF Goto, SameCallers, Requests
<1>4. CASE Throttle(c) \/ InvalidateOtps(c) \/ LookupFails(c) \/ Lock(c) \/ WrongGuess(c)
           \/ CreateUser(c) \/ FindUser(c) \/ TokenExpires(c) \/ InvalidateResets(c) \/ FreshUser(c)
  BY <1>2, <1>3, <1>4 DEF Throttle, InvalidateOtps, LookupFails, Lock, WrongGuess, CreateUser,
     FindUser, TokenExpires, InvalidateResets, FreshUser
<1>5. CASE InsertOtp(c)
  <2>1. CASE call' = [call EXCEPT ![c].at = "answered", ![c].result = "ok", ![c].row = Len(otps) + 1]
    BY <1>1, <2>1 DEF SameCallers, Requests
  <2> QED  BY <1>2, <1>5, <2>1 DEF InsertOtp
<1>6. CASE Lookup(c)
  <2>1. PICK r, at : call' = [call EXCEPT ![c].row = r, ![c].copy = otps[r], ![c].at = at]
    BY <1>6 DEF Lookup
  <2> QED  BY <1>1, <2>1 DEF SameCallers, Requests
<1>7. CASE RightCode(c)
  <2>1. call' = [call EXCEPT ![c].at = "load", ![c].copy = None, ![c].row = 0]
    BY <1>7 DEF RightCode
  <2> QED  BY <1>1, <2>1 DEF SameCallers, Requests
<1>8. CASE LoadUser(c)
  <2>1. CASE call' = [call EXCEPT ![c].at = "save", ![c].copy = user]
    BY <1>1, <2>1 DEF SameCallers, Requests
  <2> QED  BY <1>2, <1>3, <1>8, <2>1 DEF LoadUser
<1>9. CASE SaveUser(c)
  <2>1. ASSUME NEW at, call' = [call EXCEPT ![c].at = at, ![c].copy = None] PROVE SameCallers
    BY <1>1, <2>1 DEF SameCallers, Requests
  <2>2. call[c].op \in {"verifySignup", "confirmReset", "login"}
    BY <1>9, StepHeld DEF SaveUser, At, StepOK
  <2> QED  BY <1>2, <1>9, <2>1, <2>2 DEF SaveUser
<1> QED  BY <1>4, <1>5, <1>6, <1>7, <1>8, <1>9 DEF Handler

LEMMA RewrittenAges ==
  ASSUME NEW k \in DOMAIN otps, NEW x, otps = [r \in DOMAIN otps |-> otps[r]],
         otps' = [otps EXCEPT ![k] = x],
         x.told = otps[k].told, x.age = otps[k].age, x.purpose = otps[k].purpose
  PROVE  RowsAge
  BY DEF RowsAge

LEMMA HandlerAges == ASSUME CodesInv, NEW c \in Calls, Handler(c) PROVE RowsAge
<1>1. otps = [r \in DOMAIN otps |-> otps[r]]  BY DEF CodesInv, Typed
<1>2. \A r \in DOMAIN otps : otps[r] \in Rows  BY RowNumbers DEF CodesInv
<1>3. ASSUME UNCHANGED otps PROVE RowsAge  BY <1>3 DEF RowsAge
<1>4. ASSUME NEW p, otps' = Invalidated(p) PROVE RowsAge
  <2>1. otps' = [r \in DOMAIN otps |->
                    IF r \in Active(p) THEN [otps[r] EXCEPT !.consumed = TRUE] ELSE otps[r]]
    BY <1>4 DEF Invalidated
  <2>2. ASSUME NEW r \in DOMAIN otps
        PROVE  /\ [otps[r] EXCEPT !.consumed = TRUE].told = otps[r].told
               /\ [otps[r] EXCEPT !.consumed = TRUE].age = otps[r].age
               /\ [otps[r] EXCEPT !.consumed = TRUE].purpose = otps[r].purpose
    BY <1>2 DEF Rows
  <2>3. ASSUME NEW r \in DOMAIN otps
        PROVE  /\ otps'[r].told = otps[r].told /\ otps'[r].age = otps[r].age
               /\ otps'[r].purpose = otps[r].purpose
    BY <2>1, <2>2
  <2> QED  BY <2>1, <2>3 DEF RowsAge
<1>5. CASE InvalidateOtps(c) \/ InvalidateResets(c)
  BY <1>4, <1>5 DEF InvalidateOtps, InvalidateResets
<1>6. CASE Lock(c)
  <2>1. call[c].row \in DOMAIN otps
    BY <1>6, StepHeld DEF Lock, At, CodesInv, HoldsOK, RowHeld
  <2>2. otps' = [otps EXCEPT ![call[c].row] = [otps[call[c].row] EXCEPT !.consumed = TRUE]]
    BY <1>6, <2>1 DEF Lock
  <2>3. PICK k \in DOMAIN otps : k = call[c].row  BY <2>1
  <2>4. PICK x : x = [otps[k] EXCEPT !.consumed = TRUE]  OBVIOUS
  <2>5. x.told = otps[k].told /\ x.age = otps[k].age /\ x.purpose = otps[k].purpose
    BY <1>2, <2>4 DEF Rows
  <2> QED  BY <1>1, <2>2, <2>3, <2>4, <2>5, RewrittenAges
<1>7. ASSUME NEW consumed \in BOOLEAN, NEW n, call[c].at = "compare",
             otps' = [otps EXCEPT ![call[c].row] = Saved(call[c].row, consumed, n)]
      PROVE  RowsAge
  <2>1. call[c].row \in DOMAIN otps  BY <1>7, SavedRow
  <2>2. PICK k \in DOMAIN otps : k = call[c].row  BY <2>1
  <2>3. PICK x : x = Saved(k, consumed, n)  OBVIOUS
  <2>4. x.told = otps[k].told /\ x.age = otps[k].age /\ x.purpose = otps[k].purpose
    BY <1>2, <2>3 DEF Rows, Saved
  <2> QED  BY <1>1, <1>7, <2>2, <2>3, <2>4, RewrittenAges
<1>8. CASE WrongGuess(c) \/ RightCode(c)
  BY <1>7, <1>8 DEF WrongGuess, RightCode, At
<1>9. CASE InsertOtp(c)
  <2>1. CASE otps' = Append(otps, NewRow(PurposeOf(call[c].op)))
    <3>1. PICK x : x = NewRow(PurposeOf(call[c].op))  OBVIOUS
    <3>2. x \in Rows /\ x.told = None
      BY <3>1, NewRowIsRow DEF PurposeOf, Purposes, NewRow
    <3>3. otps \in Seq(Rows)  BY DEF CodesInv, Typed
    <3>4. /\ otps' \in Seq(Rows) /\ Len(otps') = Len(otps) + 1
          /\ \A r \in 1 .. Len(otps) : otps'[r] = otps[r]
          /\ otps'[Len(otps) + 1] = x
      BY <2>1, <3>1, <3>2, <3>3, AppendProperties
    <3>5. DOMAIN otps = 1 .. Len(otps) /\ Len(otps) \in Nat /\ DOMAIN otps' = 1 .. Len(otps')
      BY <3>3, <3>4, LenProperties
    <3>6. ASSUME NEW r \in DOMAIN otps'
          PROVE  otps'[r].told = None \/ (r \in DOMAIN otps /\ otps'[r] = otps[r])
      <4>1. CASE r \in DOMAIN otps  BY <3>4, <3>5, <4>1
      <4>2. CASE r \notin DOMAIN otps
        <5>1. r = Len(otps) + 1  BY <3>4, <3>5, <4>2
        <5> QED  BY <3>2, <3>4, <5>1
      <4> QED  BY <4>1, <4>2
    <3> QED  BY <3>6 DEF RowsAge
  <2> QED  BY <1>3, <1>9, <2>1 DEF InsertOtp
<1>10. CASE Throttle(c) \/ LookupFails(c) \/ Lookup(c) \/ CreateUser(c) \/ FindUser(c)
            \/ LoadUser(c) \/ TokenExpires(c) \/ SaveUser(c) \/ FreshUser(c)
  BY <1>3, <1>10 DEF Throttle, LookupFails, Lookup, CreateUser, FindUser, LoadUser, TokenExpires,
     SaveUser, FreshUser
<1> QED  BY <1>5, <1>6, <1>8, <1>9, <1>10 DEF Handler

LEMMA HandlerLinks ==
  ASSUME LinkInv, NEW c \in Calls, Handler(c), UNCHANGED pageVars
  PROVE  LinkInv'
<1>1. AuthInv'  BY HandlerStep DEF LinkInv
<1>2. SameCallers  BY HandlerCallers DEF LinkInv, AuthInv, CodesInv
<1>3. RowsAge  BY HandlerAges DEF LinkInv, AuthInv
<1>4. UNCHANGED <<page, countdown>>  BY DEF pageVars
<1>5. \A d \in Calls : WaitsOK(call'[d], page')
  BY <1>2, <1>4 DEF LinkInv, WaitsOK, SameCallers
<1>6. ASSUME NEW t \in Tabs, NEW r \in DOMAIN otps', page[t] \in {"verify-email", "code"}
      PROVE  FarEnough(otps'[r], t, page[t], countdown[t])
  <2>1. CASE otps'[r].told = None
    <3>1. t # None  BY CodesAssumption
    <3> QED  BY <2>1, <3>1 DEF FarEnough
  <2>2. CASE r \in DOMAIN otps /\ otps'[r].told = otps[r].told /\ otps'[r].age = otps[r].age
             /\ otps'[r].purpose = otps[r].purpose
    <3>1. FarEnough(otps[r], t, page[t], countdown[t])
      BY <1>6, <2>2 DEF LinkInv, CountdownsOK
    <3> QED  BY <2>2, <3>1 DEF FarEnough
  <2> QED  BY <1>3, <2>1, <2>2 DEF RowsAge
<1>7. CountdownsOK'  BY <1>4, <1>6 DEF CountdownsOK
<1> QED  BY <1>1, <1>5, <1>7 DEF LinkInv

\* The calls after a page was left, or was not
LEMMA PushWaits ==
  ASSUME LinkInv, NEW t \in Tabs, NEW p \in Entries \cup {"dashboard"}, NEW c, Push(t, p, c)
  PROVE  \A d \in Calls : WaitsOK(call'[d], page')
<1> SUFFICES ASSUME NEW d \in Calls PROVE WaitsOK(call'[d], page')  OBVIOUS
<1>1. WaitsOK(call[d], page) /\ call[d] \in Requests  BY DEF LinkInv, AuthInv, CodesInv, CallsOK
<1>2. page \in [Tabs -> Entries \cup ForgotPassword \cup {"dashboard"}]
  BY DEF LinkInv, AuthInv, PagesTyped
<1>3. WaitsOK(Idle, page')  BY IdleIsRequest DEF WaitsOK
<1>4. CASE SameRoute(page[t], p)
  <2>1. call'[d] \in {Idle, call[d]} /\ page' = page  BY <1>4 DEF Push, Released
  <2> QED  BY <1>1, <1>3, <2>1
<1>5. CASE ~SameRoute(page[t], p)
  <2>1. call' = Orphaned(t, c) /\ page' = [page EXCEPT ![t] = p]  BY <1>5 DEF Push
  <2>2. CASE d = c  BY <1>3, <2>1, <2>2 DEF Orphaned
  <2>3. CASE d # c /\ call[d].tab = t
    <3>1. call'[d] = [call[d] EXCEPT !.live = FALSE]  BY <2>1, <2>3 DEF Orphaned
    <3>2. ~call'[d].live /\ call'[d].op = call[d].op /\ call'[d].tab = t
      BY <1>1, <2>3, <3>1 DEF Requests
    <3> QED  BY <3>2 DEF WaitsOK
  <2>4. CASE d # c /\ call[d].tab # t
    <3>1. call'[d] = call[d]  BY <2>1, <2>4 DEF Orphaned
    <3> QED  BY <1>1, <1>2, <2>1, <2>4, <3>1 DEF WaitsOK
  <2> QED  BY <2>2, <2>3, <2>4
<1> QED  BY <1>4, <1>5

LEMMA NextStepWaits ==
  ASSUME LinkInv, NEW c \in Calls, NEW step \in ForgotPassword, NextStep(c, step),
         PagesOf(call[c].op) = ForgotPassword
  PROVE  \A d \in Calls : WaitsOK(call'[d], page')
<1> SUFFICES ASSUME NEW d \in Calls PROVE WaitsOK(call'[d], page')  OBVIOUS
<1>1. WaitsOK(call[d], page) /\ WaitsOK(call[c], page)  BY DEF LinkInv
<1>2. page \in [Tabs -> Entries \cup ForgotPassword \cup {"dashboard"}]
  BY DEF LinkInv, AuthInv, PagesTyped
<1>3. page' = IF call[c].live THEN [page EXCEPT ![call[c].tab] = step] ELSE page
  BY DEF NextStep
<1>4. call'[d] \in {Idle, call[d]}  BY DEF NextStep, Released
<1>5. WaitsOK(Idle, page')  BY IdleIsRequest DEF WaitsOK
<1>6. WaitsOK(call[d], page')
  <2>1. CASE call[c].live /\ call[d].tab = call[c].tab /\ call[d].live
    <3>1. page[call[d].tab] \in PagesOf(call[d].op) /\ page[call[d].tab] \in ForgotPassword
      BY <1>1, <2>1 DEF WaitsOK
    <3>2. PagesOf(call[d].op) = ForgotPassword  BY <3>1 DEF PagesOf, ForgotPassword
    <3> QED  BY <1>1, <1>2, <1>3, <2>1, <3>2 DEF WaitsOK
  <2>2. CASE ~(call[c].live /\ call[d].tab = call[c].tab /\ call[d].live)
    BY <1>1, <1>2, <1>3, <2>2 DEF WaitsOK
  <2> QED  BY <2>1, <2>2
<1> QED  BY <1>4, <1>5, <1>6

LEMMA ReleasedWaits ==
  ASSUME LinkInv, NEW c, call' = Released(c), page' = page
  PROVE  \A d \in Calls : WaitsOK(call'[d], page')
<1> SUFFICES ASSUME NEW d \in Calls PROVE WaitsOK(call'[d], page')  OBVIOUS
<1>1. WaitsOK(call[d], page) /\ WaitsOK(Idle, page')  BY IdleIsRequest DEF LinkInv, WaitsOK
<1>2. call'[d] \in {Idle, call[d]}  BY DEF Released
<1> QED  BY <1>1, <1>2

LEMMA FarAtFull ==
  ASSUME NEW x \in Rows, NEW t, NEW p  PROVE  FarEnough(x, t, p, ResendTicks)
<1>1. x.age \in Nat
  <2>1. OldAge \in Nat  BY Bounds DEF OldAge
  <2> QED  BY <2>1 DEF Rows
<1> QED  BY <1>1, Bounds DEF FarEnough

\* What the other tabs were told of does not grow by an answer.
LEMMA TellsOne ==
  ASSUME LinkInv, NEW c \in Calls, otps' = Told(c) \/ UNCHANGED otps,
         NEW t \in Tabs, NEW r \in DOMAIN otps', page[t] \in {"verify-email", "code"},
         ~call[c].live \/ t # call[c].tab \/ UNCHANGED otps
  PROVE  FarEnough(otps'[r], t, page[t], countdown[t])
<1>1. otps = [s \in DOMAIN otps |-> otps[s]]  BY DEF LinkInv, AuthInv, CodesInv, Typed
<1>2. CASE UNCHANGED otps  BY <1>2 DEF LinkInv, CountdownsOK
<1>3. CASE otps' = [otps EXCEPT ![call[c].row].told = call[c].tab] /\ t # call[c].tab
  <2>1. r \in DOMAIN otps  BY <1>1, <1>3
  <2>2. otps[r] \in Rows  BY <2>1, RowNumbers DEF LinkInv, AuthInv, CodesInv
  <2>3. otps'[r] = otps[r] \/ otps'[r] = [otps[r] EXCEPT !.told = call[c].tab]  BY <1>3, <2>1
  <2>4. FarEnough(otps[r], t, page[t], countdown[t])  BY <2>1 DEF LinkInv, CountdownsOK
  <2>5. CASE otps'[r] = [otps[r] EXCEPT !.told = call[c].tab]
    <3>1. otps'[r].told = call[c].tab  BY <2>2, <2>5 DEF Rows
    <3> QED  BY <1>3, <3>1 DEF FarEnough
  <2> QED  BY <2>3, <2>4, <2>5
<1> QED  BY <1>2, <1>3 DEF Told

LEMMA PushLinks ==
  ASSUME LinkInv, AuthInv', NEW c \in Calls, NEW p \in Entries \cup {"dashboard"},
         Push(call[c].tab, p, c), call[c].op # None,
         \/ otps' = Told(c) /\ p = "verify-email" /\ call[c].op \in {"register", "resendAtLogin"}
         \/ UNCHANGED otps
  PROVE  LinkInv'
<1>1. PICK u \in Tabs : u = call[c].tab  BY DEF LinkInv, WaitsOK
<1>2. \A d \in Calls : WaitsOK(call'[d], page')  BY <1>1, PushWaits
<1>3. /\ page \in [Tabs -> Entries \cup ForgotPassword \cup {"dashboard"}]
      /\ countdown \in [Tabs -> 0 .. ResendTicks]
  BY DEF LinkInv, AuthInv, PagesTyped
<1>4. ASSUME NEW t \in Tabs, NEW r \in DOMAIN otps', page'[t] \in {"verify-email", "code"}
      PROVE  FarEnough(otps'[r], t, page'[t], countdown'[t])
  <2>1. otps'[r] \in Rows
    BY <1>4, RowNumbersNext DEF AuthInv, CodesInv
  <2>2. CASE SameRoute(page[u], p)
    <3>1. UNCHANGED <<page, countdown>>  BY <1>1, <2>2 DEF Push
    <3>2. ~call[c].live \/ UNCHANGED otps
      <4>1. CASE call[c].live /\ call[c].op \in {"register", "resendAtLogin"} /\ p = "verify-email"
        <5>1. page[u] \in {"register", "login"}
          BY <1>1, <4>1 DEF LinkInv, WaitsOK, PagesOf
        <5> QED  BY <2>2, <4>1, <5>1 DEF SameRoute, ForgotPassword
      <4> QED  BY <4>1
    <3> QED  BY <1>4, <3>1, <3>2, TellsOne
  <2>3. CASE ~SameRoute(page[u], p)
    <3>1. page' = [page EXCEPT ![u] = p] /\ countdown' = [countdown EXCEPT ![u] = MountedCountdown(p)]
      BY <1>1, <2>3 DEF Push
    <3>2. CASE t = u
      <4>1. p = "verify-email"  BY <1>3, <1>4, <3>1, <3>2 DEF Entries
      <4>2. countdown'[t] = ResendTicks  BY <1>3, <3>1, <3>2, <4>1 DEF MountedCountdown
      <4> QED  BY <2>1, <4>2, FarAtFull
    <3>3. CASE t # u
      <4>1. page'[t] = page[t] /\ countdown'[t] = countdown[t]  BY <3>1, <3>3
      <4> QED  BY <1>1, <1>4, <3>3, <4>1, TellsOne
    <3> QED  BY <3>2, <3>3
  <2> QED  BY <2>2, <2>3
<1>5. CountdownsOK'  BY <1>4 DEF CountdownsOK
<1> QED  BY <1>2, <1>5 DEF LinkInv

\* The link of a page that has just been told counts down from the start.
LEMMA TellLinks ==
  ASSUME LinkInv, AuthInv', NEW c \in Calls, call[c].op # None,
         \A d \in Calls : WaitsOK(call'[d], page'),
         otps' = Told(c),
         page' = page \/ (call[c].live /\ page' = [page EXCEPT ![call[c].tab] = "code"]),
         countdown' = IF call[c].live THEN [countdown EXCEPT ![call[c].tab] = ResendTicks]
                      ELSE countdown
  PROVE  LinkInv'
<1>1. PICK u \in Tabs : u = call[c].tab  BY DEF LinkInv, WaitsOK
<1>2. /\ page \in [Tabs -> Entries \cup ForgotPassword \cup {"dashboard"}]
      /\ countdown \in [Tabs -> 0 .. ResendTicks]
  BY DEF LinkInv, AuthInv, PagesTyped
<1>3. ASSUME NEW t \in Tabs, NEW r \in DOMAIN otps', page'[t] \in {"verify-email", "code"}
      PROVE  FarEnough(otps'[r], t, page'[t], countdown'[t])
  <2>1. otps'[r] \in Rows  BY RowNumbersNext DEF AuthInv, CodesInv
  <2>2. CASE call[c].live /\ t = u
    <3>1. countdown'[t] = ResendTicks  BY <1>1, <1>2, <2>2
    <3> QED  BY <2>1, <3>1, FarAtFull
  <2>3. CASE ~(call[c].live /\ t = u)
    <3>1. page'[t] = page[t] /\ countdown'[t] = countdown[t]  BY <1>1, <1>2, <2>3
    <3>2. ~call[c].live \/ t # call[c].tab  BY <1>1, <2>3
    <3> QED  BY <1>3, <3>1, <3>2, TellsOne
  <2> QED  BY <2>2, <2>3
<1>4. CountdownsOK'  BY <1>3 DEF CountdownsOK
<1> QED  BY <1>4 DEF LinkInv

LEMMA HearLinks == ASSUME LinkInv, NEW c \in Calls, Hear(c) PROVE LinkInv'
<1>1. AuthInv'  BY HearStep DEF LinkInv
<1>2. None \notin Operations  BY CodesAssumption
<1>3. /\ page \in [Tabs -> Entries \cup ForgotPassword \cup {"dashboard"}]
      /\ countdown \in [Tabs -> 0 .. ResendTicks]
  BY DEF LinkInv, AuthInv, PagesTyped
<1>4. CASE FormFails(c) \/ ResendFails(c)
  <2>1. call' = Released(c) /\ UNCHANGED <<otps, page, countdown>>
    BY <1>4 DEF FormFails, ResendFails
  <2>2. \A d \in Calls : WaitsOK(call'[d], page')  BY <2>1, ReleasedWaits
  <2>3. CountdownsOK'  BY <2>1 DEF LinkInv, CountdownsOK
  <2> QED  BY <1>1, <2>2, <2>3 DEF LinkInv
<1>5. CASE RegisterDone(c) \/ LoginGateDone(c)
  <2>1. /\ otps' = Told(c) /\ Push(call[c].tab, "verify-email", c)
        /\ call[c].op \in {"register", "resendAtLogin"}
    BY <1>5 DEF RegisterDone, LoginGateDone, Answered
  <2>2. call[c].op # None /\ "verify-email" \in Entries
    BY <1>2, <2>1 DEF Operations, Entries
  <2> QED  BY <1>1, <2>1, <2>2, PushLinks
<1>6. CASE SignedIn(c)
  <2>1. /\ Push(call[c].tab, "dashboard", c) /\ UNCHANGED otps
        /\ call[c].op \in {"login", "verifySignup"}
    BY <1>6 DEF SignedIn, Answered
  <2>2. call[c].op # None  BY <1>2, <2>1 DEF Operations
  <2> QED  BY <1>1, <2>1, <2>2, PushLinks
<1>7. CASE LoginGated(c)
  <2>1. /\ call[c].op = "login"
        /\ call' = [call EXCEPT ![c] =
               [Started("resendAtLogin", call[c].tab, None) EXCEPT !.live = call[c].live]]
        /\ UNCHANGED <<otps, page, countdown>>
    BY <1>7 DEF LoginGated, Answered
  <2>2. PICK h : h = [Started("resendAtLogin", call[c].tab, None) EXCEPT !.live = call[c].live]
    OBVIOUS
  <2>3. h.op = "resendAtLogin" /\ h.tab = call[c].tab /\ h.live = call[c].live
    BY <2>2 DEF Started, Idle
  <2>4. WaitsOK(call[c], page)  BY DEF LinkInv
  <2>5. WaitsOK(h, page)
    BY <1>2, <2>1, <2>3, <2>4 DEF WaitsOK, PagesOf, Operations
  <2>6. \A d \in Calls : WaitsOK(call'[d], page')
    BY <2>1, <2>2, <2>5 DEF LinkInv, AuthInv, CodesInv, CallsOK
  <2>7. CountdownsOK'  BY <2>1 DEF LinkInv, CountdownsOK
  <2> QED  BY <1>1, <2>6, <2>7 DEF LinkInv
<1>8. CASE ResendDone(c)
  <2>1. /\ otps' = Told(c) /\ call' = Released(c) /\ UNCHANGED page
        /\ countdown' = IF call[c].live THEN [countdown EXCEPT ![call[c].tab] = ResendTicks]
                        ELSE countdown
        /\ call[c].op \in {"resendSignup", "resendReset"}
    BY <1>8 DEF ResendDone, Answered
  <2>2. \A d \in Calls : WaitsOK(call'[d], page')  BY <2>1, ReleasedWaits
  <2>3. call[c].op # None  BY <1>2, <2>1 DEF Operations
  <2> QED  BY <1>1, <2>1, <2>2, <2>3, TellLinks
<1>9. CASE EmailDone(c)
  <2>1. /\ otps' = Told(c) /\ NextStep(c, "code")
        /\ countdown' = IF call[c].live THEN [countdown EXCEPT ![call[c].tab] = ResendTicks]
                        ELSE countdown
        /\ call[c].op = "requestReset"
    BY <1>9 DEF EmailDone, Answered
  <2>2. PagesOf(call[c].op) = ForgotPassword  BY <2>1 DEF PagesOf
  <2>3. \A d \in Calls : WaitsOK(call'[d], page')
    BY <2>1, <2>2, NextStepWaits DEF ForgotPassword
  <2>4. page' = page \/ (call[c].live /\ page' = [page EXCEPT ![call[c].tab] = "code"])
    BY <2>1 DEF NextStep
  <2>5. call[c].op # None  BY <1>2, <2>1 DEF Operations
  <2> QED  BY <1>1, <2>1, <2>3, <2>4, <2>5, TellLinks
<1>10. CASE CodeDone(c) \/ PasswordDone(c)
  <2>1. PICK step \in {"password", "done"} : NextStep(c, step)
    BY <1>10 DEF CodeDone, PasswordDone
  <2>2. UNCHANGED <<otps, countdown>> /\ call[c].op \in {"verifyReset", "confirmReset"}
    BY <1>10 DEF CodeDone, PasswordDone, Answered
  <2>3. PagesOf(call[c].op) = ForgotPassword  BY <2>2 DEF PagesOf
  <2>4. \A d \in Calls : WaitsOK(call'[d], page')
    BY <2>1, <2>3, NextStepWaits DEF ForgotPassword
  <2>5. page' = page \/ page' = [page EXCEPT ![call[c].tab] = step]
    BY <2>1 DEF NextStep
  <2>6. CountdownsOK'
    <3>1. ASSUME NEW t \in Tabs, page'[t] \in {"verify-email", "code"} PROVE page'[t] = page[t]
      BY <1>3, <2>5, <3>1
    <3> QED  BY <2>2, <3>1 DEF LinkInv, CountdownsOK
  <2> QED  BY <1>1, <2>4, <2>6 DEF LinkInv
<1> QED  BY <1>4, <1>5, <1>6, <1>7, <1>8, <1>9, <1>10 DEF Hear

LEMMA AskLinks == ASSUME LinkInv, NEW t \in Tabs, Ask(t) PROVE LinkInv'
<1>1. AuthInv'  BY AskStep DEF LinkInv
<1>2. PICK op \in Operations :
          /\ \E x : Send(t, op, x)
          /\ page[t] \in PagesOf(op) /\ UNCHANGED <<otps, page, countdown>>
  <2>1. UNCHANGED otps  BY DEF Ask
  <2>2. CASE SubmitRegister(t)
    BY <2>1, <2>2 DEF SubmitRegister, Submit, Operations, PagesOf, RegisterForm
  <2>3. CASE SubmitLogin(t)
    BY <2>1, <2>3 DEF SubmitLogin, Submit, Operations, PagesOf, LoginForm
  <2>4. CASE SubmitSignupCode(t)
    BY <2>1, <2>4 DEF SubmitSignupCode, Submit, Operations, PagesOf, VerifyButton
  <2>5. CASE SubmitEmail(t)
    BY <2>1, <2>5 DEF SubmitEmail, Submit, Operations, PagesOf, EmailForm, ForgotPassword
  <2>6. CASE SubmitCode(t)
    BY <2>1, <2>6 DEF SubmitCode, Submit, Operations, PagesOf, CodeButton, ForgotPassword
  <2>7. CASE SubmitPassword(t)
    BY <2>1, <2>7 DEF SubmitPassword, Submit, Operations, PagesOf, PasswordForm, ForgotPassword
  <2>8. CASE ResendSignup(t)
    BY <2>1, <2>8 DEF ResendSignup, Operations, PagesOf
  <2>9. CASE ResendReset(t)
    BY <2>1, <2>9 DEF ResendReset, Operations, PagesOf, ForgotPassword
  <2> QED  BY <2>2, <2>3, <2>4, <2>5, <2>6, <2>7, <2>8, <2>9 DEF Ask
<1>3. PICK x : Send(t, op, x)  BY <1>2
<1>4. PICK c \in Calls : call' = [call EXCEPT ![c] = Started(op, t, x)]
  BY <1>3 DEF Send
<1>5. PICK h : h = Started(op, t, x)  OBVIOUS
<1>6. h.op = op /\ h.tab = t /\ h.live  BY <1>5 DEF Started, Idle
<1>7. WaitsOK(h, page)  BY <1>2, <1>6, CodesAssumption DEF WaitsOK
<1>8. \A d \in Calls : WaitsOK(call'[d], page')
  BY <1>2, <1>4, <1>5, <1>7 DEF LinkInv, AuthInv, CodesInv, CallsOK
<1>9. CountdownsOK'  BY <1>2 DEF LinkInv, CountdownsOK
<1> QED  BY <1>1, <1>8, <1>9 DEF LinkInv

LEMMA NavigationLinks ==
  ASSUME LinkInv, AuthInv', NEW t \in Tabs, NEW p \in Entries, Push(t, p, None), UNCHANGED otps
  PROVE  LinkInv'
<1>1. \A d \in Calls : WaitsOK(call'[d], page')  BY PushWaits
<1>2. /\ page \in [Tabs -> Entries \cup ForgotPassword \cup {"dashboard"}]
      /\ countdown \in [Tabs -> 0 .. ResendTicks]
  BY DEF LinkInv, AuthInv, PagesTyped
<1>3. ASSUME NEW u \in Tabs, NEW r \in DOMAIN otps', page'[u] \in {"verify-email", "code"}
      PROVE  FarEnough(otps'[r], u, page'[u], countdown'[u])
  <2>1. otps'[r] \in Rows  BY RowNumbersNext DEF AuthInv, CodesInv
  <2>2. CASE page'[u] = page[u] /\ countdown'[u] = countdown[u]
    BY <1>3, <2>2 DEF LinkInv, CountdownsOK
  <2>3. CASE ~(page'[u] = page[u] /\ countdown'[u] = countdown[u])
    <3>1. page' = [page EXCEPT ![t] = p] /\ countdown' = [countdown EXCEPT ![t] = MountedCountdown(p)]
      BY <2>3 DEF Push
    <3>2. u = t  BY <2>3, <3>1
    <3>3. p = "verify-email"  BY <1>2, <1>3, <3>1, <3>2 DEF Entries
    <3>4. countdown'[u] = ResendTicks  BY <1>2, <3>1, <3>2, <3>3 DEF MountedCountdown
    <3> QED  BY <2>1, <3>4, FarAtFull
  <2> QED  BY <2>2, <2>3
<1>4. CountdownsOK'  BY <1>3 DEF CountdownsOK
<1> QED  BY <1>1, <1>4 DEF LinkInv

LEMMA TickLinks == ASSUME LinkInv, Tick PROVE LinkInv'
<1>1. AuthInv'  BY TickStep DEF LinkInv
<1>2. /\ UNCHANGED <<page, call>>
      /\ otps' = [r \in DOMAIN otps |-> [otps[r] EXCEPT !.age = IF @ = OldAge THEN @ ELSE @ + 1]]
      /\ countdown' = [t \in Tabs |-> IF countdown[t] = 0 THEN 0 ELSE countdown[t] - 1]
  BY DEF Tick
<1>3. \A d \in Calls : WaitsOK(call'[d], page')  BY <1>2 DEF LinkInv
<1>4. OldAge \in Nat /\ OldAge >= ResendTicks  BY Bounds DEF OldAge
<1>5. ASSUME NEW t \in Tabs, NEW r \in DOMAIN otps', page[t] \in {"verify-email", "code"}
      PROVE  FarEnough(otps'[r], t, page[t], countdown'[t])
  <2>1. r \in DOMAIN otps  BY <1>2
  <2>2. otps[r] \in Rows  BY <2>1, RowNumbers DEF LinkInv, AuthInv, CodesInv
  <2>3. FarEnough(otps[r], t, page[t], countdown[t])  BY <1>5, <2>1 DEF LinkInv, CountdownsOK
  <2>4. PICK a : a = IF otps[r].age = OldAge THEN otps[r].age ELSE otps[r].age + 1  OBVIOUS
  <2>5. otps'[r] = [otps[r] EXCEPT !.age = a]  BY <1>2, <2>1, <2>4
  <2>6. otps'[r].age = a /\ otps'[r].told = otps[r].told /\ otps'[r].purpose = otps[r].purpose
    BY <2>2, <2>5 DEF Rows
  <2>7. countdown[t] \in 0 .. ResendTicks  BY DEF LinkInv, AuthInv, PagesTyped
  <2>8. countdown'[t] = IF countdown[t] = 0 THEN 0 ELSE countdown[t] - 1  BY <1>2
  <2>9. otps[r].age \in 0 .. OldAge  BY <2>2 DEF Rows
  <2>10. otps[r].age + countdown[t] >= ResendTicks => a + countdown'[t] >= ResendTicks
    BY <1>4, <2>4, <2>7, <2>8, <2>9, Bounds
  <2> QED  BY <2>3, <2>6, <2>10 DEF FarEnough
<1>6. CountdownsOK'  BY <1>2, <1>5 DEF CountdownsOK
<1> QED  BY <1>1, <1>3, <1>6 DEF LinkInv

LEMMA LinkStep == ASSUME LinkInv, [AuthNext]_authVars PROVE LinkInv'
<1>1. AuthInv'  BY AuthStep DEF LinkInv
<1>2. ASSUME UNCHANGED authVars PROVE LinkInv'
  <2>1. UNCHANGED <<call, otps, page, countdown>>
    BY <1>2 DEF authVars, codeVars, pageVars
  <2> QED  BY <1>1, <2>1 DEF LinkInv, CountdownsOK
<1>3. ASSUME NEW t \in Tabs, Redirect(t) PROVE LinkInv'
  <2>1. "login" \in Entries  BY DEF Entries
  <2> QED  BY <1>1, <1>3, <2>1, NavigationLinks DEF Redirect
<1>4. ASSUME NEW t \in Tabs, NEW p \in Entries, Visit(t, p) PROVE LinkInv'
  BY <1>1, <1>4, NavigationLinks DEF Visit
<1> QED  BY <1>2, <1>3, <1>4, HandlerLinks, HearLinks, AskLinks, TickLinks DEF AuthNext

\* A page that was told of a code offers Resend only when the server would not refuse it for
\* that code: its own countdown is never ahead of the age of the row.
THEOREM CodesLinkHonest == AuthSpec => []LinkIsHonest
<1>1. AuthSpec => []LinkInv  BY LinkBegins, LinkStep, PTL DEF AuthSpec
<1>2. LinkInv => LinkIsHonest
  <2> SUFFICES ASSUME LinkInv, NEW t \in Tabs, ResendLink(t), NEW r \in DOMAIN otps,
                      otps[r].told = t,
                      otps[r].purpose = IF page[t] = "code" THEN "PASSWORD_RESET" ELSE "SIGNUP"
               PROVE  ~Throttled(r)
    BY DEF LinkIsHonest
  <2>1. page[t] \in {"verify-email", "code"} /\ countdown[t] = 0  BY DEF ResendLink
  <2>2. FarEnough(otps[r], t, page[t], 0)  BY <2>1 DEF LinkInv, CountdownsOK
  <2>3. otps[r].age \in Nat
    <3>1. otps[r] \in Rows  BY RowNumbers DEF LinkInv, AuthInv, CodesInv
    <3>2. OldAge \in Nat  BY Bounds DEF OldAge
    <3> QED  BY <3>1, <3>2 DEF Rows
  <2> QED  BY <2>2, <2>3, Bounds DEF FarEnough, Throttled
<1> QED  BY <1>1, <1>2, PTL
=============================================================================
