------------------------------ MODULE AuthPages ------------------------------
(***************************************************************************)
(* The web pages for signing up and in (register, verify-email, login and  *)
(* the four steps of forgot-password) on top of the backend's handlers.    *)
(*                                                                         *)
(* A tab shows one page.  Leaving a page cancels nothing: the continuation *)
(* of its request still runs, its setStates are lost, but what it pushes   *)
(* on the router it pushes from wherever the tab is by now.  Only the form *)
(* is disabled while it waits; the Resend link is not.                     *)
(***************************************************************************)
EXTENDS OneTimeCodes

CONSTANT MaxRequests  \* bound: requests that users make

ASSUME PagesAssumption == MaxRequests \in Nat

VARIABLES
    requests,   \* made so far
    page,       \* what a tab shows; the last four of ForgotPassword are its steps
    isLoading,  \* of the page's form
    countdown,  \* ticks until the page offers Resend
    redirect    \* the timer of "Redirecting you to login..." is set

pageVars == <<requests, page, isLoading, countdown, redirect>>
authVars == <<codeVars, pageVars>>

ForgotPassword == {"email", "code", "password", "done"}
Entries == {"register", "verify-email", "login", "email"}

AuthTypeOK ==
    /\ TypeOK
    /\ requests \in 0 .. MaxRequests
    /\ page \in [Tabs -> Entries \cup ForgotPassword \cup {"dashboard"}]
    /\ isLoading \in [Tabs -> BOOLEAN]
    /\ countdown \in [Tabs -> 0 .. ResendTicks]
    /\ redirect \in [Tabs -> BOOLEAN]

\* A tab may have come to the last step of a reset already.
AuthInit ==
    /\ CodesInit
    /\ requests = 0
    /\ page \in [Tabs -> IF user.exists THEN {"login", "password"} ELSE {"login"}]
    /\ isLoading = [t \in Tabs |-> FALSE]
    /\ countdown = [t \in Tabs |-> 0]
    /\ redirect = [t \in Tabs |-> FALSE]

SameRoute(p, q) == p = q \/ {p, q} \subseteq ForgotPassword

\* The calls after c was answered and t has moved away from its page.
Orphaned(t, c) ==
    [d \in Calls |-> IF d = c THEN Idle
                     ELSE IF call[d].tab = t THEN [call[d] EXCEPT !.live = FALSE] ELSE call[d]]
Released(c) == [d \in Calls |-> IF d = c THEN Idle ELSE call[d]]

\* Mutant: the page offers Resend as soon as it is mounted.
MountedCountdownZero(p) == 0

\* A page is mounted: verify-email starts at the full countdown, forgot-password at none.
MountedCountdown(p) == IF p = "verify-email" THEN ResendTicks ELSE 0

\* router.push: a page that is shown already is kept as it is.
Push(t, p, c) ==
    IF SameRoute(page[t], p) THEN call' = Released(c) /\ UNCHANGED <<page, isLoading, countdown>>
    ELSE /\ page' = [page EXCEPT ![t] = p]
         /\ isLoading' = [isLoading EXCEPT ![t] = FALSE]
         /\ countdown' = [countdown EXCEPT ![t] = MountedCountdown(p)]
         /\ call' = Orphaned(t, c)

----------------------------------------------------------------------------
(* What the pages offer *)

RegisterForm(t) == page[t] = "register" /\ ~isLoading[t]
LoginForm(t) == page[t] = "login" /\ ~isLoading[t]
VerifyButton(t) == page[t] = "verify-email" /\ ~isLoading[t]
EmailForm(t) == page[t] = "email" /\ ~isLoading[t]
CodeButton(t) == page[t] = "code" /\ ~isLoading[t]
PasswordForm(t) == page[t] = "password" /\ ~isLoading[t]
ResendLink(t) == page[t] \in {"verify-email", "code"} /\ countdown[t] = 0
SignInButton(t) == page[t] = "done"

----------------------------------------------------------------------------
(* Requests *)

Send(t, op, x) ==
    /\ requests < MaxRequests /\ requests' = requests + 1
    /\ \E c \in Calls : call[c].op = None /\ call' = [call EXCEPT ![c] = Started(op, t, x)]

\* setIsLoading(true) and the request.
Submit(t, op, x) ==
    /\ Send(t, op, x)
    /\ isLoading' = [isLoading EXCEPT ![t] = TRUE]
    /\ UNCHANGED <<page, countdown, redirect>>

SubmitRegister(t) == RegisterForm(t) /\ \E p \in Passwords : Submit(t, "register", p)
SubmitLogin(t) == LoginForm(t) /\ \E p \in Passwords : Submit(t, "login", p)
\* The six digits may be those of any row, or of none.
SubmitSignupCode(t) ==
    VerifyButton(t) /\ \E x \in DOMAIN otps \cup {WrongCode} : Submit(t, "verifySignup", x)
SubmitEmail(t) == EmailForm(t) /\ Submit(t, "requestReset", None)
SubmitCode(t) ==
    CodeButton(t) /\ \E x \in DOMAIN otps \cup {WrongCode} : Submit(t, "verifyReset", x)
SubmitPassword(t) == PasswordForm(t) /\ \E p \in Passwords : Submit(t, "confirmReset", p)

ResendSignup(t) ==
    /\ ResendLink(t) /\ page[t] = "verify-email"
    /\ Send(t, "resendSignup", None)
    /\ UNCHANGED <<page, isLoading, countdown, redirect>>

ResendReset(t) ==
    /\ ResendLink(t) /\ page[t] = "code"
    /\ Send(t, "resendReset", None)
    /\ UNCHANGED <<page, isLoading, countdown, redirect>>

Ask(t) ==
    /\ \/ SubmitRegister(t) \/ SubmitLogin(t) \/ SubmitSignupCode(t)
       \/ SubmitEmail(t) \/ SubmitCode(t) \/ SubmitPassword(t)
       \/ ResendSignup(t) \/ ResendReset(t)
    /\ UNCHANGED <<user, otps, accepted, reused, guesses, raced, clobbered, chosen, confirmed>>

----------------------------------------------------------------------------
(* Answers *)

\* A page that is still there reports that the code of the call's row was sent.
Told(c) == IF call[c].live /\ call[c].row # 0
           THEN [otps EXCEPT ![call[c].row].told = call[c].tab] ELSE otps

Answered(c, ops, result) == At(c, "answered") /\ call[c].op \in ops /\ call[c].result = result

\* finally { setIsLoading(false) } of a page that is still there.
Settled(c) == IF call[c].live THEN [isLoading EXCEPT ![call[c].tab] = FALSE] ELSE isLoading

\* Every form reports the error and can be submitted again.
FormFails(c) ==
    /\ \E op \in Operations \ {"resendSignup", "resendReset", "resendAtLogin"} :
           Answered(c, {op}, "error")
    /\ call' = Released(c)
    /\ isLoading' = Settled(c)
    /\ UNCHANGED <<otps, page, countdown, redirect>>

RegisterDone(c) ==
    /\ Answered(c, {"register"}, "ok")
    /\ otps' = Told(c)
    /\ Push(call[c].tab, "verify-email", c)
    /\ UNCHANGED redirect

SignedIn(c) ==
    /\ Answered(c, {"login", "verifySignup"}, "ok")
    /\ Push(call[c].tab, "dashboard", c)
    /\ UNCHANGED <<otps, redirect>>

\* The login gate: the page asks for a new code and waits for the answer ...
LoginGated(c) ==
    /\ Answered(c, {"login"}, "requiresOtp")
    /\ call' = [call EXCEPT ![c] =
           [Started("resendAtLogin", call[c].tab, None) EXCEPT !.live = call[c].live]]
    /\ UNCHANGED <<otps, page, isLoading, countdown, redirect>>

\* ... which it does not look at.
LoginGateDone(c) ==
    /\ \E result \in {"ok", "error"} : Answered(c, {"resendAtLogin"}, result)
    /\ otps' = Told(c)
    /\ Push(call[c].tab, "verify-email", c)
    /\ UNCHANGED redirect

\* A resend that was made when the countdown was over starts it again.
ResendDone(c) ==
    /\ Answered(c, {"resendSignup", "resendReset"}, "ok")
    /\ otps' = Told(c)
    /\ countdown' = IF call[c].live THEN [countdown EXCEPT ![call[c].tab] = ResendTicks]
                    ELSE countdown
    /\ call' = Released(c)
    /\ UNCHANGED <<page, isLoading, redirect>>

ResendFails(c) ==
    /\ Answered(c, {"resendSignup", "resendReset"}, "error")
    /\ call' = Released(c)
    /\ UNCHANGED <<otps, page, isLoading, countdown, redirect>>

\* The next step of forgot-password.
NextStep(c, step) ==
    /\ page' = IF call[c].live THEN [page EXCEPT ![call[c].tab] = step] ELSE page
    /\ isLoading' = Settled(c)
    /\ call' = Released(c)

EmailDone(c) ==
    /\ Answered(c, {"requestReset"}, "ok")
    /\ NextStep(c, "code")
    /\ otps' = Told(c)
    /\ countdown' = IF call[c].live THEN [countdown EXCEPT ![call[c].tab] = ResendTicks]
                    ELSE countdown
    /\ UNCHANGED redirect

CodeDone(c) ==
    /\ Answered(c, {"verifyReset"}, "ok")
    /\ NextStep(c, "password")
    /\ UNCHANGED <<otps, countdown, redirect>>

\* The timer is set whether the page is still there or not.
PasswordDone(c) ==
    /\ Answered(c, {"confirmReset"}, "ok")
    /\ NextStep(c, "done")
    /\ redirect' = [redirect EXCEPT ![call[c].tab] = TRUE]
    /\ UNCHANGED <<otps, countdown>>

Hear(c) ==
    /\ \/ FormFails(c) \/ RegisterDone(c) \/ SignedIn(c) \/ LoginGated(c) \/ LoginGateDone(c)
       \/ ResendDone(c) \/ ResendFails(c) \/ EmailDone(c) \/ CodeDone(c) \/ PasswordDone(c)
    /\ UNCHANGED <<requests, user, accepted, reused, guesses, raced, clobbered, chosen, confirmed>>

----------------------------------------------------------------------------
(* Time and navigation *)

\* 2.2 seconds after a reset: from wherever the tab is by now.
Redirect(t) ==
    /\ redirect[t]
    /\ redirect' = [redirect EXCEPT ![t] = FALSE]
    /\ Push(t, "login", None)
    /\ UNCHANGED <<requests, user, otps, accepted, reused, guesses, raced, clobbered, chosen, confirmed>>

\* A link of the page, the navigation bar or the Back button.  Signing out is not modelled here.
Visit(t, p) ==
    /\ page[t] # "dashboard" /\ ~SameRoute(page[t], p)
    /\ Push(t, p, None)
    /\ UNCHANGED <<requests, redirect, user, otps, accepted, reused, guesses, raced, clobbered, chosen, confirmed>>

\* The clock, and the pages' one-second timers.
Tick ==
    /\ otps' = [r \in DOMAIN otps |->
           [otps[r] EXCEPT !.age = IF @ = OldAge THEN @ ELSE @ + 1]]
    /\ countdown' = [t \in Tabs |-> IF countdown[t] = 0 THEN 0 ELSE countdown[t] - 1]
    /\ UNCHANGED <<requests, page, isLoading, redirect, user, call, accepted, reused, guesses, raced,
                   clobbered, chosen, confirmed>>

AuthNext ==
    \/ \E c \in Calls : (Handler(c) /\ UNCHANGED pageVars) \/ Hear(c)
    \/ \E t \in Tabs : Ask(t) \/ Redirect(t) \/ \E p \in Entries : Visit(t, p)
    \/ Tick

AuthSpec == AuthInit /\ [][AuthNext]_authVars

----------------------------------------------------------------------------
(* Properties *)

\* A SIGNUP code is the only way in, whatever saves overlap and however the pages are
\* left: nobody is past the login page, and no address counts as verified, before one was
\* accepted.
SignedInVerified ==
    user.isEmailVerified \/ (\E t \in Tabs : page[t] = "dashboard") =>
        user.old \/ \E r \in accepted : otps[r].purpose = "SIGNUP"

\* The pages count down by themselves what the server enforces.  A tab that was told of a
\* code does not offer Resend while the server would refuse it for that code: "Please wait"
\* is left for the codes it was never told of.
LinkIsHonest ==
    \A t \in Tabs : ResendLink(t) =>
        \A r \in DOMAIN otps :
            /\ otps[r].told = t
            /\ otps[r].purpose = IF page[t] = "code" THEN "PASSWORD_RESET" ELSE "SIGNUP"
            => ~Throttled(r)

============================================================================
