----------------------------- MODULE WebSession -----------------------------
(***************************************************************************)
(* The session of the web client in one browser tab.                       *)
(*                                                                         *)
(* The token lives in the tab's session storage.  A document keeps, in     *)
(* React state, the user it shows and whether it is still finding out      *)
(* (AuthProvider), and RouteGuard decides from them what the address may   *)
(* show.  A document that is left by a full page load stays frozen in the  *)
(* back/forward cache; a later one shares its session storage.  Answers of *)
(* the API arrive in any order, and not while their document is frozen.    *)
(*                                                                         *)
(* A token is the user it was minted for.  React renders the updates of    *)
(* one callback at once, so a callback is one step.                        *)
(***************************************************************************)
EXTENDS Integers, Bags

CONSTANTS
    Users,
    Docs,      \* documents of the tab's history
    MaxCalls,  \* bound: requests in flight, for each document
    Nobody

ASSUME WebSessionAssumption == Nobody \notin Users /\ MaxCalls \in Nat \ {0}

VARIABLES
    token,   \* sessionStorage: the holder of the token, or Nobody
    active,  \* the document that is shown
    doc,     \* [Docs -> Document]
    calls    \* [Docs -> bag of Call]: requests in flight

vars == <<token, active, doc, calls>>

\* "auth" stands for /login and /register, "private" for every address that is
\* not in PUBLIC_ROUTES.
Paths == {"landing", "auth", "private"}

Document == [user : Users \union {Nobody}, loading : BOOLEAN, path : Paths]
Unopened == [path |-> "none"]

\* GET /v1/me with the token of `as', or POST /local/auth/login (or register).
Call == [kind : {"me", "login"}, as : Users]
Me(u) == [kind |-> "me", as |-> u]
SignIn(u) == [kind |-> "login", as |-> u]

\* A document as it is loaded: loading if the storage holds a token, and then
\* asking whose it is.
Loaded(p) == [user |-> Nobody, loading |-> token # Nobody, path |-> p]

Asks == IF token # Nobody THEN SetToBag({Me(token)}) ELSE EmptyBag

Init ==
    /\ token \in Users \union {Nobody}
    /\ active \in Docs
    /\ \E p \in Paths : doc = [d \in Docs |-> IF d = active THEN Loaded(p) ELSE Unopened]
    /\ calls = [d \in Docs |-> IF d = active THEN Asks ELSE EmptyBag]
-----------------------------------------------------------------------------
Opened(d) == doc[d] # Unopened
Blocked(d) ==
    \/ doc[d].user = Nobody /\ doc[d].path = "private"
    \/ doc[d].user # Nobody /\ doc[d].path = "auth"

\* RouteGuard shows a spinner instead of the page.
Spinner(d) == Blocked(d) \/ (doc[d].loading /\ doc[d].path = "private")

Send(d, c) ==
    /\ BagCardinality(calls[d]) < MaxCalls
    /\ calls' = [calls EXCEPT ![d] = @ (+) SetToBag({c})]

Answered(d, c) ==
    /\ active = d
    /\ BagIn(c, calls[d])
    /\ calls' = [calls EXCEPT ![d] = @ (-) SetToBag({c})]

Shows(d, u) == doc' = [doc EXCEPT ![d].user = u, ![d].loading = FALSE]

(***************************************************************************)
(* AuthProvider                                                            *)
(***************************************************************************)

\* The form of /login or /register is sent.
Submit(d, u) ==
    /\ active = d
    /\ doc[d].path = "auth"
    /\ ~Spinner(d)
    /\ Send(d, SignIn(u))
    /\ UNCHANGED <<token, active, doc>>

\* The API knows the user: token and user are set, and the form goes to /home.
LoginOk(d, u) ==
    /\ Answered(d, SignIn(u))
    /\ token' = u
    /\ doc' = [doc EXCEPT ![d] = [user |-> u, loading |-> FALSE, path |-> "private"]]
    /\ UNCHANGED active

\* The form shows the error.
LoginFailed(d, u) ==
    /\ Answered(d, SignIn(u))
    /\ UNCHANGED <<token, active, doc>>

\* The user the token was sent for is shown.
MeOk(d, u) ==
    /\ Answered(d, Me(u))
    /\ Shows(d, u)
    /\ UNCHANGED <<token, active>>

\* Mutant: a failure leaves the token.
MeFailedKept(d, u) ==
    /\ Answered(d, Me(u))
    /\ Shows(d, Nobody)
    /\ UNCHANGED <<token, active>>

\* The token is refused or the network fails: whatever token is stored by now
\* is cleared.
MeFailed(d, u) ==
    /\ Answered(d, Me(u))
    /\ token' = Nobody
    /\ Shows(d, Nobody)
    /\ UNCHANGED active

\* The user signs out, and goes to the landing page; or to /login, when the
\* effect of RouteGuard meets the private address that is being left.
Logout(d) ==
    /\ active = d
    /\ doc[d].user # Nobody
    /\ token' = Nobody
    /\ \E p \in {"landing", "auth"} :
        /\ p = "auth" => doc[d].path = "private"
        /\ doc' = [doc EXCEPT ![d] = [user |-> Nobody, loading |-> FALSE, path |-> p]]
    /\ UNCHANGED <<active, calls>>

(***************************************************************************)
(* Navigation                                                              *)
(***************************************************************************)

\* A link, or back and forward within the document.
Visit(d, p) ==
    /\ active = d
    /\ doc[d].path # p
    /\ doc' = [doc EXCEPT ![d].path = p]
    /\ UNCHANGED <<token, active, calls>>

\* The effect of RouteGuard: off to /login, or away from it to /home.
Guard(d) ==
    /\ active = d
    /\ ~doc[d].loading
    /\ Blocked(d)
    /\ doc' = [doc EXCEPT ![d].path = IF doc[d].user = Nobody THEN "auth" ELSE "private"]
    /\ UNCHANGED <<token, active, calls>>

\* A full page load.  The document that is left is frozen; the one that is
\* replaced is gone, with its requests.
Open(d, p) ==
    /\ d # active
    /\ active' = d
    /\ doc' = [doc EXCEPT ![d] = Loaded(p)]
    /\ calls' = [calls EXCEPT ![d] = Asks]
    /\ UNCHANGED token

\* Mutants: a restored document is left as it was; or it believes the storage
\* without asking.
RestoreFrozen(d) ==
    /\ d # active
    /\ Opened(d)
    /\ active' = d
    /\ UNCHANGED <<token, doc, calls>>
RestoreUnasked(d) ==
    /\ d # active
    /\ Opened(d)
    /\ active' = d
    /\ doc' = [doc EXCEPT ![d].user = IF token = Nobody THEN Nobody ELSE @,
                          ![d].loading = token # Nobody /\ doc[d].user = Nobody]
    /\ UNCHANGED <<token, calls>>

\* Back or forward to a frozen document: pageshow calls revalidate.
Restore(d) ==
    /\ d # active
    /\ Opened(d)
    /\ active' = d
    /\ UNCHANGED token
    /\ \/ token = Nobody /\ Shows(d, Nobody) /\ UNCHANGED calls
       \/ token # Nobody /\ doc[d].user # Nobody /\ UNCHANGED <<doc, calls>>
       \/ /\ token # Nobody /\ doc[d].user = Nobody
          /\ doc' = [doc EXCEPT ![d].loading = TRUE]
          /\ Send(d, Me(token))

Answer(d, u) ==
    \/ LoginOk(d, u) \/ LoginFailed(d, u)
    \/ MeOk(d, u) \/ MeFailed(d, u)

Next ==
    \E d \in Docs :
        \/ \E u \in Users : Submit(d, u) \/ Answer(d, u)
        \/ Logout(d) \/ Guard(d) \/ Restore(d)
        \/ \E p \in Paths : Visit(d, p) \/ Open(d, p)

Spec == Init /\ [][Next]_vars

\* Requests of the document that is shown are answered or fail, and effects
\* run; the user is obliged to nothing.
Fairness ==
    \A d \in Docs :
        /\ WF_vars(Guard(d))
        /\ \A u \in Users : /\ WF_vars(MeOk(d, u) \/ MeFailed(d, u))
                            /\ WF_vars(LoginOk(d, u) \/ LoginFailed(d, u))

FairSpec == Spec /\ Fairness
-----------------------------------------------------------------------------
\* The shape of the token and of the documents; the one shown has been opened.
PagesOK ==
    /\ token \in Users \union {Nobody}
    /\ active \in Docs
    /\ doc \in [Docs -> Document \union {Unopened}]
    /\ Opened(active)

\* A stored token is never forgotten by the page: once the page that is shown
\* has finished loading, a token in the storage comes with a user on the page,
\* whichever answers failed, whichever document stored it (AuthProvider sets
\* and clears the two in different callbacks, for different documents).
TokenIsUsed ==
    token # Nobody /\ ~doc[active].loading => doc[active].user # Nobody

\* A page that is signed in without a token.
Ghost == token = Nobody /\ doc[active].user # Nobody

\* A page comes to be signed in without a token in one way only, by an answer
\* of /me that was asked for before the sign-out.  Signing out, going back to a
\* frozen document, loading and failing never do it (revalidate, "a user who
\* signed out and pressed Back").
OnlyLateAnswersHaunt ==
    [][Ghost' /\ ~Ghost => \E u \in Users : MeOk(active, u)]_vars

\* The spinner ends: while its document is shown, loading ends and the
\* redirections of RouteGuard reach a page that may be shown.
SpinnerEnds ==
    \A d \in Docs :
        (active = d /\ Spinner(d)) ~> (active # d \/ ~Spinner(d))
=============================================================================
