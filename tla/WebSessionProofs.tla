-------------------------- MODULE WebSessionProofs --------------------------
(***************************************************************************)
(* What is proved of the web session, for any number of users, documents   *)
(* and requests in flight: a stored token is never forgotten, and a page   *)
(* without a token is shown as signed in only by a late answer.            *)
(*                                                                         *)
(* TokenIsUsed is not inductive: that a document which is loaded or        *)
(* restored is loading rests on the form of the documents, so the          *)
(* induction is over PagesOK /\ TokenIsUsed.                               *)
(***************************************************************************)
EXTENDS WebSession, TLAPS

Inv == PagesOK /\ TokenIsUsed

\* A document that is opened has a user, a loading flag and an address.
LEMMA OpenedIsDocument ==
    ASSUME PagesOK, NEW d \in Docs, Opened(d)
    PROVE  doc[d] \in Document
BY DEF PagesOK, Opened

\* A document as it is loaded has the form of a document.
LEMMA LoadedIsDocument ==
    ASSUME PagesOK, NEW p \in Paths
    PROVE  Loaded(p) \in Document
BY DEF PagesOK, Loaded, Document

\* ... and is loading exactly if the storage holds a token.
LEMMA LoadedIsLoading ==
    ASSUME NEW p, ~Loaded(p).loading
    PROVE  token = Nobody
<1>1. Loaded(p).loading = (token # Nobody)
  BY DEF Loaded
<1> QED
  BY <1>1

\* Showing a user keeps the form of the documents.
LEMMA ShowsKeepsForm ==
    ASSUME PagesOK, NEW d \in Docs, Opened(d), NEW u \in Users \union {Nobody},
           Shows(d, u)
    PROVE  /\ doc' \in [Docs -> Document \union {Unopened}]
           /\ doc'[d] \in Document
           /\ doc'[d].user = u
           /\ doc'[d].loading = FALSE
<1>1. doc[d] \in Document
  BY OpenedIsDocument
<1>2. [doc[d] EXCEPT !.user = u, !.loading = FALSE] \in Document
  BY <1>1 DEF Document
<1>3. doc \in [Docs -> Document \union {Unopened}]
  BY DEF PagesOK
<1>4. doc' = [doc EXCEPT ![d] = [doc[d] EXCEPT !.user = u, !.loading = FALSE]]
  BY <1>3 DEF Shows
<1> QED
  BY <1>1, <1>2, <1>3, <1>4 DEF Document

\* A document is not the mark of one that was never opened.
LEMMA DocumentsAreOpened ==
    ASSUME NEW x \in Document
    PROVE  x # Unopened
BY DEF Document, Unopened, Paths

\* The first document is loading if there is a token.
LEMMA InitInv == ASSUME Init PROVE Inv
<1>1. PICK p \in Paths :
        doc = [d \in Docs |-> IF d = active THEN Loaded(p) ELSE Unopened]
  BY DEF Init
<1>2. active \in Docs /\ token \in Users \union {Nobody}
  BY DEF Init
<1>3. Loaded(p) \in Document
  BY <1>2 DEF Loaded, Document
<1>4. doc[active] = Loaded(p)
  BY <1>1, <1>2
<1>5. PagesOK
  BY <1>1, <1>2, <1>3, <1>4, DocumentsAreOpened DEF PagesOK, Opened
<1>6. TokenIsUsed
  BY <1>4, LoadedIsLoading DEF TokenIsUsed
<1> QED
  BY <1>5, <1>6 DEF Inv

\* An answer shows a user with the token, or nobody without one, or asks on.
LEMMA AnswersKeepInv ==
    ASSUME WebSessionAssumption, Inv, NEW d \in Docs, NEW u \in Users, Answer(d, u)
    PROVE  Inv'
<1> USE WebSessionAssumption DEF WebSessionAssumption
<1>0. /\ active = d
      /\ PagesOK
      /\ Opened(d)
  BY DEF Inv, PagesOK, Answer, LoginOk, LoginFailed, MeOk, MeFailed, Answered
<1>1. CASE LoginOk(d, u)
  <2> DEFINE in == [user |-> u, loading |-> FALSE, path |-> "private"]
  <2>1. in \in Document
    BY DEF Document, Paths
  <2>2. doc' = [doc EXCEPT ![d] = in] /\ token' = u /\ active' = d
    BY <1>0, <1>1 DEF LoginOk
  <2>3. doc'[d] = in
    BY <1>0, <2>2 DEF PagesOK
  <2>4. PagesOK'
    BY <1>0, <2>1, <2>2, <2>3, DocumentsAreOpened DEF PagesOK, Opened
  <2> QED
    BY <2>2, <2>3, <2>4 DEF Inv, TokenIsUsed
<1>2. CASE LoginFailed(d, u)
  BY <1>2 DEF LoginFailed, Inv, PagesOK, Opened, TokenIsUsed
<1>3. CASE MeOk(d, u)
  <2>1. Shows(d, u) /\ token' = token /\ active' = d
    BY <1>0, <1>3 DEF MeOk
  <2>2. /\ doc' \in [Docs -> Document \union {Unopened}]
        /\ doc'[d] \in Document
        /\ doc'[d].user = u
    BY <1>0, <2>1, ShowsKeepsForm
  <2> QED
    BY <1>0, <2>1, <2>2, DocumentsAreOpened DEF Inv, PagesOK, Opened, TokenIsUsed
<1>4. CASE MeFailed(d, u)
  <2>1. Shows(d, Nobody) /\ token' = Nobody /\ active' = d
    BY <1>0, <1>4 DEF MeFailed
  <2>2. /\ doc' \in [Docs -> Document \union {Unopened}]
        /\ doc'[d] \in Document
    BY <1>0, <2>1, ShowsKeepsForm
  <2> QED
    BY <1>0, <2>1, <2>2, DocumentsAreOpened DEF Inv, PagesOK, Opened, TokenIsUsed
<1> QED
  BY <1>1, <1>2, <1>3, <1>4 DEF Answer

\* Signing out clears both; moving about in a document changes neither.
LEMMA MovesKeepInv ==
    ASSUME Inv, NEW d \in Docs,
           Logout(d) \/ Guard(d) \/ (\E p \in Paths : Visit(d, p))
    PROVE  Inv'
<1>1. PagesOK /\ active = d /\ active' = d /\ Opened(d)
  BY DEF Inv, PagesOK, Logout, Guard, Visit
<1>2. doc[d] \in Document
  BY <1>1, OpenedIsDocument
<1>3. CASE Logout(d)
  <2>0. PICK p \in {"landing", "auth"} :
          doc' = [doc EXCEPT ![d] = [user |-> Nobody, loading |-> FALSE, path |-> p]]
    BY <1>3 DEF Logout
  <2> DEFINE out == [user |-> Nobody, loading |-> FALSE, path |-> p]
  <2>1. out \in Document
    BY DEF Document, Paths
  <2>2. doc' = [doc EXCEPT ![d] = out] /\ token' = Nobody
    BY <1>3, <2>0 DEF Logout
  <2>3. doc'[d] = out
    BY <1>1, <2>2 DEF PagesOK
  <2> QED
    BY <1>1, <2>1, <2>2, <2>3, DocumentsAreOpened DEF Inv, PagesOK, Opened, TokenIsUsed
<1>4. CASE Guard(d) \/ (\E p \in Paths : Visit(d, p))
  <2>1. PICK q \in Paths : doc' = [doc EXCEPT ![d].path = q] /\ token' = token
    BY <1>4 DEF Guard, Visit, Paths
  <2>2. [doc[d] EXCEPT !.path = q] \in Document
    BY <1>2 DEF Document
  <2>3. doc'[d] = [doc[d] EXCEPT !.path = q]
    BY <1>1, <2>1 DEF PagesOK
  <2>4. doc'[d].user = doc[d].user /\ doc'[d].loading = doc[d].loading
    BY <1>2, <2>3 DEF Document
  <2>5. doc' \in [Docs -> Document \union {Unopened}]
    BY <1>1, <2>1, <2>2 DEF PagesOK
  <2>6. PagesOK'
    BY <1>1, <2>1, <2>2, <2>3, <2>5, DocumentsAreOpened DEF PagesOK, Opened
  <2> QED
    BY <1>1, <2>1, <2>4, <2>6 DEF Inv, TokenIsUsed
<1> QED
  BY <1>3, <1>4

\* A document that is loaded or restored is loading, if there is a token that
\* it does not show the user of.
LEMMA DocumentsKeepInv ==
    ASSUME Inv, NEW d \in Docs, Restore(d) \/ (\E p \in Paths : Open(d, p))
    PROVE  Inv'
<1>1. PagesOK /\ active' = d /\ token' = token
  BY DEF Inv, Restore, Open
<1>2. CASE \E p \in Paths : Open(d, p)
  <2>1. PICK p \in Paths : doc' = [doc EXCEPT ![d] = Loaded(p)]
    BY <1>2 DEF Open
  <2>2. Loaded(p) \in Document
    BY <1>1, LoadedIsDocument
  <2>3. doc'[d] = Loaded(p)
    BY <1>1, <2>1 DEF PagesOK
  <2>4. doc' \in [Docs -> Document \union {Unopened}]
    BY <1>1, <2>1, <2>2 DEF PagesOK
  <2>5. PagesOK'
    BY <1>1, <2>2, <2>3, <2>4, DocumentsAreOpened DEF PagesOK, Opened
  <2>6. (~Loaded(p).loading) => token = Nobody
    BY LoadedIsLoading
  <2>7. TokenIsUsed'
    BY <1>1, <2>3, <2>6 DEF TokenIsUsed
  <2> QED
    BY <2>5, <2>7 DEF Inv
<1>3. CASE Restore(d)
  <2>1. Opened(d)
    BY <1>3 DEF Restore
  <2>2. doc[d] \in Document
    BY <1>1, <2>1, OpenedIsDocument
  <2>3. CASE token = Nobody /\ Shows(d, Nobody)
    <3>1. /\ doc' \in [Docs -> Document \union {Unopened}]
          /\ doc'[d] \in Document
      BY <1>1, <2>1, <2>3, ShowsKeepsForm
    <3> QED
      BY <1>1, <2>3, <3>1, DocumentsAreOpened DEF Inv, PagesOK, Opened, TokenIsUsed
  <2>4. CASE doc[d].user # Nobody /\ UNCHANGED doc
    BY <1>1, <2>1, <2>4 DEF Inv, PagesOK, Opened, TokenIsUsed
  <2>5. CASE doc' = [doc EXCEPT ![d].loading = TRUE]
    <3>1. [doc[d] EXCEPT !.loading = TRUE] \in Document
      BY <2>2 DEF Document
    <3>2. doc'[d] = [doc[d] EXCEPT !.loading = TRUE]
      BY <1>1, <2>5 DEF PagesOK
    <3>3. doc' \in [Docs -> Document \union {Unopened}]
      BY <1>1, <2>5, <3>1 DEF PagesOK
    <3>4. doc'[d].loading = TRUE
      BY <2>2, <3>2 DEF Document
    <3>5. PagesOK'
      BY <1>1, <3>1, <3>2, <3>3, DocumentsAreOpened DEF PagesOK, Opened
    <3> QED
      BY <1>1, <3>4, <3>5 DEF Inv, TokenIsUsed
  <2> QED
    BY <1>3, <2>3, <2>4, <2>5 DEF Restore
<1> QED
  BY <1>2, <1>3

\* Every step keeps the invariant.
LEMMA NextInv == ASSUME WebSessionAssumption, Inv, [Next]_vars PROVE Inv'
<1>1. CASE Next
  <2>1. PICK d \in Docs :
          \/ \E u \in Users : Submit(d, u) \/ Answer(d, u)
          \/ Logout(d) \/ Guard(d) \/ Restore(d)
          \/ \E p \in Paths : Visit(d, p) \/ Open(d, p)
    BY <1>1 DEF Next
  <2>2. CASE \E u \in Users : Submit(d, u)
    BY <2>2 DEF Submit, Inv, PagesOK, Opened, TokenIsUsed
  <2>3. CASE \E u \in Users : Answer(d, u)
    BY <2>3, AnswersKeepInv
  <2>4. CASE Logout(d) \/ Guard(d) \/ \E p \in Paths : Visit(d, p)
    BY <2>4, MovesKeepInv
  <2>5. CASE Restore(d) \/ \E p \in Paths : Open(d, p)
    BY <2>5, DocumentsKeepInv
  <2> QED
    BY <2>1, <2>2, <2>3, <2>4, <2>5
<1>2. CASE UNCHANGED vars
  BY <1>2 DEF vars, Inv, PagesOK, Opened, TokenIsUsed
<1> QED
  BY <1>1, <1>2

\* A token in the storage comes with a user on the page that is shown, once it
\* has finished loading (AuthProvider).
THEOREM TokensAreUsed == Spec => []TokenIsUsed
<1>1. Init => Inv
  BY InitInv
<1>2. Inv /\ [Next]_vars => Inv'
  BY NextInv, WebSessionAssumption
<1>3. Inv => TokenIsUsed
  BY DEF Inv
<1> QED
  BY <1>1, <1>2, <1>3, PTL DEF Spec

\* A step that makes a page without a token signed in is a late answer of /me.
LEMMA GhostStep ==
    ASSUME Inv, [Next]_vars, Ghost', ~Ghost
    PROVE  \E u \in Users : MeOk(active, u)
<1>1. CASE Next
  <2>1. PICK d \in Docs :
          \/ \E u \in Users : Submit(d, u) \/ Answer(d, u)
          \/ Logout(d) \/ Guard(d) \/ Restore(d)
          \/ \E p \in Paths : Visit(d, p) \/ Open(d, p)
    BY <1>1 DEF Next
  <2>2. PagesOK
    BY DEF Inv
  <2>3. ~(\E u \in Users : Submit(d, u) \/ LoginFailed(d, u))
    BY DEF Submit, LoginFailed, Ghost
  <2>4. ~(\E u \in Users : LoginOk(d, u))
    BY WebSessionAssumption DEF LoginOk, Ghost, WebSessionAssumption
  <2>5. ~(\E u \in Users : MeFailed(d, u))
    <3> SUFFICES ASSUME NEW u \in Users, MeFailed(d, u) PROVE FALSE
      OBVIOUS
    <3>1. Shows(d, Nobody) /\ active' = d /\ Opened(d)
      BY <2>2 DEF MeFailed, Answered, PagesOK
    <3>2. doc'[d].user = Nobody
      BY <2>2, <3>1, ShowsKeepsForm
    <3> QED
      BY <3>1, <3>2 DEF Ghost
  <2>6. ~Logout(d)
    BY <2>2 DEF Logout, Ghost, PagesOK
  <2>7. ~(Guard(d) \/ \E p \in Paths : Visit(d, p))
    <3> SUFFICES ASSUME Guard(d) \/ \E p \in Paths : Visit(d, p) PROVE FALSE
      OBVIOUS
    <3>1. /\ active = d /\ active' = d /\ token' = token /\ Opened(d)
      BY <2>2 DEF Guard, Visit, PagesOK
    <3>2. doc[d] \in Document
      BY <2>2, <3>1, OpenedIsDocument
    <3>3. PICK q \in Paths : doc' = [doc EXCEPT ![d].path = q]
      BY DEF Guard, Visit, Paths
    <3>4. doc'[d].user = doc[d].user
      BY <2>2, <3>2, <3>3 DEF PagesOK, Document
    <3> QED
      BY <3>1, <3>4 DEF Ghost
  <2>8. ~(\E p \in Paths : Open(d, p))
    BY <2>2 DEF Open, Loaded, Ghost, PagesOK
  <2>9. ~Restore(d)
    <3> SUFFICES ASSUME Restore(d), token = Nobody PROVE FALSE
      BY DEF Ghost, Restore
    <3>1. Shows(d, Nobody) /\ active' = d /\ Opened(d)
      BY DEF Restore
    <3>2. doc'[d].user = Nobody
      BY <2>2, <3>1, ShowsKeepsForm
    <3> QED
      BY <3>1, <3>2 DEF Ghost
  <2>10. \E u \in Users : MeOk(d, u)
    BY <2>1, <2>3, <2>4, <2>5, <2>6, <2>7, <2>8, <2>9 DEF Answer
  <2> QED
    BY <2>10 DEF MeOk, Answered
<1>2. CASE UNCHANGED vars
  BY <1>2 DEF vars, Ghost
<1> QED
  BY <1>1, <1>2

\* Signing out, going back, loading and failing never leave a page signed in
\* without a token: only an answer asked for before the sign-out does.
THEOREM GhostsAreLateAnswers == Spec => OnlyLateAnswersHaunt
<1>1. Init => Inv
  BY InitInv
<1>2. Inv /\ [Next]_vars => Inv'
  BY NextInv, WebSessionAssumption
<1>3. Inv /\ [Next]_vars => [Ghost' /\ ~Ghost => \E u \in Users : MeOk(active, u)]_vars
  BY GhostStep
<1> QED
  BY <1>1, <1>2, <1>3, PTL DEF Spec, OnlyLateAnswersHaunt
=============================================================================
