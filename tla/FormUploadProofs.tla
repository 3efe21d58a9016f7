-------------------------- MODULE FormUploadProofs --------------------------
(***************************************************************************)
(* Proofs about FormUpload, for any number of uploads, fields and options: *)
(* a request has one answer, the deferred object agrees with it, an error  *)
(* is final, $.active counts the requests under way, and what is sent is   *)
(* what was validated.                                                     *)
(*                                                                         *)
(* For the answers every upload is looked at alone (Well).  An upload that *)
(* is Open has not been answered at all; all answers but those of an abort *)
(* by the page need an open upload and close it for good.  Events come     *)
(* only after the form was submitted (Quiet), so they cannot reach an      *)
(* upload that was vetoed, whose promise is rejected although nothing was  *)
(* answered.                                                               *)
(*                                                                         *)
(* The counter is a set's size (CountInv): no step but Opened makes one    *)
(* more upload hold a request, and none but the answer of an upload that   *)
(* holds one decrements it (Counted).  What is sent depends on the form    *)
(* between validation and submission (Reads): as long as nobody disturbed  *)
(* an upload, the browser would send from the form as it is now what       *)
(* formToArray took (SentIs, FrameSends).                                  *)
(***************************************************************************)
EXTENDS FormUpload, FiniteSetTheorems, SequenceTheorems, TLAPS

Fields ==
  {"phase", "validated", "extra", "sent", "aborted", "processed", "timer", "polling",
   "requeued", "listening", "attached", "cleanup", "inflight", "doc", "loads",
   "domChecks", "success", "errors", "complete", "deferred", "aborts"}

Open(w) == ~w.aborted /\ ~w.processed /\ w.phase \notin {"vetoed", "answered"}

(* Nothing can call cb                                                     *)
Quiet(w) == w.loads = 0 /\ ~w.timer /\ ~w.polling /\ ~w.requeued /\ ~w.listening

OneAnswerOf(w) ==
  /\ w.complete = w.success + w.errors
  /\ w.complete <= 1 + w.aborts
  /\ w.success <= 1

DeferredAgreesOf(w) ==
  /\ w.deferred = "resolved" <=> w.success = 1
  /\ w.deferred = "rejected" => w.errors > 0 \/ w.phase = "vetoed"
  /\ w.errors > w.aborts => w.deferred = "rejected"

Counts(w) ==
  /\ w.success \in Nat /\ w.errors \in Nat /\ w.complete \in Nat /\ w.aborts \in Nat
  /\ w.deferred \in {"pending", "resolved", "rejected"}

Unanswered(w) == w.success = 0 /\ w.errors = 0 /\ w.complete = 0 /\ w.deferred = "pending"

Well(w) ==
  /\ DOMAIN w = Fields
  /\ Counts(w) /\ OneAnswerOf(w) /\ DeferredAgreesOf(w)
  /\ Open(w) => Unanswered(w)
  /\ w.phase # "submitted" => Quiet(w)
  /\ w.phase \in {"idle", "keepAlive", "ajax"} => Open(w)

(* What a step may do to an upload                                         *)
Moves(w, x) == Well(x) /\ (w.errors > 0 => x.success = w.success)

UploadInv == DOMAIN up = Uploads /\ \A u \in Uploads : Well(up[u])

-----------------------------------------------------------------------------
LEMMA IdleWell == Well(Idle)
  BY DEF Well, Idle, Fields, Counts, OneAnswerOf, DeferredAgreesOf, Open, Unanswered, Quiet

(* An abort of an open upload by cb, and any abort by the page             *)
LEMMA AbortWell ==
  ASSUME NEW w, Well(w), Open(w), w.phase = "submitted"
  PROVE  Moves(w, Settle(abort(w), "rejected"))
  BY DEF Moves, Well, Fields, Counts, OneAnswerOf, DeferredAgreesOf, Open, Unanswered,
         Quiet, Settle, abort

LEMMA UserAbortWell ==
  ASSUME NEW w, Well(w), w.phase \in {"ready", "submitted"}
  PROVE  Moves(w, abort([w EXCEPT !.aborts = @ + 1]))
  BY DEF Moves, Well, Fields, Counts, OneAnswerOf, DeferredAgreesOf, Open, Unanswered,
         Quiet, abort

LEMMA AnsweredWell ==
  ASSUME NEW w, Well(w), Open(w), w.phase = "submitted", NEW ok \in BOOLEAN
  PROVE  Moves(w, [Answered(w, ok) EXCEPT
                     !.listening = FALSE, !.loads = 0, !.processed = TRUE,
                     !.timer = FALSE, !.cleanup = TRUE])
  BY DEF Moves, Well, Fields, Counts, OneAnswerOf, DeferredAgreesOf, Open, Unanswered,
         Quiet, Settle, Answered

(* cb, whatever called it                                                  *)
LEMMA CbMoves ==
  ASSUME NEW u \in Uploads, NEW w, Well(w), w.phase = "submitted",
         NEW e \in {"load", "timeout", "server"}, cb(u, w, e)
  PROVE  \E x : up' = [up EXCEPT ![u] = x] /\ Moves(w, x)
<1>1. CASE cbIgnores(w) \/ (w.doc = "blank" /\ e = "load")
  <2>1. up' = [up EXCEPT ![u] = w]
    BY <1>1 DEF cb
  <2>2. Moves(w, w)
    BY DEF Moves
  <2> QED
    BY <2>1, <2>2
<1>2. CASE /\ ~(cbIgnores(w) \/ (w.doc = "blank" /\ e = "load"))
           /\ w.doc = "denied" \/ e # "load"
  <2>1. up' = [up EXCEPT ![u] = Settle(abort(w), "rejected")]
    BY <1>2 DEF cb
  <2>2. Open(w)
    BY <1>2 DEF cbIgnores, Open
  <2> QED
    BY <2>1, <2>2, AbortWell
<1>3. CASE /\ ~(cbIgnores(w) \/ (w.doc = "blank" /\ e = "load"))
           /\ ~(w.doc = "denied" \/ e # "load")
  <2>1. Open(w)
    BY <1>3 DEF cbIgnores, Open
  <2>2. CASE w.doc = "empty" /\ browser.opera /\ w.domChecks > 1
    <3> DEFINE x == [w EXCEPT !.listening = FALSE, !.loads = 0,
                              !.requeued = TRUE, !.domChecks = @ - 1]
    <3>1. up' = [up EXCEPT ![u] = x]
      BY <1>3, <2>2 DEF cb
    <3>2. Moves(w, x)
      BY DEF Moves, Well, Fields, Counts, OneAnswerOf, DeferredAgreesOf, Open,
             Unanswered, Quiet
    <3> QED
      BY <3>1, <3>2
  <2>3. CASE ~(w.doc = "empty" /\ browser.opera /\ w.domChecks > 1)
    <3> DEFINE ok == w.doc \in {"good", "empty"}
               x == [Answered(w, ok) EXCEPT
                       !.listening = FALSE, !.loads = 0, !.processed = TRUE,
                       !.timer = FALSE, !.cleanup = TRUE]
    <3>1. up' = [up EXCEPT ![u] = x]
      BY <1>3, <2>3 DEF cb
    <3>2. ok \in BOOLEAN
      OBVIOUS
    <3>3. Moves(w, x)
      <4> HIDE DEF ok
      <4> QED
        BY <2>1, <3>2, AnsweredWell
    <3> QED
      BY <3>1, <3>3
  <2> QED
    BY <2>2, <2>3
<1> QED
  BY <1>1, <1>2, <1>3

(* A step that only takes a pending event from an upload                   *)
LEMMA EventWell ==
  ASSUME NEW w, Well(w), w.phase = "submitted", NEW x,
         \/ x = [w EXCEPT !.loads = @ - 1]
         \/ x = [w EXCEPT !.requeued = FALSE]
         \/ x = [w EXCEPT !.timer = FALSE]
         \/ x = [w EXCEPT !.polling = FALSE]
         \/ x = [w EXCEPT !.polling = FALSE, !.timer = FALSE]
  PROVE  /\ Well(x) /\ x.phase = "submitted"
         /\ x.errors = w.errors /\ x.success = w.success
<1> USE DEF Well, Fields, Counts, OneAnswerOf, DeferredAgreesOf, Open, Unanswered, Quiet
<1>1. CASE x = [w EXCEPT !.loads = @ - 1]
  BY <1>1
<1>2. CASE x = [w EXCEPT !.requeued = FALSE]
  BY <1>2
<1>3. CASE x = [w EXCEPT !.timer = FALSE]
  BY <1>3
<1>4. CASE x = [w EXCEPT !.polling = FALSE]
  BY <1>4
<1>5. CASE x = [w EXCEPT !.polling = FALSE, !.timer = FALSE]
  BY <1>5
<1> QED
  BY <1>1, <1>2, <1>3, <1>4, <1>5

(* doSubmit, also of an upload that was aborted                            *)
LEMMA SubmittedWell ==
  ASSUME NEW u \in Uploads, NEW w, Well(w), w.phase = "ready", NEW f
  PROVE  Moves(w, Submitted(u, w, f))
  BY DEF Moves, Well, Fields, Counts, OneAnswerOf, DeferredAgreesOf, Open, Unanswered,
         Quiet, Submitted

(* fileUploadIframe of an upload that has only been validated              *)
LEMMA FrameMoves ==
  ASSUME NEW u \in Uploads, NEW w, Well(w), w.phase \in {"idle", "keepAlive"},
         NEW f, NEW by, fileUploadIframe(u, w, f, by)
  PROVE  \E x : up' = [up EXCEPT ![u] = x] /\ Moves(w, x)
<1> DEFINE ready == [w EXCEPT !.phase = "ready", !.extra = Clicked(f, by)]
           vetoed == Settle([w EXCEPT !.phase = "vetoed"], "rejected")
           aborted == Settle(abort([w EXCEPT !.phase = "vetoed", !.aborts = @ + 1]), "rejected")
<1>1. Well(ready) /\ ready.phase = "ready" /\ ready.errors = w.errors
      /\ ready.success = w.success
  BY DEF Well, Fields, Counts, OneAnswerOf, DeferredAgreesOf, Open, Unanswered, Quiet
<1>2. Moves(w, ready)
  BY <1>1 DEF Moves
<1>3. Moves(w, Submitted(u, ready, f))
  <2> HIDE DEF ready
  <2> QED
    BY <1>1, SubmittedWell DEF Moves
<1>4. Moves(w, vetoed)
  BY DEF Moves, Well, Fields, Counts, OneAnswerOf, DeferredAgreesOf, Open, Unanswered,
         Quiet, Settle
<1>5. Moves(w, aborted)
  BY DEF Moves, Well, Fields, Counts, OneAnswerOf, DeferredAgreesOf, Open, Unanswered,
         Quiet, Settle, abort
<1>6. \/ up' = [up EXCEPT ![u] = ready]
      \/ up' = [up EXCEPT ![u] = Submitted(u, ready, f)]
      \/ up' = [up EXCEPT ![u] = vetoed]
      \/ up' = [up EXCEPT ![u] = aborted]
  BY DEF fileUploadIframe
<1> QED
  BY <1>2, <1>3, <1>4, <1>5, <1>6

(* Only one upload changes in a step, and as it may                        *)
OneMoves == \E u \in Uploads : \E x : up' = [up EXCEPT ![u] = x] /\ Moves(up[u], x)

LEMMA StepMoves ==
  ASSUME UploadInv, [Next]_vars
  PROVE  OneMoves \/ up' = up
<1> USE DEF UploadInv
<1>1. ASSUME NEW u \in Uploads, Veto(u) PROVE OneMoves
  <2> DEFINE x == [up[u] EXCEPT !.phase = "vetoed"]
  <2>1. up' = [up EXCEPT ![u] = x]
    BY <1>1 DEF Veto
  <2>2. up[u].phase = "idle" /\ Well(up[u])
    BY <1>1 DEF Veto, Starting
  <2>3. Moves(up[u], x)
    BY <2>2 DEF Moves, Well, Fields, Counts, OneAnswerOf, DeferredAgreesOf, Open,
                Unanswered, Quiet
  <2> QED
    BY <2>1, <2>3 DEF OneMoves
<1>2. ASSUME NEW u \in Uploads, SubmitFrame(u) PROVE OneMoves
  <2> DEFINE w == [up[u] EXCEPT !.validated = formToArray(form, clk', browser.fileApi)]
             f == enableSerialized(AfterBeforeSubmit(u), Serialized(form, clk'))
  <2>1. up[u].phase = "idle" /\ Well(up[u])
    BY <1>2 DEF SubmitFrame, Starting
  <2>2. Well(w) /\ w.phase = "idle" /\ w.errors = up[u].errors /\ w.success = up[u].success
    BY <2>1 DEF Well, Fields, Counts, OneAnswerOf, DeferredAgreesOf, Open, Unanswered, Quiet
  <2>3. fileUploadIframe(u, w, f, clk')
    BY <1>2 DEF SubmitFrame
  <2> HIDE DEF w, f
  <2>4. PICK x : up' = [up EXCEPT ![u] = x] /\ Moves(w, x)
    BY <2>2, <2>3, FrameMoves
  <2> QED
    BY <2>2, <2>4 DEF OneMoves, Moves
<1>3. ASSUME NEW u \in Uploads, SubmitKeepAlive(u) PROVE OneMoves
  <2> DEFINE x == [up[u] EXCEPT !.phase = "keepAlive",
                                !.validated = formToArray(form, clk', browser.fileApi)]
  <2>1. up' = [up EXCEPT ![u] = x]
    BY <1>3 DEF SubmitKeepAlive
  <2>2. up[u].phase = "idle" /\ Well(up[u])
    BY <1>3 DEF SubmitKeepAlive, Starting
  <2>3. Moves(up[u], x)
    BY <2>2 DEF Moves, Well, Fields, Counts, OneAnswerOf, DeferredAgreesOf, Open,
                Unanswered, Quiet
  <2> QED
    BY <2>1, <2>3 DEF OneMoves
<1>4. ASSUME NEW u \in Uploads, SubmitAjax(u) PROVE OneMoves
  <2> DEFINE a == formToArray(form, clk', browser.fileApi)
             b == IF HasFiles(u) /\ browser.fileApi THEN a ELSE param(a, form)
             x == [up[u] EXCEPT !.phase = "ajax", !.validated = a, !.sent = b]
  <2>1. up' = [up EXCEPT ![u] = x]
    BY <1>4 DEF SubmitAjax
  <2>2. up[u].phase = "idle" /\ Well(up[u])
    BY <1>4 DEF SubmitAjax, Starting
  <2>3. Moves(up[u], x)
    BY <2>2 DEF Moves, Well, Fields, Counts, OneAnswerOf, DeferredAgreesOf, Open,
                Unanswered, Quiet
  <2> QED
    BY <2>1, <2>3 DEF OneMoves
<1>5. ASSUME NEW u \in Uploads, Answer(u) PROVE OneMoves
  <2>1. PICK ok \in BOOLEAN : AjaxAnswers(u, ok)
    BY <1>5 DEF Answer
  <2> DEFINE x == [Answered(up[u], ok) EXCEPT !.phase = "answered"]
  <2>2. up' = [up EXCEPT ![u] = x]
    BY <2>1 DEF AjaxAnswers
  <2>3. up[u].phase = "ajax" /\ Well(up[u])
    BY <2>1 DEF AjaxAnswers
  <2>4. Moves(up[u], x)
    BY <2>3 DEF Moves, Well, Fields, Counts, OneAnswerOf, DeferredAgreesOf, Open,
                Unanswered, Quiet, Settle, Answered
  <2> QED
    BY <2>2, <2>4 DEF OneMoves
<1>6. ASSUME NEW u \in Uploads, KeepAliveAnswers(u) PROVE OneMoves
  BY <1>6, FrameMoves DEF KeepAliveAnswers, OneMoves
<1>7. ASSUME NEW u \in Uploads, doSubmit(u) PROVE OneMoves
  BY <1>7, SubmittedWell DEF doSubmit, OneMoves
<1>8. ASSUME NEW u \in Uploads, UserAbort(u) PROVE OneMoves
  BY <1>8, UserAbortWell DEF UserAbort, OneMoves
<1>9. ASSUME NEW u \in Uploads, NEW doc, Responds(u, doc) PROVE OneMoves
  <2> DEFINE x == [up[u] EXCEPT !.inflight = FALSE, !.doc = doc,
                                !.loads = IF up[u].listening THEN @ + 1 ELSE @]
  <2>1. up' = [up EXCEPT ![u] = x]
    BY <1>9 DEF Responds
  <2>2. Moves(up[u], x)
    BY DEF Moves, Well, Fields, Counts, OneAnswerOf, DeferredAgreesOf, Open,
           Unanswered, Quiet
  <2> QED
    BY <2>1, <2>2 DEF OneMoves
<1>10. ASSUME NEW u \in Uploads, NEW w, NEW e \in {"load", "timeout", "server"},
              up[u].phase = "submitted", cb(u, w, e),
              \/ w = [up[u] EXCEPT !.loads = @ - 1]
              \/ w = [up[u] EXCEPT !.requeued = FALSE]
              \/ w = [up[u] EXCEPT !.timer = FALSE]
              \/ w = [up[u] EXCEPT !.polling = FALSE, !.timer = FALSE]
       PROVE  OneMoves
  <2>1. /\ Well(w) /\ w.phase = "submitted"
        /\ w.errors = up[u].errors /\ w.success = up[u].success
    BY <1>10, EventWell
  <2>2. PICK x : up' = [up EXCEPT ![u] = x] /\ Moves(w, x)
    BY <1>10, <2>1, CbMoves
  <2> QED
    BY <2>1, <2>2 DEF OneMoves, Moves
<1>11. ASSUME NEW u \in Uploads, Load(u) PROVE OneMoves
  <2> DEFINE w == [up[u] EXCEPT !.loads = @ - 1]
  <2>1. up[u].phase = "submitted"
    BY <1>11 DEF Load, Well, Quiet
  <2>2. cb(u, w, "load")
    BY <1>11 DEF Load
  <2> QED
    BY <2>1, <2>2, <1>10
<1>12. ASSUME NEW u \in Uploads, RequeuedLoad(u) PROVE OneMoves
  BY <1>12, <1>10 DEF RequeuedLoad, Well, Quiet
<1>13. ASSUME NEW u \in Uploads, TimeoutFires(u) PROVE OneMoves
  BY <1>13, <1>10 DEF TimeoutFires, Well, Quiet
<1>14. ASSUME NEW u \in Uploads, checkState(u) PROVE OneMoves \/ up' = up
  <2>1. up[u].phase = "submitted"
    BY <1>14 DEF checkState, Well, Quiet
  <2>2. CASE up' = [up EXCEPT ![u].polling = FALSE]
    <3> DEFINE x == [up[u] EXCEPT !.polling = FALSE]
    <3>1. up' = [up EXCEPT ![u] = x]
      BY <2>2
    <3>2. Moves(up[u], x)
      BY <2>1, EventWell DEF Moves
    <3> QED
      BY <3>1, <3>2 DEF OneMoves
  <2>3. CASE cb(u, [up[u] EXCEPT !.polling = FALSE, !.timer = FALSE], "server")
    BY <2>1, <2>3, <1>10
  <2> QED
    BY <1>14, <2>2, <2>3 DEF checkState
<1>15. ASSUME NEW u \in Uploads, Cleanup(u) PROVE OneMoves
  <2> DEFINE x == [up[u] EXCEPT !.cleanup = FALSE, !.attached = FALSE]
  <2>1. up' = [up EXCEPT ![u] = x]
    BY <1>15 DEF Cleanup
  <2>2. Moves(up[u], x)
    BY DEF Moves, Well, Fields, Counts, OneAnswerOf, DeferredAgreesOf, Open,
           Unanswered, Quiet
  <2> QED
    BY <2>1, <2>2 DEF OneMoves
<1>16. CASE ClearClk \/ PageEnables \/ \E e \in Elements : Edit(e)
  BY <1>16 DEF ClearClk, PageEnables, Edit
<1>17. CASE UNCHANGED vars
  BY <1>17 DEF vars
<1> QED
  BY <1>1, <1>2, <1>3, <1>4, <1>5, <1>6, <1>7, <1>8, <1>9, <1>11, <1>12, <1>13, <1>14,
     <1>15, <1>16, <1>17 DEF Next, Submit

LEMMA UploadStart == Init => UploadInv
  BY IdleWell DEF Init, UploadInv

LEMMA UploadStep == UploadInv /\ [Next]_vars => UploadInv'
<1> SUFFICES ASSUME UploadInv, [Next]_vars PROVE UploadInv'
  OBVIOUS
<1>1. CASE OneMoves
  BY <1>1 DEF OneMoves, UploadInv, Moves
<1>2. CASE up' = up
  BY <1>2 DEF UploadInv
<1> QED
  BY <1>1, <1>2, StepMoves

-----------------------------------------------------------------------------
(* The fields: what a form may be, and what the page and the plugin do to  *)
(* it.                                                                     *)

FormTyped(f) ==
  /\ f \in [Elements -> [val : Seq(Texts), disabled : BOOLEAN]]
  /\ ~browser.fileApi => \A e \in Elements : Type[e] = "file" => Len(f[e].val) <= 1

LEMMA EnableTyped ==
  ASSUME NEW f, FormTyped(f), NEW S, NEW b \in BOOLEAN
  PROVE  FormTyped(enable(f, S, b))
<1> DEFINE g == enable(f, S, b)
<1>1. ASSUME NEW e \in Elements
      PROVE  g[e].val = f[e].val /\ g[e] \in [val : Seq(Texts), disabled : BOOLEAN]
  BY DEF enable, FormTyped
<1>2. g = [e \in Elements |-> g[e]]
  BY DEF enable
<1> HIDE DEF g
<1>3. g \in [Elements -> [val : Seq(Texts), disabled : BOOLEAN]]
  BY <1>1, <1>2
<1>4. FormTyped(g)
  BY <1>1, <1>3 DEF FormTyped
<1> QED
  BY <1>4 DEF g

LEMMA OneElement ==
  ASSUME NEW S, NEW x \in S
  PROVE  << x >> \in Seq(S)
  OBVIOUS

LEMMA Strings ==
  /\ << >> \in Seq(Texts) /\ Len(<< >>) = 0
  /\ << "" >> \in Seq(Texts) /\ << "typed" >> \in Seq(Texts)
  /\ \A e \in Elements : Initial[e] \in Seq(Texts)
<1>1. << >> \in Seq(Texts) /\ Len(<< >>) = 0
  OBVIOUS
<1>2. << "" >> \in Seq(Texts) /\ << "typed" >> \in Seq(Texts)
  <2>1. "" \in Texts /\ "typed" \in Texts
    BY DEF Texts
  <2> QED
    BY <2>1, OneElement
<1>3. ASSUME NEW e \in Elements PROVE Initial[e] \in Seq(Texts)
  <2>1. Initial[e] \in Seq(STRING)
    BY FieldsAssumption
  <2>2. ASSUME NEW i \in 1 .. Len(Initial[e]) PROVE Initial[e][i] \in Texts
    <3>1. Initial[e][i] \in {Initial[e][j] : j \in DOMAIN Initial[e]}
      BY <2>1
    <3> QED
      BY <3>1 DEF Texts
  <2> QED
    BY <2>1, <2>2
<1> QED
  BY <1>1, <1>2, <1>3

LEMMA OneFile ==
  ASSUME NEW v \in Seq(Texts), v # << >>, Len(v) <= 1
  PROVE  << Head(v) >> = v
<1>0. Len(v) \in Nat \ {0}
  BY EmptySeq
<1>1. Len(v) = 1 /\ DOMAIN v = 1 .. 1 /\ Head(v) = v[1]
  BY <1>0
<1>2. v = [i \in 1 .. 1 |-> v[i]]
  BY <1>1
<1>3. << Head(v) >> = [i \in 1 .. 1 |-> v[i]]
  BY <1>1
<1> QED
  BY <1>2, <1>3

LEMMA ClearTyped ==
  ASSUME NEW f, FormTyped(f), NEW h
  PROVE  FormTyped(clearForm(f, h))
<1> DEFINE g == clearForm(f, h)
<1>1. ASSUME NEW e \in Elements
      PROVE  /\ g[e] \in [val : Seq(Texts), disabled : BOOLEAN]
             /\ Type[e] = "file" => Len(g[e].val) = 0
  <2>1. f[e] \in [val : Seq(Texts), disabled : BOOLEAN]
    BY DEF FormTyped
  <2>2. /\ [f[e] EXCEPT !.val = << "" >>] \in [val : Seq(Texts), disabled : BOOLEAN]
        /\ [f[e] EXCEPT !.val = << >>] \in [val : Seq(Texts), disabled : BOOLEAN]
        /\ Len([f[e] EXCEPT !.val = << >>].val) = 0
    BY <2>1, Strings
  <2>3. \/ Type[e] # "file" /\ g[e] \in {[f[e] EXCEPT !.val = << "" >>],
                                         [f[e] EXCEPT !.val = << >>], f[e]}
        \/ Type[e] = "file" /\ g[e] = [f[e] EXCEPT !.val = << >>]
    BY DEF clearForm
  <2> QED
    BY <2>1, <2>2, <2>3
<1>2. g = [e \in Elements |-> g[e]]
  BY DEF clearForm
<1> HIDE DEF g
<1>3. g \in [Elements -> [val : Seq(Texts), disabled : BOOLEAN]]
  BY <1>1, <1>2
<1>4. FormTyped(g)
  BY <1>1, <1>3 DEF FormTyped
<1> QED
  BY <1>4 DEF g

LEMMA ResetTyped ==
  ASSUME NEW f, FormTyped(f)
  PROVE  FormTyped(resetForm(f))
<1> DEFINE g == resetForm(f)
<1>1. ASSUME NEW e \in Elements
      PROVE  /\ g[e] \in [val : Seq(Texts), disabled : BOOLEAN]
             /\ Type[e] = "file" => Len(g[e].val) = 0
  <2>1. f[e] \in [val : Seq(Texts), disabled : BOOLEAN]
    BY DEF FormTyped
  <2>2. /\ Type[e] = "file" => g[e] = [f[e] EXCEPT !.val = << >>]
        /\ Type[e] # "file" => g[e] = [f[e] EXCEPT !.val = Initial[e]]
    BY DEF resetForm
  <2> QED
    BY <2>1, <2>2, Strings
<1>2. g = [e \in Elements |-> g[e]]
  BY DEF resetForm
<1> HIDE DEF g
<1>3. g \in [Elements -> [val : Seq(Texts), disabled : BOOLEAN]]
  BY <1>1, <1>2
<1>4. FormTyped(g)
  BY <1>1, <1>3 DEF FormTyped
<1> QED
  BY <1>4 DEF g

LEMMA AfterSuccessTyped ==
  ASSUME FormTyped(form), NEW u
  PROVE  FormTyped(AfterSuccess(u))
<1>1. FormTyped(resetForm(form))
  BY ResetTyped
<1> QED
  BY <1>1, ClearTyped DEF AfterSuccess

(* The two ways to read a form agree: what formToArray takes from the form *)
(* g, with c clicked, is what the browser sends for f and the submitting   *)
(* element adds, when f has the values of g, disables what g disables and  *)
(* nothing more that formToArray took in.                                  *)
LEMMA SentIs ==
  ASSUME NEW f, NEW g, FormTyped(f), FormTyped(g), NEW c \in Buttons \cup {NONE},
         \A e \in Elements : f[e].val = g[e].val,
         \A e \in Elements : g[e].disabled => f[e].disabled,
         \A e \in Elements : Type[e] = "image" \/ e \in Serialized(g, c)
                               => (f[e].disabled <=> g[e].disabled)
  PROVE  BrowserPairs(f) \cup Clicked(f, c) = formToArray(g, c, browser.fileApi)
<1> DEFINE Values(e) == ElementValues(g, c, browser.fileApi, e)
           Sends(e) == IF Type[e] = "file" /\ f[e].val = << >> THEN << "" >> ELSE f[e].val
           Browsed == {e \in Elements \ Buttons : /\ Type[e] # "button" /\ Name[e] # ""
                                                  /\ ~f[e].disabled}
           Taken == {d \in Elements : Type[d] # "image"}
           AllTaken == FieldPairs(g, c, browser.fileApi)
<1>s. PICK AllSent : AllSent = UNION {Pairs(e, Sends(e)) : e \in Browsed}
  OBVIOUS
<1>v. \A e : Values(e) = IF Type[e] = "file" /\ Name[e] # "" /\ ~g[e].disabled
                          THEN FileValues(g, e, browser.fileApi) ELSE fieldValue(g, c, e)
  BY DEF ElementValues
<1>0. NONE \notin Elements /\ Buttons \subseteq Elements
  BY FieldsAssumption DEF Buttons
<1>1. BrowserPairs(f) = AllSent
  BY <1>s DEF BrowserPairs
<1>2. /\ c # NONE /\ Type[c] = "image"
           => formToArray(g, c, browser.fileApi) = AllTaken \cup Clicked(g, c)
      /\ ~(c # NONE /\ Type[c] = "image") => formToArray(g, c, browser.fileApi) = AllTaken
  <2> DEFINE Click == IF c # NONE /\ Type[c] = "image" THEN Clicked(g, c) ELSE {}
  <2>1. formToArray(g, c, browser.fileApi) = AllTaken \cup Click
    BY DEF formToArray
  <2>2. /\ c # NONE /\ Type[c] = "image" => Click = Clicked(g, c)
        /\ ~(c # NONE /\ Type[c] = "image") => Click = {}
    OBVIOUS
  <2> HIDE DEF Click
  <2> QED
    BY <2>1, <2>2
<1>3. ASSUME NEW e \in Elements PROVE g[e].val \in Seq(Texts) /\ f[e].val = g[e].val
  BY DEF FormTyped
<1>4. ASSUME NEW e \in Elements PROVE Pairs(e, << >>) = {}
  BY DEF Pairs
<1>5. ASSUME NEW e \in Browsed PROVE e \in Taken /\ Pairs(e, Values(e)) = Pairs(e, Sends(e))
  <2>1. e \in Elements /\ e \notin Buttons /\ Type[e] # "button" /\ Name[e] # "" /\ ~f[e].disabled
        /\ Type[e] # "image" /\ ~g[e].disabled
    BY DEF Buttons
  <2>2. fieldValue(g, c, e) = g[e].val
    BY <2>1 DEF fieldValue
  <2>3. CASE Type[e] = "file"
    <3>1. Values(e) = FileValues(g, e, browser.fileApi)
      BY <1>v, <2>1, <2>3
    <3>2. CASE g[e].val = << >>
      BY <1>3, <2>1, <2>3, <3>1, <3>2 DEF FileValues
    <3>3. CASE g[e].val # << >> /\ ~browser.fileApi
      <4>1. Len(g[e].val) <= 1 /\ g[e].val \in Seq(Texts)
        BY <1>3, <2>1, <2>3, <3>3 DEF FormTyped
      <4>2. << Head(g[e].val) >> = g[e].val
        BY <3>3, <4>1, OneFile
      <4>3. Values(e) = g[e].val
        BY <3>1, <3>3, <4>2 DEF FileValues
      <4> QED
        BY <1>3, <2>1, <3>3, <4>3
    <3>4. CASE g[e].val # << >> /\ browser.fileApi
      BY <1>3, <2>1, <3>1, <3>4 DEF FileValues
    <3> QED
      BY <2>1, <3>2, <3>3, <3>4
  <2>4. CASE Type[e] # "file"
    BY <1>3, <1>v, <2>1, <2>2, <2>4
  <2> QED
    BY <2>3, <2>4
<1>6. ASSUME NEW e \in Taken, e \notin Browsed, e # c PROVE Pairs(e, Values(e)) = {}
  <2>1. e \in Elements /\ Type[e] # "image"
    OBVIOUS
  <2>2. CASE e \in Buttons \/ Type[e] = "button" \/ Name[e] = "" \/ g[e].disabled
    <3>1. Values(e) = fieldValue(g, c, e) /\ fieldValue(g, c, e) = << >>
      BY <1>6, <1>v, <2>1, <2>2 DEF fieldValue, Buttons
    <3> QED
      BY <1>4, <2>1, <3>1
  <2>3. CASE ~ (e \in Buttons \/ Type[e] = "button" \/ Name[e] = "" \/ g[e].disabled)
    <3>1. f[e].disabled
      BY <1>6, <2>1, <2>3
    <3>2. e \notin Serialized(g, c)
      BY <2>1, <2>3, <3>1
    <3>3. Type[e] # "file" /\ fieldValue(g, c, e) = << >>
      BY <2>1, <2>3, <3>2 DEF Serialized
    <3> QED
      BY <1>4, <1>v, <2>1, <3>3
  <2> QED
    BY <2>2, <2>3
<1>a. \A x : x \in AllTaken <=> \E e \in Taken : x \in Pairs(e, Values(e))
  BY DEF FieldPairs
<1>b. \A x : x \in AllSent <=> \E e \in Browsed : x \in Pairs(e, Sends(e))
  <2> HIDE DEF Sends, Browsed
  <2> QED
    BY <1>s
<1>7. CASE c = NONE
  <2>1. Clicked(f, c) = {}
    BY <1>7 DEF Clicked
  <2>2. \A e \in Taken : e # c
    BY <1>0, <1>7
  <2>3. AllTaken = AllSent
    <3> HIDE DEF Values, Sends, Taken, Browsed
    <3> QED
      BY <1>5, <1>6, <1>a, <1>b, <2>2
  <2> QED
    BY <1>1, <1>2, <1>7, <2>1, <2>3
<1>8. CASE c \in Buttons
  <2>0. c # NONE /\ c \in Elements /\ c \notin Browsed /\ Type[c] \in {"submit", "image"}
    BY <1>0, <1>8 DEF Buttons
  <2>1. CASE Type[c] = "image"
    <3>1. c \notin Taken
      BY <2>1
    <3>2. (f[c].disabled <=> g[c].disabled) /\ f[c].val = g[c].val
      BY <2>0, <2>1
    <3>3. Clicked(f, c) = Clicked(g, c)
      BY <3>2 DEF Clicked
    <3>4. AllTaken = AllSent
      <4> HIDE DEF Values, Sends, Taken, Browsed
      <4> QED
        BY <1>5, <1>6, <1>a, <1>b, <3>1
    <3>5. /\ formToArray(g, c, browser.fileApi)
               = AllTaken \cup Clicked(g, c)
      <4> HIDE DEF Values, Sends, Taken, Browsed
      <4> QED
        BY <1>2, <2>0, <2>1
    <3> HIDE DEF Values, Sends, Taken, Browsed
    <3> QED
      BY <1>1, <3>3, <3>4, <3>5
  <2>2. CASE Type[c] = "submit"
    <3>1. c \in Taken
      BY <2>0, <2>2
    <3>2. Pairs(c, Values(c)) = Clicked(f, c)
      <4>1. Values(c) = fieldValue(g, c, c)
        BY <1>v, <2>2
      <4>2. fieldValue(g, c, c) = IF Name[c] = "" \/ g[c].disabled THEN << >> ELSE g[c].val
        BY <2>2 DEF fieldValue
      <4>3. Clicked(f, c) = IF Name[c] = "" \/ f[c].disabled THEN {} ELSE Pairs(c, f[c].val)
        BY <2>0, <2>2 DEF Clicked
      <4>4. CASE Name[c] = "" \/ g[c].disabled
        BY <1>4, <2>0, <4>1, <4>2, <4>3, <4>4
      <4>5. CASE ~(Name[c] = "" \/ g[c].disabled)
        <5>1. CASE g[c].val = << >>
          BY <1>3, <1>4, <2>0, <4>1, <4>2, <4>3, <4>5, <5>1
        <5>2. CASE g[c].val # << >>
          <6>0. ~ g[c].disabled /\ Name[c] # "" /\ fieldValue(g, c, c) # << >>
            BY <4>2, <4>5, <5>2
          <6>1. c \in Serialized(g, c)
            BY <2>0, <2>2, <6>0 DEF Serialized
          <6>2. (f[c].disabled <=> g[c].disabled) /\ f[c].val = g[c].val
            BY <2>0, <6>1
          <6>3. Values(c) = g[c].val
            BY <4>1, <4>2, <4>5
          <6>4. Clicked(f, c) = Pairs(c, f[c].val)
            BY <4>3, <4>5, <6>2
          <6> QED
            BY <6>2, <6>3, <6>4
        <5> QED
          BY <5>1, <5>2
      <4> QED
        BY <4>4, <4>5
    <3>3. AllTaken
            = AllSent \cup Clicked(f, c)
      <4> HIDE DEF Values, Sends, Taken, Browsed
      <4>1. \A e \in Taken : Pairs(e, Values(e))
               \subseteq AllSent \cup Clicked(f, c)
        BY <1>5, <1>6, <1>b, <3>2
      <4>2. \A e \in Browsed : Pairs(e, Sends(e)) \subseteq AllTaken
        BY <1>5, <1>a
      <4>3. Clicked(f, c) \subseteq AllTaken
        BY <1>a, <3>1, <3>2
      <4> QED
        BY <1>a, <1>b, <4>1, <4>2, <4>3
    <3>4. formToArray(g, c, browser.fileApi) = AllTaken
      <4> HIDE DEF Values, Sends, Taken, Browsed
      <4> QED
        BY <1>2, <2>2
    <3> HIDE DEF Values, Sends, Taken, Browsed
    <3> QED
      BY <1>1, <3>3, <3>4
  <2> QED
    BY <2>0, <2>1, <2>2
<1> QED
  BY <1>7, <1>8

-----------------------------------------------------------------------------
(* $.active: it counts at least the requests that hold it, and the         *)
(* indicator is on while it is above zero.                                 *)

Holds(w) == w.phase \in {"ready", "submitted", "ajax"} /\ ~w.aborted /\ ~w.processed

Holding == {u \in Uploads : opt[u].global /\ Holds(up[u])}

CountInv ==
  /\ active \in Nat /\ busy \in BOOLEAN /\ (active > 0 => busy)
  /\ IsFiniteSet(Holding) /\ Cardinality(Holding) <= active

(* How a step of upload u, from w to x, may change the count               *)
Counted(u, w, x) ==
  \/ /\ active' = active /\ (busy' = busy \/ busy' = (busy \/ (opt[u].global /\ active = 0)))
     /\ Holds(x) => Holds(w)
  \/ Opened(u)
  \/ Closed(u) /\ Holds(w) /\ ~Holds(x)

LEMMA CountStep ==
  ASSUME CountInv, DOMAIN up = Uploads, NEW u \in Uploads, NEW x,
         up' = [up EXCEPT ![u] = x], opt' = opt, Counted(u, up[u], x)
  PROVE  CountInv'
<1>0. /\ active \in Nat /\ busy \in BOOLEAN /\ (active > 0 => busy)
      /\ IsFiniteSet(Holding) /\ Cardinality(Holding) <= active /\ Cardinality(Holding) \in Nat
  BY FS_CardinalityType DEF CountInv
<1>1. \A v \in Uploads : v # u => (v \in Holding' <=> v \in Holding)
  BY DEF Holding
<1>2. u \in Holding' <=> opt[u].global /\ Holds(x)
  BY DEF Holding
<1>3. u \in Holding <=> opt[u].global /\ Holds(up[u])
  BY DEF Holding
<1>4. Holding \subseteq Uploads /\ Holding' \subseteq Uploads
  BY DEF Holding
<1>5. ASSUME NEW S, IsFiniteSet(S), Holding' \subseteq S
      PROVE  IsFiniteSet(Holding') /\ Cardinality(Holding') <= Cardinality(S)
             /\ Cardinality(Holding') \in Nat /\ Cardinality(S) \in Nat
  BY <1>5, FS_Subset, FS_CardinalityType
<1>6. CASE /\ active' = active /\ (busy' = busy \/ busy' = (busy \/ (opt[u].global /\ active = 0)))
           /\ Holds(x) => Holds(up[u])
  <2>1. Holding' \subseteq Holding
    BY <1>1, <1>2, <1>3, <1>4, <1>6
  <2>2. IsFiniteSet(Holding') /\ Cardinality(Holding') <= Cardinality(Holding)
        /\ Cardinality(Holding') \in Nat
    BY <1>0, <1>5, <2>1
  <2>3. busy' \in BOOLEAN /\ (busy => busy')
    <3>1. CASE busy' = busy
      BY <1>0, <3>1
    <3>2. CASE busy' = (busy \/ (opt[u].global /\ active = 0))
      <4>1. (busy \/ (opt[u].global /\ active = 0)) \in BOOLEAN
        OBVIOUS
      <4>2. busy' \in BOOLEAN
        BY <3>2, <4>1, Zenon
      <4>3. busy => busy'
        BY <3>2, Zenon
      <4> QED
        BY <4>2, <4>3
    <3> QED
      BY <1>6, <3>1, <3>2
  <2> QED
    BY <1>0, <1>6, <2>2, <2>3 DEF CountInv
<1>7. CASE Opened(u)
  <2>0. /\ active' = IF opt[u].global THEN active + 1 ELSE active
        /\ busy' = (busy \/ (opt[u].global /\ active = 0))
    BY <1>7 DEF Opened
  <2>1. CASE opt[u].global
    <3>1. Holding' \subseteq Holding \cup {u}
      BY <1>1, <1>4
    <3>2. /\ IsFiniteSet(Holding \cup {u})
          /\ Cardinality(Holding \cup {u}) <= Cardinality(Holding) + 1
      BY <1>0, FS_AddElement
    <3>3. IsFiniteSet(Holding') /\ Cardinality(Holding') <= Cardinality(Holding) + 1
      BY <1>0, <1>5, <3>1, <3>2
    <3>4. busy'
      <4>1. active = 0 \/ active > 0
        BY <1>0
      <4> QED
        BY <1>0, <2>0, <2>1, <4>1, Zenon
    <3> QED
      BY <1>0, <1>5, <2>0, <2>1, <3>1, <3>2, <3>3, <3>4 DEF CountInv
  <2>2. CASE ~opt[u].global
    <3>1. Holding' \subseteq Holding
      BY <1>1, <1>2, <1>4, <2>2
    <3>2. IsFiniteSet(Holding') /\ Cardinality(Holding') <= Cardinality(Holding)
          /\ Cardinality(Holding') \in Nat
      BY <1>0, <1>5, <3>1
    <3> QED
      BY <1>0, <2>0, <2>2, <3>2 DEF CountInv
  <2> QED
    BY <2>1, <2>2
<1>8. CASE Closed(u) /\ Holds(up[u]) /\ ~Holds(x)
  <2>0. /\ active' = IF opt[u].global THEN active - 1 ELSE active
        /\ busy' = (busy /\ ~(opt[u].global /\ active' = 0))
    BY <1>8 DEF Closed
  <2>1. Holding' = Holding \ {u}
    BY <1>1, <1>2, <1>4, <1>8
  <2>2. CASE opt[u].global
    <3>1. u \in Holding
      BY <1>3, <1>8, <2>2
    <3>2. IsFiniteSet(Holding') /\ Cardinality(Holding') = Cardinality(Holding) - 1
      BY <1>0, <2>1, <3>1, FS_RemoveElement
    <3>3. Cardinality(Holding') \in Nat
      BY <3>2, FS_CardinalityType
    <3>4. active' \in Nat /\ Cardinality(Holding') <= active'
      BY <1>0, <2>0, <2>2, <3>2, <3>3
    <3>5. busy' \in BOOLEAN /\ (active' > 0 => busy')
      BY <1>0, <2>0, <2>2, <3>4
    <3> QED
      BY <3>2, <3>4, <3>5 DEF CountInv
  <2>3. CASE ~opt[u].global
    <3>1. Holding' \subseteq Holding
      BY <2>1
    <3>2. IsFiniteSet(Holding') /\ Cardinality(Holding') <= Cardinality(Holding)
          /\ Cardinality(Holding') \in Nat
      BY <1>0, <1>5, <3>1
    <3> QED
      BY <1>0, <2>0, <2>3, <3>2 DEF CountInv
  <2> QED
    BY <2>2, <2>3
<1> QED
  BY <1>6, <1>7, <1>8 DEF Counted

-----------------------------------------------------------------------------
(* What an upload sends: once it is sent, what was validated; before, what *)
(* it will read is that.                                                   *)

Reads(u, w, f, c) ==
  /\ w.phase = "keepAlive" =>
       SendsOnly(u, BrowserPairs(f) \cup Clicked(f, c), w.validated)
  /\ w.phase = "ready" => SendsOnly(u, BrowserPairs(f) \cup w.extra, w.validated)
  /\ w.phase = "submitted" => SendsOnly(u, w.sent, w.validated)
  /\ w.phase \in {"ajax", "answered"} => SendsAll(u, w.sent, w.validated)

SentInv == \A u \in Uploads : u \notin touched => Reads(u, up[u], form, clk)

PageInv ==
  /\ opt \in [Uploads -> Options] /\ browser \in Browsers
  /\ FormTyped(form) /\ clk \in Buttons \cup {NONE} /\ clkTimers \in Nat
  /\ multipart \in BOOLEAN /\ touched \subseteq Uploads

FullInv == UploadInv /\ PageInv /\ CountInv /\ SentInv

(* The page after a step, and whom it disturbed                            *)
PageStep ==
  /\ PageInv'
  /\ opt' = opt /\ browser' = browser
  /\ touched \cup Disturbed(form') \subseteq touched'

(* The step of one upload                                                  *)
StepOf(u) == \E x :
  /\ up' = [up EXCEPT ![u] = x]
  /\ Counted(u, up[u], x)
  /\ u \in touched' \/ Reads(u, x, form', clk')

LEMMA ReadsStay ==
  ASSUME SentInv, DOMAIN up = Uploads, PageStep, NEW v \in Uploads, v \notin touched'
  PROVE  Reads(v, up[v], form', clk')
<1>1. Reads(v, up[v], form, clk) /\ v \notin Disturbed(form')
  BY DEF SentInv, PageStep
<1> QED
  BY <1>1 DEF Reads, Disturbed

LEMMA StepKeeps ==
  ASSUME FullInv, PageStep, NEW u \in Uploads, StepOf(u)
  PROVE  CountInv' /\ SentInv'
<1>1. PICK x : /\ up' = [up EXCEPT ![u] = x]
               /\ Counted(u, up[u], x)
               /\ u \in touched' \/ Reads(u, x, form', clk')
  BY DEF StepOf
<1>2. DOMAIN up = Uploads /\ opt' = opt
  BY DEF FullInv, UploadInv, PageStep
<1>b. browser' = browser
  BY DEF PageStep
<1>3. CountInv'
  BY <1>1, <1>2, CountStep DEF FullInv
<1>4. ASSUME NEW v \in Uploads, v \notin touched' PROVE Reads(v, up'[v], form', clk')
  <2>1. CASE v = u
    BY <1>1, <1>2, <1>4, <2>1
  <2>2. CASE v # u
    <3>1. up'[v] = up[v]
      BY <1>1, <1>2, <2>2
    <3> QED
      BY <1>2, <1>4, <3>1, ReadsStay DEF FullInv
  <2> QED
    BY <2>1, <2>2
<1>5. SentInv'
  BY <1>2, <1>b, <1>4 DEF SentInv, Reads, SendsOnly, SendsAll, StaysDisabled, FilesAsText
<1> QED
  BY <1>3, <1>5

LEMMA NoUploadKeeps ==
  ASSUME FullInv, PageStep, UNCHANGED <<up, active, busy>>
  PROVE  CountInv' /\ SentInv'
<1>1. Holding' = Holding
  BY DEF Holding, PageStep
<1>2. CountInv'
  BY <1>1 DEF FullInv, CountInv
<1>3. DOMAIN up = Uploads /\ SentInv
  BY DEF FullInv, UploadInv
<1>4. SentInv'
  <2>1. \A v \in Uploads : v \notin touched' => Reads(v, up[v], form', clk')
    BY <1>3, ReadsStay
  <2> QED
    BY <2>1 DEF SentInv, PageStep, Reads, SendsOnly, SendsAll, StaysDisabled, FilesAsText
<1> QED
  BY <1>2, <1>4

LEMMA PageSame ==
  ASSUME PageInv, UNCHANGED << pageVars, form, touched >>
  PROVE  PageStep
<1>1. UNCHANGED << browser, opt, multipart, clk, clkTimers, form, touched >>
  BY DEF pageVars
<1>2. Disturbed(form') = {}
  BY <1>1 DEF Disturbed
<1> QED
  BY <1>1, <1>2 DEF PageStep, PageInv, FormTyped

LEMMA PageBecomes ==
  ASSUME PageInv, UNCHANGED << browser, opt >>, multipart' \in BOOLEAN,
         clk' \in Buttons \cup {NONE}, clkTimers' \in Nat,
         FormTyped(form'), touched \cup Disturbed(form') \subseteq touched',
         touched' \subseteq Uploads
  PROVE  PageStep
  BY DEF PageStep, PageInv, FormTyped

LEMMA BecomesStep ==
  ASSUME PageInv, UNCHANGED << browser, opt >>, multipart' \in BOOLEAN,
         clk' \in Buttons \cup {NONE}, clkTimers' \in Nat,
         NEW f, FormTyped(f), Becomes(f)
  PROVE  PageStep
<1>1. form' = f /\ touched' = touched \cup Disturbed(form') /\ Disturbed(form') \subseteq Uploads
  BY DEF Becomes, Disturbed
<1> QED
  BY <1>1, PageBecomes DEF PageInv

(* An upload that has read the form, and what it has read stay as they are *)
Same(w, x) ==
  /\ x.phase = w.phase /\ x.validated = w.validated /\ x.extra = w.extra /\ x.sent = w.sent

LEMMA SameReads ==
  ASSUME FullInv, PageStep, NEW u \in Uploads, NEW x, Same(up[u], x)
  PROVE  u \in touched' \/ Reads(u, x, form', clk')
<1>1. u \notin touched' => Reads(u, up[u], form', clk')
  BY ReadsStay DEF FullInv, UploadInv
<1> QED
  BY <1>1 DEF Same, Reads

LEMMA CbSteps ==
  ASSUME FullInv, NEW u \in Uploads, NEW w, Well(w), w.phase = "submitted",
         Same(up[u], w), Holds(w) <=> Holds(up[u]),
         NEW e \in {"load", "timeout", "server"}, cb(u, w, e), UNCHANGED pageVars
  PROVE  PageStep /\ StepOf(u)
<1>0. /\ UploadInv /\ PageInv /\ SentInv /\ DOMAIN w = Fields
      /\ FormTyped(form) /\ UNCHANGED << browser, opt, multipart, clk, clkTimers >>
      /\ multipart \in BOOLEAN /\ clk \in Buttons \cup {NONE} /\ clkTimers \in Nat
  BY DEF FullInv, PageInv, pageVars, Well
<1>s. ASSUME NEW x, up' = [up EXCEPT ![u] = x], Same(w, x), PageStep,
             Counted(u, up[u], x)
      PROVE  StepOf(u)
  <2>1. Same(up[u], x)
    BY <1>s DEF Same
  <2>2. u \in touched' \/ Reads(u, x, form', clk')
    BY <1>s, <2>1, SameReads
  <2> QED
    BY <1>s, <2>2 DEF StepOf
<1>1. CASE cbIgnores(w) \/ (w.doc = "blank" /\ e = "load")
  <2>1. up' = [up EXCEPT ![u] = w] /\ UNCHANGED << form, active, busy, touched >>
    BY <1>1 DEF cb
  <2>2. PageStep
    BY <1>0, <2>1, PageSame
  <2>3. Same(w, w) /\ Counted(u, up[u], w)
    BY <2>1 DEF Same, Counted
  <2> QED
    BY <1>s, <2>1, <2>2, <2>3
<1>2. CASE /\ ~(cbIgnores(w) \/ (w.doc = "blank" /\ e = "load"))
           /\ w.doc = "denied" \/ e # "load"
  <2>0. PICK x : x = Settle(abort(w), "rejected")
    OBVIOUS
  <2>1. up' = [up EXCEPT ![u] = x] /\ UNCHANGED << form, active, busy, touched >>
    BY <1>2, <2>0 DEF cb
  <2>2. PageStep
    BY <1>0, <2>1, PageSame
  <2>3. Same(w, x) /\ ~Holds(x)
    BY <1>0, <2>0 DEF Same, Settle, abort, Fields, Holds
  <2>4. Counted(u, up[u], x)
    BY <2>1, <2>3 DEF Counted
  <2> QED
    BY <1>s, <2>1, <2>2, <2>3, <2>4
<1>3. CASE /\ ~(cbIgnores(w) \/ (w.doc = "blank" /\ e = "load"))
           /\ ~(w.doc = "denied" \/ e # "load")
  <2>1. Holds(w)
    BY <1>3 DEF cbIgnores, Holds
  <2>2. CASE w.doc = "empty" /\ browser.opera /\ w.domChecks > 1
    <3>0. PICK x : x = [w EXCEPT !.listening = FALSE, !.loads = 0,
                                 !.requeued = TRUE, !.domChecks = @ - 1]
      OBVIOUS
    <3>1. up' = [up EXCEPT ![u] = x] /\ UNCHANGED << form, active, busy, touched >>
      BY <1>3, <2>2, <3>0 DEF cb
    <3>2. PageStep
      BY <1>0, <3>1, PageSame
    <3>3. Same(w, x) /\ (Holds(x) <=> Holds(w))
      BY <1>0, <3>0 DEF Same, Fields, Holds
    <3>4. Counted(u, up[u], x)
      BY <3>1, <3>3 DEF Counted
    <3> QED
      BY <1>s, <3>1, <3>2, <3>3, <3>4
  <2>3. CASE ~(w.doc = "empty" /\ browser.opera /\ w.domChecks > 1)
    <3> DEFINE ok == w.doc \in {"good", "empty"}
    <3>0. PICK x : x = [Answered(w, ok) EXCEPT
                          !.listening = FALSE, !.loads = 0, !.processed = TRUE,
                          !.timer = FALSE, !.cleanup = TRUE]
      OBVIOUS
    <3>1. /\ up' = [up EXCEPT ![u] = x] /\ Closed(u)
          /\ Becomes(IF ok THEN AfterSuccess(u) ELSE form)
      BY <1>3, <2>3, <3>0 DEF cb
    <3>2. FormTyped(IF ok THEN AfterSuccess(u) ELSE form)
      BY <1>0, AfterSuccessTyped
    <3>3. Same(w, x) /\ ~Holds(x)
      <4> HIDE DEF ok
      <4> QED
        BY <1>0, <3>0 DEF Same, Fields, Holds, Answered, Settle
    <3> HIDE DEF ok
    <3>4. PageStep
      BY <1>0, <3>1, <3>2, BecomesStep
    <3>5. Counted(u, up[u], x)
      BY <2>1, <3>1, <3>3 DEF Counted
    <3> QED
      BY <1>s, <3>1, <3>3, <3>4, <3>5
  <2> QED
    BY <2>2, <2>3
<1> QED
  BY <1>1, <1>2, <1>3

(* What fileUploadIframe does to an upload v that went on as w, with the   *)
(* fields as f has them and c clicked                                      *)
Framed(u, v, w, f, c) ==
  /\ multipart' \in BOOLEAN
  /\ \E x : up' = [up EXCEPT ![u] = x] /\ Counted(u, v, x)
            /\ (SendsOnly(u, BrowserPairs(f) \cup Clicked(f, c), w.validated) => Reads(u, x, f, c))

LEMMA FrameSteps ==
  ASSUME NEW u \in Uploads, NEW w, DOMAIN w = Fields, NEW f, NEW c,
         fileUploadIframe(u, w, f, c), NEW v, multipart \in BOOLEAN
  PROVE  Framed(u, v, w, f, c)
<1> USE DEF Framed
<1>0. PICK ready : ready = [w EXCEPT !.phase = "ready", !.extra = Clicked(f, c)]
  OBVIOUS
<1>1. CASE /\ up' = [up EXCEPT ![u] = IF opt[u].forceSync THEN Submitted(u, ready, f) ELSE ready]
           /\ multipart' = (multipart \/ opt[u].forceSync) /\ Opened(u)
  <2>1. multipart' \in BOOLEAN
    <3>1. (multipart \/ opt[u].forceSync) \in BOOLEAN
      OBVIOUS
    <3> QED
      BY <1>1, <3>1, Zenon
  <2>2. SendsOnly(u, BrowserPairs(f) \cup Clicked(f, c), w.validated)
          => Reads(u, ready, f, c) /\ Reads(u, Submitted(u, ready, f), f, c)
    <3>1. /\ ready.phase = "ready" /\ ready.extra = Clicked(f, c)
          /\ ready.validated = w.validated /\ DOMAIN ready = Fields
      BY <1>0 DEF Fields
    <3>2. /\ Submitted(u, ready, f).phase = "submitted"
          /\ Submitted(u, ready, f).validated = w.validated
          /\ Submitted(u, ready, f).sent = BrowserPairs(f) \cup Clicked(f, c)
      BY <3>1 DEF Submitted, Fields
    <3> QED
      BY <3>1, <3>2 DEF Reads
  <2>3. \A x : Counted(u, v, x)
    BY <1>1 DEF Counted
  <2> QED
    BY <1>1, <2>1, <2>2, <2>3
<1>2. CASE /\ up' = [up EXCEPT ![u] = Settle([w EXCEPT !.phase = "vetoed"], "rejected")]
           /\ busy' = (busy \/ (opt[u].global /\ active = 0)) /\ UNCHANGED << active, multipart >>
  <2>0. PICK x : x = Settle([w EXCEPT !.phase = "vetoed"], "rejected")
    OBVIOUS
  <2>1. x.phase = "vetoed"
    BY <2>0 DEF Settle, Fields
  <2>2. Reads(u, x, f, c) /\ ~Holds(x)
    BY <2>1 DEF Reads, Holds
  <2>3. Counted(u, v, x)
    BY <1>2, <2>2 DEF Counted
  <2> QED
    BY <1>2, <2>0, <2>2, <2>3
<1>3. CASE /\ up' = [up EXCEPT ![u] =
                Settle(abort([w EXCEPT !.phase = "vetoed", !.aborts = @ + 1]), "rejected")]
           /\ Opened(u) /\ UNCHANGED multipart
  <2>0. PICK x : x = Settle(abort([w EXCEPT !.phase = "vetoed", !.aborts = @ + 1]), "rejected")
    OBVIOUS
  <2>1. x.phase = "vetoed"
    BY <2>0 DEF Settle, Fields, abort
  <2>2. Reads(u, x, f, c) /\ Counted(u, v, x)
    BY <1>3, <2>1 DEF Reads, Counted
  <2> QED
    BY <1>3, <2>0, <2>2
<1> QED
  BY <1>0, <1>1, <1>2, <1>3 DEF fileUploadIframe

(* beforeSubmit, and enabling what was serialized                          *)
LEMMA BeforeSubmitTyped ==
  ASSUME FormTyped(form), NEW u
  PROVE  /\ FormTyped(AfterBeforeSubmit(u))
         /\ \A S : FormTyped(enableSerialized(AfterBeforeSubmit(u), S))
  BY EnableTyped DEF AfterBeforeSubmit, enableSerialized

(* What the iframe sends is what formToArray took in: beforeSubmit may     *)
(* disable fields, and they are enabled again.                             *)
LEMMA FrameSends ==
  ASSUME FormTyped(form), NEW u, NEW c \in Buttons \cup {NONE}, NEW f,
         f = enableSerialized(AfterBeforeSubmit(u), Serialized(form, c))
  PROVE  BrowserPairs(f) \cup Clicked(f, c) = formToArray(form, c, browser.fileApi)
<1> DEFINE h == AfterBeforeSubmit(u)
<1>1. FormTyped(f) /\ FormTyped(h)
  BY BeforeSubmitTyped
<1>2. ASSUME NEW e \in Elements
      PROVE  /\ form[e] \in [val : Seq(Texts), disabled : BOOLEAN]
             /\ h[e].val = form[e].val
             /\ form[e].disabled => h[e].disabled
             /\ Type[e] = "image" => (h[e].disabled <=> form[e].disabled)
  BY DEF AfterBeforeSubmit, enable, FormTyped
<1>3. ASSUME NEW e \in Elements
      PROVE  /\ e \in Serialized(form, c) => f[e].val = h[e].val /\ ~f[e].disabled
             /\ e \notin Serialized(form, c) => f[e] = h[e]
  <2>1. h[e] \in [val : Seq(Texts), disabled : BOOLEAN]
    BY <1>1 DEF FormTyped
  <2> HIDE DEF h
  <2>2. f[e] = IF e \in Serialized(form, c) THEN [h[e] EXCEPT !.disabled = ~TRUE] ELSE h[e]
    BY DEF enableSerialized, enable, h
  <2> QED
    BY <2>1, <2>2
<1>4. ASSUME NEW e \in Elements, e \in Serialized(form, c)
      PROVE  ~form[e].disabled /\ Type[e] # "image"
  BY <1>4 DEF Serialized
<1> HIDE DEF h
<1>5. \A e \in Elements : f[e].val = form[e].val
  BY <1>2, <1>3
<1>6. \A e \in Elements : form[e].disabled => f[e].disabled
  BY <1>2, <1>3, <1>4
<1>7. ASSUME NEW e \in Elements, Type[e] = "image" \/ e \in Serialized(form, c)
      PROVE  f[e].disabled <=> form[e].disabled
  BY <1>2, <1>3, <1>4, <1>7
<1> QED
  BY <1>1, <1>5, <1>6, <1>7, SentIs

(* After a keep-alive request it is what formToArray took in, unless       *)
(* beforeSubmit disabled fields: then no more than a clicked image is left. *)
LEMMA KeptSends ==
  ASSUME FormTyped(form), NEW u, NEW c \in Buttons \cup {NONE},
         opt[u].keepAlive, opt[u].disables \in BOOLEAN,
         NEW f, f = AfterBeforeSubmit(u)
  PROVE  SendsOnly(u, BrowserPairs(f) \cup Clicked(f, c),
                   formToArray(form, c, browser.fileApi))
<1>0. FormTyped(f)
  BY BeforeSubmitTyped
<1>1. CASE ~opt[u].disables
  <2>1. \A e \in Elements : f[e] = form[e]
    BY <1>1 DEF AfterBeforeSubmit, enable, FormTyped
  <2>2. BrowserPairs(f) \cup Clicked(f, c) = formToArray(form, c, browser.fileApi)
    BY <1>0, <2>1, SentIs
  <2> QED
    BY <1>1, <2>2 DEF SendsOnly, StaysDisabled
<1>2. CASE opt[u].disables
  <2>1. ASSUME NEW e \in Elements
        PROVE  /\ Type[e] # "image" => f[e].disabled
               /\ Type[e] = "image" => f[e] = form[e]
    <3>1. form[e] \in [val : Seq(Texts), disabled : BOOLEAN]
      BY DEF FormTyped
    <3>2. f[e] = IF Type[e] # "image" THEN [form[e] EXCEPT !.disabled = TRUE] ELSE form[e]
      BY <1>2 DEF AfterBeforeSubmit, enable
    <3> QED
      BY <3>1, <3>2
  <2>2. BrowserPairs(f) = {}
    BY <2>1 DEF BrowserPairs, Buttons
  <2>3. Clicked(f, c) \subseteq formToArray(form, c, browser.fileApi)
    <3>1. CASE c = NONE
      BY <3>1 DEF Clicked
    <3>2. CASE c # NONE /\ Type[c] # "image"
      <4>1. c \in Elements /\ f[c].disabled
        BY <2>1, <3>2 DEF Buttons
      <4> QED
        BY <3>2, <4>1 DEF Clicked
    <3>3. CASE c # NONE /\ Type[c] = "image"
      <4>1. c \in Elements /\ f[c] = form[c]
        BY <2>1, <3>3 DEF Buttons
      <4>2. Clicked(f, c) = Clicked(form, c)
        BY <4>1 DEF Clicked
      <4> QED
        BY <3>3, <4>2 DEF formToArray
    <3> QED
      BY <3>1, <3>2, <3>3
  <2> QED
    BY <1>2, <2>2, <2>3 DEF SendsOnly, StaysDisabled
<1> QED
  BY <1>1, <1>2

(* What goes by $.ajax are pairs of a name and a value, of which only a    *)
(* file can become a text                                                  *)
LEMMA AjaxSends ==
  ASSUME FormTyped(form), NEW u, NEW c \in Buttons \cup {NONE},
         opt[u] \in Options, browser.fileApi \in BOOLEAN, ~UsesFrame(u),
         NEW a, a = formToArray(form, c, browser.fileApi),
         NEW s, s = IF HasFiles(u) /\ browser.fileApi THEN a ELSE param(a, form)
  PROVE  SendsAll(u, s, a)
<1>1. \A p \in a : p = << p[1], p[2] >>
  <2>1. \A e, v : \A p \in Pairs(e, v) : p = << p[1], p[2] >>
    BY DEF Pairs
  <2>2. \A p \in FieldPairs(form, c, browser.fileApi) : p = << p[1], p[2] >>
    BY <2>1 DEF FieldPairs
  <2>3. ASSUME NEW p \in Clicked(form, c) PROVE p = << p[1], p[2] >>
    <3>1. \/ p \in Pairs(c, form[c].val)
          \/ p = << Name[c], "x" >> \/ p = << Name[c], "y" >>
      BY <2>3 DEF Clicked
    <3> QED
      BY <2>1, <3>1
  <2>4. \A p \in a : p \in FieldPairs(form, c, browser.fileApi) \/ p \in Clicked(form, c)
    <3> DEFINE A == FieldPairs(form, c, browser.fileApi)
               K == Clicked(form, c)
    <3>1. a = A \cup (IF c # NONE /\ Type[c] = "image" THEN K ELSE {})
      BY DEF formToArray
    <3> HIDE DEF A, K
    <3>2. \A p \in a : p \in A \/ p \in K
      BY <3>1
    <3> QED
      BY <3>2 DEF A, K
  <2> QED
    BY <2>2, <2>3, <2>4
<1>2. {<< p[1], p[2] >> : p \in a} = a
  BY <1>1
<1>3. CASE HasFiles(u) /\ browser.fileApi
  BY <1>2, <1>3 DEF SendsAll
<1>4. CASE ~(HasFiles(u) /\ browser.fileApi)
  <2>1. s = {IF p \in FilePairs(form) THEN << p[1], p[2], "text" >> ELSE p : p \in a}
    BY <1>4 DEF param
  <2> DEFINE q(p) == IF p \in FilePairs(form) THEN << p[1], p[2], "text" >> ELSE p
             name(p) == << p[1], p[2] >>
  <2>2. ASSUME NEW p \in a PROVE name(q(p)) = p
    <3>1. CASE p \in FilePairs(form)
      <4>1. q(p) = << p[1], p[2], "text" >>
        BY <3>1
      <4> QED
        BY <1>1, <4>1
    <3>2. CASE p \notin FilePairs(form)
      BY <1>1, <3>2
    <3> QED
      BY <3>1, <3>2
  <2>3. {<< p[1], p[2] >> : p \in s} = a
    <3>1. s = {q(p) : p \in a}
      BY <2>1
    <3> HIDE DEF q, name
    <3>2. {name(r) : r \in s} = a
      BY <2>2, <3>1
    <3> QED
      BY <3>2 DEF name
  <2>4. ASSUME ~FilesAsText(u) PROVE s = a
    <3>1. ~opt[u].disables /\ (opt[u].iframe # "no" \/ browser.fileApi)
      BY <2>4 DEF FilesAsText
    <3>a. opt[u].iframe \in {"yes", "no", "auto"}
      BY DEF Options
    <3>b. opt[u].iframe # "yes"
      BY DEF UsesFrame
    <3>c. ~HasFiles(u)
      BY <1>4, <3>1, <3>a, <3>b DEF UsesFrame
    <3>2. ~hasFileInputs(AfterBeforeSubmit(u))
      BY <3>c DEF HasFiles
    <3>3. \A e \in Elements : AfterBeforeSubmit(u)[e] = form[e]
      <4>1. {e \in Elements : opt[u].disables /\ Type[e] # "image"} = {}
        BY <3>1
      <4>2. AfterBeforeSubmit(u) = enable(form, {}, FALSE)
        BY <4>1 DEF AfterBeforeSubmit
      <4>3. \A e \in Elements : enable(form, {}, FALSE)[e] = form[e]
        BY DEF enable
      <4> QED
        BY <4>2, <4>3
    <3>4. \A e \in Elements : Type[e] = "file" /\ ~form[e].disabled => form[e].val = << >>
      BY <3>2, <3>3 DEF hasFileInputs
    <3>5. FilePairs(form) = {}
      <4>1. \A e : Pairs(e, << >>) = {}
        BY DEF Pairs
      <4>2. ASSUME NEW p \in FilePairs(form) PROVE FALSE
        <5>1. PICK e \in Elements :
                Type[e] = "file" /\ ~form[e].disabled /\ p \in Pairs(e, form[e].val)
          BY <4>2 DEF FilePairs
        <5> QED
          BY <3>4, <4>1, <5>1
      <4> QED
        BY <4>2
    <3> QED
      BY <2>1, <3>5
  <2> QED
    BY <2>3, <2>4 DEF SendsAll
<1> QED
  BY <1>3, <1>4

LEMMA CaptureTyped ==
  ASSUME PageInv, NEW u \in Uploads, captureSubmittingElement(u)
  PROVE  clk' \in Buttons \cup {NONE} /\ clkTimers' \in Nat
<1>1. opt[u].click \in Buttons \cup {NONE} /\ clk \in Buttons \cup {NONE} /\ clkTimers \in Nat
  BY DEF PageInv, Options
<1> QED
  BY <1>1 DEF captureSubmittingElement

LEMMA VetoSteps ==
  ASSUME FullInv, NEW u \in Uploads, Veto(u)
  PROVE  PageStep /\ StepOf(u)
<1>0. DOMAIN up = Uploads /\ DOMAIN up[u] = Fields /\ PageInv /\ FormTyped(form)
      /\ multipart \in BOOLEAN
  BY DEF FullInv, UploadInv, Well, PageInv
<1>1. PICK x : x = [up[u] EXCEPT !.phase = "vetoed"]
  OBVIOUS
<1>2. /\ captureSubmittingElement(u) /\ Becomes(form) /\ up' = [up EXCEPT ![u] = x]
      /\ UNCHANGED << browser, opt, multipart, active, busy >>
  BY <1>1 DEF Veto
<1>3. PageStep
  BY <1>0, <1>2, CaptureTyped, BecomesStep
<1>4. x.phase = "vetoed"
  BY <1>0, <1>1 DEF Fields
<1>5. Reads(u, x, form', clk') /\ Counted(u, up[u], x)
  BY <1>2, <1>4 DEF Reads, Counted, Holds
<1> QED
  BY <1>2, <1>3, <1>5 DEF StepOf

LEMMA SubmitFrameSteps ==
  ASSUME FullInv, NEW u \in Uploads, SubmitFrame(u)
  PROVE  PageStep /\ StepOf(u)
<1>0. DOMAIN up = Uploads /\ DOMAIN up[u] = Fields /\ PageInv /\ FormTyped(form)
      /\ multipart \in BOOLEAN
  BY DEF FullInv, UploadInv, Well, PageInv
<1>1. PICK c, f, w :
        /\ c = clk'
        /\ f = enableSerialized(AfterBeforeSubmit(u), Serialized(form, c))
        /\ w = [up[u] EXCEPT !.validated = formToArray(form, c, browser.fileApi)]
  OBVIOUS
<1>2. /\ captureSubmittingElement(u) /\ Becomes(f) /\ fileUploadIframe(u, w, f, c)
      /\ UNCHANGED << browser, opt >>
  BY <1>1 DEF SubmitFrame
<1>3. c \in Buttons \cup {NONE} /\ clkTimers' \in Nat
  BY <1>0, <1>1, <1>2, CaptureTyped
<1>4. FormTyped(f)
  BY <1>0, <1>1, BeforeSubmitTyped
<1>5. DOMAIN w = Fields /\ w.validated = formToArray(form, c, browser.fileApi)
  BY <1>0, <1>1 DEF Fields
<1>6. SendsOnly(u, BrowserPairs(f) \cup Clicked(f, c), w.validated)
  BY <1>0, <1>1, <1>3, <1>5, FrameSends DEF SendsOnly
<1>7. /\ multipart' \in BOOLEAN
      /\ \E x : up' = [up EXCEPT ![u] = x] /\ Counted(u, up[u], x) /\ Reads(u, x, f, c)
  <2>1. PICK v : v = up[u]
    OBVIOUS
  <2>2. Framed(u, v, w, f, c)
    BY <1>0, <1>2, <1>5, FrameSteps
  <2> QED
    BY <1>6, <2>1, <2>2 DEF Framed
<1>8. PageStep
  BY <1>0, <1>1, <1>2, <1>3, <1>4, <1>7, BecomesStep
<1>9. form' = f
  BY <1>2 DEF Becomes
<1> QED
  BY <1>1, <1>7, <1>8, <1>9 DEF StepOf

LEMMA KeepAliveSteps ==
  ASSUME FullInv, NEW u \in Uploads, SubmitKeepAlive(u)
  PROVE  PageStep /\ StepOf(u)
<1>0. DOMAIN up = Uploads /\ DOMAIN up[u] = Fields /\ PageInv /\ FormTyped(form)
      /\ multipart \in BOOLEAN /\ up[u].phase = "idle" /\ touched \subseteq Uploads
  BY DEF FullInv, UploadInv, Well, PageInv, SubmitKeepAlive, Starting
<1>1. PICK c, x : /\ c = clk'
                  /\ x = [up[u] EXCEPT !.phase = "keepAlive",
                            !.validated = formToArray(form, c, browser.fileApi)]
  OBVIOUS
<1>2. /\ captureSubmittingElement(u) /\ up' = [up EXCEPT ![u] = x]
      /\ Becomes(AfterBeforeSubmit(u)) /\ form' = AfterBeforeSubmit(u)
      /\ UNCHANGED << browser, opt, multipart, active, busy >>
  BY <1>1 DEF SubmitKeepAlive, Becomes
<1>3. c \in Buttons \cup {NONE} /\ clkTimers' \in Nat
  BY <1>0, <1>1, <1>2, CaptureTyped
<1>4. PageStep
  BY <1>0, <1>1, <1>2, <1>3, BeforeSubmitTyped, BecomesStep
<1>5. x.phase = "keepAlive" /\ x.validated = formToArray(form, c, browser.fileApi)
  BY <1>0, <1>1 DEF Fields
<1>6. Counted(u, up[u], x)
  BY <1>2, <1>5 DEF Counted, Holds
<1>7. Reads(u, x, form', clk')
  <2>1. opt[u].keepAlive /\ opt[u].disables \in BOOLEAN
    BY <1>0 DEF SubmitKeepAlive, PageInv, Options
  <2>2. SendsOnly(u, BrowserPairs(form') \cup Clicked(form', c), x.validated)
    BY <1>0, <1>2, <1>3, <1>5, <2>1, KeptSends
  <2> QED
    BY <1>1, <1>5, <2>2 DEF Reads
<1> QED
  BY <1>2, <1>4, <1>6, <1>7 DEF StepOf

LEMMA KeepAliveAnswerSteps ==
  ASSUME FullInv, NEW u \in Uploads, KeepAliveAnswers(u)
  PROVE  PageStep /\ StepOf(u)
<1>0. DOMAIN up = Uploads /\ DOMAIN up[u] = Fields /\ PageInv /\ FormTyped(form)
      /\ multipart \in BOOLEAN /\ clk \in Buttons \cup {NONE} /\ clkTimers \in Nat
      /\ touched \subseteq Uploads
  BY DEF FullInv, UploadInv, Well, PageInv
<1>1. /\ up[u].phase = "keepAlive" /\ fileUploadIframe(u, up[u], form, clk)
      /\ UNCHANGED << browser, opt, clk, clkTimers, form, touched >>
  BY DEF KeepAliveAnswers
<1>2. (u \in touched) \/ SendsOnly(u, BrowserPairs(form) \cup Clicked(form, clk),
                                   up[u].validated)
  BY <1>1 DEF FullInv, SentInv, Reads
<1>3. /\ multipart' \in BOOLEAN
      /\ \E x : up' = [up EXCEPT ![u] = x] /\ Counted(u, up[u], x)
                /\ ((u \in touched) \/ Reads(u, x, form, clk))
  <2>1. PICK w, f, c : w = up[u] /\ f = form /\ c = clk
    OBVIOUS
  <2>2. fileUploadIframe(u, w, f, c) /\ DOMAIN w = Fields
    BY <1>0, <1>1, <2>1
  <2>3. Framed(u, w, w, f, c)
    BY <1>0, <2>2, FrameSteps
  <2> QED
    BY <1>2, <2>1, <2>3 DEF Framed
<1>4. Disturbed(form') = {}
  BY <1>1 DEF Disturbed
<1>5. PageStep
  BY <1>0, <1>1, <1>3, <1>4, PageBecomes
<1> QED
  BY <1>1, <1>3, <1>5 DEF StepOf

LEMMA AjaxSteps ==
  ASSUME FullInv, NEW u \in Uploads, SubmitAjax(u)
  PROVE  PageStep /\ StepOf(u)
<1>0. DOMAIN up = Uploads /\ DOMAIN up[u] = Fields /\ PageInv /\ FormTyped(form)
      /\ multipart \in BOOLEAN
  BY DEF FullInv, UploadInv, Well, PageInv
<1>1. PICK a, x : /\ a = formToArray(form, clk', browser.fileApi)
                  /\ x = [up[u] EXCEPT !.phase = "ajax", !.validated = a,
                            !.sent = IF HasFiles(u) /\ browser.fileApi
                                       THEN a ELSE param(a, form)]
  OBVIOUS
<1>2. /\ captureSubmittingElement(u) /\ Becomes(AfterBeforeSubmit(u))
      /\ up' = [up EXCEPT ![u] = x] /\ Opened(u) /\ UNCHANGED << browser, opt, multipart >>
  BY <1>1 DEF SubmitAjax
<1>3. PageStep
  BY <1>0, <1>2, CaptureTyped, BeforeSubmitTyped, BecomesStep
<1>a. /\ x.phase = "ajax" /\ x.validated = a
      /\ x.sent = IF HasFiles(u) /\ browser.fileApi THEN a ELSE param(a, form)
  BY <1>0, <1>1 DEF Fields
<1>b. clk' \in Buttons \cup {NONE} /\ opt[u] \in Options /\ browser.fileApi \in BOOLEAN
  BY <1>0, <1>2, CaptureTyped, UploadAssumption DEF PageInv
<1>4. x.phase = "ajax" /\ SendsAll(u, x.sent, x.validated)
  BY <1>0, <1>1, <1>a, <1>b, AjaxSends DEF SubmitAjax
<1>5. Reads(u, x, form', clk') /\ Counted(u, up[u], x)
  BY <1>2, <1>4 DEF Reads, Counted
<1> QED
  BY <1>2, <1>3, <1>5 DEF StepOf

LEMMA AnswerSteps ==
  ASSUME FullInv, NEW u \in Uploads, NEW ok \in BOOLEAN, AjaxAnswers(u, ok)
  PROVE  PageStep /\ StepOf(u)
<1>0. /\ DOMAIN up = Uploads /\ DOMAIN up[u] = Fields /\ PageInv /\ FormTyped(form)
      /\ multipart \in BOOLEAN /\ clk \in Buttons \cup {NONE} /\ clkTimers \in Nat
      /\ up[u].phase = "ajax" /\ ~up[u].aborted /\ ~up[u].processed
  BY DEF FullInv, UploadInv, Well, Open, PageInv, AjaxAnswers
<1>1. PICK x : x = [Answered(up[u], ok) EXCEPT !.phase = "answered"]
  OBVIOUS
<1>2. /\ up' = [up EXCEPT ![u] = x] /\ Becomes(IF ok THEN AfterSuccess(u) ELSE form)
      /\ Closed(u) /\ UNCHANGED << browser, opt, multipart, clk, clkTimers >>
  BY <1>1 DEF AjaxAnswers, pageVars
<1>3. FormTyped(IF ok THEN AfterSuccess(u) ELSE form)
  BY <1>0, AfterSuccessTyped
<1>4. PageStep
  BY <1>0, <1>2, <1>3, BecomesStep
<1>5. /\ x.phase = "answered" /\ x.sent = up[u].sent /\ x.validated = up[u].validated
  BY <1>0, <1>1 DEF Fields, Answered, Settle
<1>6. Counted(u, up[u], x)
  BY <1>0, <1>2, <1>5 DEF Counted, Holds
<1>7. u \notin touched' => Reads(u, up[u], form', clk')
  BY <1>0, <1>4, ReadsStay DEF FullInv
<1>8. u \in touched' \/ Reads(u, x, form', clk')
  BY <1>0, <1>5, <1>7 DEF Reads
<1> QED
  BY <1>2, <1>4, <1>6, <1>8 DEF StepOf

LEMMA DoSubmitSteps ==
  ASSUME FullInv, NEW u \in Uploads, doSubmit(u)
  PROVE  PageStep /\ StepOf(u)
<1>0. DOMAIN up = Uploads /\ DOMAIN up[u] = Fields /\ PageInv /\ FormTyped(form)
      /\ clk \in Buttons \cup {NONE} /\ clkTimers \in Nat /\ touched \subseteq Uploads
  BY DEF FullInv, UploadInv, Well, PageInv
<1>1. PICK x : x = Submitted(u, up[u], form)
  OBVIOUS
<1>2. /\ up[u].phase = "ready" /\ up' = [up EXCEPT ![u] = x] /\ multipart' = TRUE
      /\ UNCHANGED << browser, opt, clk, clkTimers, form, active, busy, touched >>
  BY <1>1 DEF doSubmit
<1>3. Disturbed(form') = {}
  BY <1>2 DEF Disturbed
<1>4. PageStep
  BY <1>0, <1>2, <1>3, PageBecomes
<1>5. /\ x.phase = "submitted" /\ x.validated = up[u].validated
      /\ x.sent = BrowserPairs(form) \cup up[u].extra
      /\ x.aborted = up[u].aborted /\ x.processed = up[u].processed
  BY <1>0, <1>1 DEF Fields, Submitted
<1>6. Counted(u, up[u], x)
  BY <1>2, <1>5 DEF Counted, Holds
<1>7. u \notin touched => Reads(u, up[u], form, clk)
  BY DEF FullInv, SentInv
<1>8. u \in touched' \/ Reads(u, x, form', clk')
  BY <1>2, <1>5, <1>7 DEF Reads
<1> QED
  BY <1>2, <1>4, <1>6, <1>8 DEF StepOf

(* An upload changes, but neither the page nor what the upload has read    *)
LEMMA QuietSteps ==
  ASSUME FullInv, NEW u \in Uploads, NEW x, up' = [up EXCEPT ![u] = x],
         Same(up[u], x), Holds(x) => Holds(up[u]),
         UNCHANGED << pageVars, form, active, busy, touched >>
  PROVE  PageStep /\ StepOf(u)
<1>1. PageStep
  BY PageSame DEF FullInv
<1>2. Counted(u, up[u], x)
  BY DEF Counted
<1> QED
  BY <1>1, <1>2, SameReads DEF StepOf

LEMMA EventSteps ==
  ASSUME FullInv, NEW u \in Uploads,
         \/ UserAbort(u) \/ \E doc : Responds(u, doc)
         \/ Load(u) \/ RequeuedLoad(u) \/ TimeoutFires(u) \/ checkState(u) \/ Cleanup(u)
  PROVE  PageStep /\ (StepOf(u) \/ UNCHANGED << up, active, busy >>)
<1>0. /\ DOMAIN up = Uploads /\ Well(up[u]) /\ DOMAIN up[u] = Fields /\ PageInv
  BY DEF FullInv, UploadInv, Well
<1>1. CASE UserAbort(u)
  <2>1. PICK x : x = abort([up[u] EXCEPT !.aborts = @ + 1])
    OBVIOUS
  <2>2. up' = [up EXCEPT ![u] = x] /\ UNCHANGED << pageVars, form, active, busy, touched >>
    BY <1>1, <2>1 DEF UserAbort
  <2>3. Same(up[u], x) /\ ~Holds(x)
    BY <1>0, <2>1 DEF abort, Fields, Same, Holds
  <2> QED
    BY <2>2, <2>3, QuietSteps
<1>2. ASSUME NEW doc, Responds(u, doc) PROVE PageStep /\ StepOf(u)
  <2>1. PICK x : x = [up[u] EXCEPT !.inflight = FALSE, !.doc = doc,
                                   !.loads = IF up[u].listening THEN @ + 1 ELSE @]
    OBVIOUS
  <2>2. up' = [up EXCEPT ![u] = x] /\ UNCHANGED << pageVars, form, active, busy, touched >>
    BY <1>2, <2>1 DEF Responds
  <2>3. Same(up[u], x) /\ (Holds(x) <=> Holds(up[u]))
    BY <1>0, <2>1 DEF Fields, Same, Holds
  <2> QED
    BY <2>2, <2>3, QuietSteps
<1>3. CASE Cleanup(u)
  <2>1. PICK x : x = [up[u] EXCEPT !.cleanup = FALSE, !.attached = FALSE]
    OBVIOUS
  <2>2. up' = [up EXCEPT ![u] = x] /\ UNCHANGED << pageVars, form, active, busy, touched >>
    BY <1>3, <2>1 DEF Cleanup
  <2>3. Same(up[u], x) /\ (Holds(x) <=> Holds(up[u]))
    BY <1>0, <2>1 DEF Fields, Same, Holds
  <2> QED
    BY <2>2, <2>3, QuietSteps
<1>4. ASSUME NEW w, NEW e \in {"load", "timeout", "server"},
             up[u].phase = "submitted", cb(u, w, e), UNCHANGED pageVars,
             \/ w = [up[u] EXCEPT !.loads = @ - 1]
             \/ w = [up[u] EXCEPT !.requeued = FALSE]
             \/ w = [up[u] EXCEPT !.timer = FALSE]
             \/ w = [up[u] EXCEPT !.polling = FALSE, !.timer = FALSE]
      PROVE  PageStep /\ StepOf(u)
  <2>0. PICK y : y = up[u]
    OBVIOUS
  <2>a. /\ Well(y) /\ y.phase = "submitted"
        /\ \/ w = [y EXCEPT !.loads = @ - 1]
           \/ w = [y EXCEPT !.requeued = FALSE]
           \/ w = [y EXCEPT !.timer = FALSE]
           \/ w = [y EXCEPT !.polling = FALSE, !.timer = FALSE]
    BY <1>0, <1>4, <2>0
  <2>1. Well(w) /\ w.phase = "submitted"
    BY <2>a, EventWell, ZenonT(20)
  <2>2. Same(up[u], w) /\ (Holds(w) <=> Holds(up[u]))
    <3>1. CASE w = [up[u] EXCEPT !.loads = @ - 1]
      BY <1>0, <3>1 DEF Fields, Same, Holds
    <3>2. CASE w = [up[u] EXCEPT !.requeued = FALSE]
      BY <1>0, <3>2 DEF Fields, Same, Holds
    <3>3. CASE w = [up[u] EXCEPT !.timer = FALSE]
      BY <1>0, <3>3 DEF Fields, Same, Holds
    <3>4. CASE w = [up[u] EXCEPT !.polling = FALSE, !.timer = FALSE]
      BY <1>0, <3>4 DEF Fields, Same, Holds
    <3> QED
      BY <1>4, <3>1, <3>2, <3>3, <3>4
  <2> QED
    BY <1>4, <2>1, <2>2, CbSteps
<1>5. CASE Load(u)
  <2>1. up[u].phase = "submitted"
    BY <1>0, <1>5 DEF Load, Well, Quiet
  <2>2. PICK w : w = [up[u] EXCEPT !.loads = @ - 1]
    OBVIOUS
  <2>3. cb(u, w, "load") /\ UNCHANGED pageVars
    BY <1>5, <2>2 DEF Load
  <2> QED
    BY <1>4, <2>1, <2>2, <2>3
<1>6. CASE RequeuedLoad(u)
  BY <1>0, <1>4, <1>6 DEF RequeuedLoad, Well, Quiet
<1>7. CASE TimeoutFires(u)
  BY <1>0, <1>4, <1>7 DEF TimeoutFires, Well, Quiet
<1>8. CASE checkState(u)
  <2>1. up[u].phase = "submitted" /\ UNCHANGED pageVars
    BY <1>0, <1>8 DEF checkState, Well, Quiet
  <2>2. CASE UNCHANGED << up, form, active, busy, touched >>
    BY <1>0, <2>1, <2>2, PageSame
  <2>3. CASE up' = [up EXCEPT ![u].polling = FALSE] /\ UNCHANGED << form, active, busy, touched >>
    <3>1. PICK x : x = [up[u] EXCEPT !.polling = FALSE]
      OBVIOUS
    <3>2. Same(up[u], x) /\ (Holds(x) <=> Holds(up[u])) /\ up' = [up EXCEPT ![u] = x]
      BY <1>0, <2>3, <3>1 DEF Fields, Same, Holds
    <3> QED
      BY <2>1, <2>3, <3>2, QuietSteps
  <2>4. CASE cb(u, [up[u] EXCEPT !.polling = FALSE, !.timer = FALSE], "server")
    BY <1>4, <2>1, <2>4
  <2> QED
    BY <1>8, <2>2, <2>3, <2>4 DEF checkState
<1> QED
  BY <1>1, <1>2, <1>3, <1>5, <1>6, <1>7, <1>8

(* The page's own steps                                                    *)
LEMMA PageSteps ==
  ASSUME FullInv, ClearClk \/ PageEnables \/ \E e \in Elements : Edit(e)
  PROVE  PageStep /\ UNCHANGED << up, active, busy >>
<1>0. /\ PageInv /\ FormTyped(form) /\ multipart \in BOOLEAN
      /\ clk \in Buttons \cup {NONE} /\ clkTimers \in Nat
  BY DEF FullInv, PageInv
<1>1. CASE ClearClk
  <2>1. /\ clk' = NONE /\ clkTimers' \in Nat /\ Becomes(form)
        /\ UNCHANGED << browser, opt, multipart, up, active, busy >>
    BY <1>0, <1>1 DEF ClearClk
  <2> QED
    BY <1>0, <2>1, BecomesStep
<1>2. CASE PageEnables
  <2>1. /\ Becomes(enable(form, Elements, TRUE))
        /\ UNCHANGED << browser, opt, multipart, clk, clkTimers, up, active, busy >>
    BY <1>2 DEF PageEnables, pageVars
  <2>2. FormTyped(enable(form, Elements, TRUE))
    BY <1>0, EnableTyped
  <2> QED
    BY <1>0, <2>1, <2>2, BecomesStep
<1>3. ASSUME NEW e \in Elements, Edit(e) PROVE PageStep /\ UNCHANGED << up, active, busy >>
  <2>0. PICK f : f = [form EXCEPT ![e].val = << "typed" >>]
    OBVIOUS
  <2>1. /\ Becomes(f) /\ Type[e] = "text"
        /\ UNCHANGED << browser, opt, multipart, clk, clkTimers, up, active, busy >>
    BY <1>3, <2>0 DEF Edit
  <2>2. FormTyped(f)
    <3>1. form[e] \in [val : Seq(Texts), disabled : BOOLEAN]
      BY <1>0 DEF FormTyped
    <3>2. [form[e] EXCEPT !.val = << "typed" >>] \in [val : Seq(Texts), disabled : BOOLEAN]
      BY <3>1, Strings
    <3>3. f = [form EXCEPT ![e] = [form[e] EXCEPT !.val = << "typed" >>]]
      BY <2>0
    <3> QED
      BY <1>0, <2>1, <3>2, <3>3 DEF FormTyped
  <2> QED
    BY <1>0, <2>1, <2>2, BecomesStep
<1> QED
  BY <1>1, <1>2, <1>3

LEMMA FullStep == FullInv /\ [Next]_vars => FullInv'
<1> SUFFICES ASSUME FullInv, [Next]_vars PROVE FullInv'
  OBVIOUS
<1>1. UploadInv'
  BY UploadStep DEF FullInv
<1>2. PageStep /\ (UNCHANGED << up, active, busy >> \/ \E u \in Uploads : StepOf(u))
  <2>1. CASE UNCHANGED vars
    BY <2>1, PageSame DEF vars, FullInv
  <2>2. CASE ClearClk \/ PageEnables \/ \E e \in Elements : Edit(e)
    BY <2>2, PageSteps
  <2>3. ASSUME NEW u \in Uploads, Submit(u) \/ Answer(u) \/ KeepAliveAnswers(u) \/ doSubmit(u)
        PROVE  PageStep /\ StepOf(u)
    BY <2>3, VetoSteps, SubmitFrameSteps, KeepAliveSteps, AjaxSteps, AnswerSteps,
       KeepAliveAnswerSteps, DoSubmitSteps DEF Submit, Answer
  <2>4. ASSUME NEW u \in Uploads,
               \/ UserAbort(u) \/ \E doc : Responds(u, doc)
               \/ Load(u) \/ RequeuedLoad(u) \/ TimeoutFires(u) \/ checkState(u) \/ Cleanup(u)
        PROVE  PageStep /\ (StepOf(u) \/ UNCHANGED << up, active, busy >>)
    BY <2>4, EventSteps
  <2> QED
    BY <2>1, <2>2, <2>3, <2>4 DEF Next
<1>3. CountInv' /\ SentInv'
  BY <1>2, StepKeeps, NoUploadKeeps
<1> QED
  BY <1>1, <1>2, <1>3 DEF FullInv, PageStep

LEMMA FullStart == Init => FullInv
<1> SUFFICES ASSUME Init PROVE FullInv
  OBVIOUS
<1>1. UploadInv
  BY UploadStart
<1>2. FormTyped(InitialForm) /\ browser \in Browsers /\ opt \in [Uploads -> Options]
  <2>1. browser \in Browsers /\ opt \in OptionSets
    BY DEF Init
  <2>2. \A e \in Elements : InitialForm[e] \in [val : Seq(Texts), disabled : BOOLEAN]
                            /\ InitialForm[e].val = Initial[e]
    BY Strings DEF InitialForm
  <2>3. InitialForm = [e \in Elements |-> InitialForm[e]]
    BY DEF InitialForm
  <2>4. InitialForm \in [Elements -> [val : Seq(Texts), disabled : BOOLEAN]]
    BY <2>2, <2>3
  <2> QED
    BY <2>1, <2>2, <2>4, UploadAssumption DEF FormTyped
<1>3. PageInv
  BY <1>2 DEF Init, PageInv
<1>4. Holding = {}
  BY DEF Init, Holding, Holds, Idle
<1>5. CountInv
  <2>1. IsFiniteSet(Holding) /\ Cardinality(Holding) = 0
    BY <1>4, FS_EmptySet
  <2>2. active = 0
    BY DEF Init
  <2>3. busy \in BOOLEAN
    BY Zenon DEF Init
  <2> QED
    BY <2>1, <2>2, <2>3 DEF CountInv
<1>6. SentInv
  BY DEF Init, SentInv, Reads, Idle
<1> QED
  BY <1>1, <1>3, <1>5, <1>6 DEF FullInv

-----------------------------------------------------------------------------
(* A request has one answer: timeouts, polls, load events and aborts that  *)
(* compete in cb never answer it twice (jquery.form.js, cb).               *)
THEOREM UploadAnsweredOnce == Spec => []OneAnswer
<1>1. UploadInv => OneAnswer
  BY DEF UploadInv, Well, OneAnswerOf, OneAnswer
<1> QED
  BY <1>1, UploadStart, UploadStep, PTL DEF Spec

(* The deferred object says what the callbacks said.                       *)
THEOREM PromiseAgrees == Spec => []DeferredAgrees
<1>1. UploadInv => DeferredAgrees
  BY DEF UploadInv, Well, DeferredAgreesOf, DeferredAgrees
<1> QED
  BY <1>1, UploadStart, UploadStep, PTL DEF Spec

(* After an error the page never hears of a success of the same upload.    *)
THEOREM ErrorsAreFinal == Spec => ErrorIsFinal
<1> DEFINE Final == \A u \in Uploads : up[u].errors > 0 => up'[u].success = up[u].success
<1>1. UploadInv /\ [Next]_vars => [Final]_vars
  <2> SUFFICES ASSUME UploadInv, [Next]_vars PROVE Final
    OBVIOUS
  <2>1. CASE OneMoves
    BY <2>1 DEF OneMoves, UploadInv, Moves
  <2>2. CASE up' = up
    BY <2>2
  <2> QED
    BY <2>1, <2>2, StepMoves
<1> QED
  BY <1>1, UploadStart, UploadStep, PTL DEF Spec, ErrorIsFinal

(* $.active never falls below zero and never below the number of requests  *)
(* that are pending, and while one is, the indicator is on: whatever the   *)
(* mixture of vetoes, answers, errors and aborts, and whatever the number  *)
(* of uploads (cb, abort, beforeSend and the global events).               *)
THEOREM ActiveCounts == Spec => []RequestsCounted
<1>1. FullInv => RequestsCounted
  <2> SUFFICES ASSUME FullInv PROVE TypeOK /\ BusyWhilePending
    BY DEF RequestsCounted
  <2>1. TypeOK
    BY DEF FullInv, PageInv, CountInv, FormTyped, TypeOK
  <2>2. {u \in Uploads : Pending(u)} = Holding
    BY DEF Pending, Holding, Holds
  <2>3. /\ active \in Nat /\ (active > 0 => busy) /\ IsFiniteSet(Holding)
        /\ Cardinality(Holding) <= active /\ Cardinality(Holding) \in Nat
    BY FS_CardinalityType DEF FullInv, CountInv
  <2>4. ASSUME NEW u \in Uploads, Pending(u) PROVE active > 0
    <3>1. Holding # {}
      BY <2>2, <2>4
    <3>2. Cardinality(Holding) # 0
      BY <2>3, <3>1, FS_EmptySet
    <3> QED
      BY <2>3, <3>2
  <2>5. (\E u \in Uploads : Pending(u)) => busy
    BY <2>3, <2>4
  <2>6. active >= Cardinality({u \in Uploads : Pending(u)})
    BY <2>2, <2>3
  <2> QED
    BY <2>1, <2>5, <2>6 DEF BusyWhilePending
<1> QED
  BY <1>1, FullStart, FullStep, PTL DEF Spec

(* The server gets what beforeSubmit has seen, for any fields, options and *)
(* number of uploads: what the browser submits and the clicked element     *)
(* adds is what formToArray took in, although beforeSubmit may disable the *)
(* fields, unless the form or the click changed before the upload read it; *)
(* less only after a keep-alive request of a page that disables them, and  *)
(* a file as text only where beforeSubmit disabled it or neither the file  *)
(* API nor an iframe may be used (ajaxSubmit, fileUploadIframe).           *)
THEOREM SentIsValidated == Spec => []SentAsValidated
<1>1. FullInv => SentAsValidated
  BY DEF FullInv, SentInv, Reads, SentAsValidated
<1> QED
  BY <1>1, FullStart, FullStep, PTL DEF Spec
=============================================================================
