------------------------------ MODULE EInvoice ------------------------------
(***************************************************************************)
(* The electronic invoice of one order: its row and what the authority has *)
(* (einvoice_ecpay.py; payment_service.py, payment_ecpay.py and            *)
(* routes/finance.py where they touch the row).                            *)
(*                                                                         *)
(* Between a call to the authority and the row's update others commit; an  *)
(* answer may be lost on either way.  Assumed: a handler that only reads   *)
(* and writes the row takes less than a call (AnswerIssue), and "retry" is *)
(* pressed in one tab (Retry).  An invoice that is made again after a void *)
(* is a row of its own.                                                    *)
(***************************************************************************)
EXTENDS Naturals

CONSTANTS
    Worker,         \* requests and jobs at the same time
    Amount,         \* of the invoice
    MaxAttempts,    \* calls until an invoice is given up
    MaxLost         \* calls or answers lost, and processes that die

VARIABLES
    paid,       \* whether the order is paid
    cancelled,  \* whether it is cancelled
    refunded,   \* what was given back of it
    row,        \* the invoice's row
    authority,  \* what the authority has of it
    sameTerm,   \* whether it may still be voided
    due,        \* what was left to do after a commit
    job,        \* what each worker is in the middle of
    lost        \* calls and answers lost so far

vars == <<paid, cancelled, refunded, row, authority, sameTerm, due, job, lost>>

Status == {"none", "waiting", "pending", "issuing", "issued", "allowance", "void", "failed"}
Deferred == {<<"issue">>, <<"void">>} \cup ({"allow"} \X (1..Amount))
Idle == [at |-> "idle", amount |-> 0, before |-> 0, answer |-> "none"]

TypeOK ==
    /\ paid \in BOOLEAN /\ cancelled \in BOOLEAN /\ sameTerm \in BOOLEAN
    /\ refunded \in 0..Amount /\ lost \in 0..MaxLost
    /\ row \in [status : Status, attempts : 0..MaxAttempts, allowed : 0..Amount]
    /\ authority \in [issued : BOOLEAN, voided : BOOLEAN, allowed : 0..Amount]
    /\ due \subseteq Deferred
    /\ job \in [Worker -> [at : {"idle", "strike", "cancel", "issue", "void", "allow"},
                           amount : 0..Amount, before : 0..Amount,
                           answer : {"none", "ok", "refused", "error"}]]

Init ==
    /\ paid = FALSE /\ cancelled = FALSE /\ refunded = 0
    /\ row = [status |-> "none", attempts |-> 0, allowed |-> 0]
    /\ authority = [issued |-> FALSE, voided |-> FALSE, allowed |-> 0]
    /\ sameTerm = TRUE /\ due = {} /\ lost = 0
    /\ job = [w \in Worker |-> Idle]

Begin(w, doing) == job[w] = Idle /\ job' = [job EXCEPT ![w] = doing]
Done(w) == job' = [job EXCEPT ![w] = Idle]
Become(status) == row' = [row EXCEPT !.status = status]

-----------------------------------------------------------------------------
\* The order.

\* It is placed with its invoice, which waits for an online payment or is issued at once.
Place ==
    /\ row.status = "none"
    /\ \/ Become("waiting") /\ UNCHANGED <<paid, due>>
       \/ Become("pending") /\ paid' = TRUE /\ due' = {<<"issue">>}
    /\ UNCHANGED <<cancelled, refunded, authority, sameTerm, job, lost>>

PaymentDone ==
    /\ row.status = "waiting" /\ ~paid /\ ~cancelled
    /\ paid' = TRUE /\ Become("pending") /\ due' = due \cup {<<"issue">>}
    /\ UNCHANGED <<cancelled, refunded, authority, sameTerm, job, lost>>

\* A cancellation voids an invoice that is not issued, in its own transaction, and leaves one
\* that is for after the commit.  An invoice that is being issued is neither.
StartCancel(w) ==
    /\ row.status # "none" /\ ~cancelled /\ \A v \in Worker : job[v].at # "cancel"
    /\ IF row.status \in {"waiting", "pending"}
       THEN Begin(w, [Idle EXCEPT !.at = "cancel"]) /\ UNCHANGED <<cancelled, due>>
       ELSE /\ cancelled' = TRUE
            /\ due' = IF row.status \in {"issued", "allowance"} THEN due \cup {<<"void">>} ELSE due
            /\ UNCHANGED job
    /\ UNCHANGED <<paid, refunded, row, authority, sameTerm, lost>>

CommitCancel(w) ==
    /\ job[w].at = "cancel"
    /\ cancelled' = TRUE /\ Become("void") /\ Done(w)
    /\ UNCHANGED <<paid, refunded, authority, sameTerm, due, lost>>

\* A part of the amount is given back: an invoice that is issued gets an allowance.
PartialRefund(a) ==
    /\ paid /\ ~cancelled /\ refunded + a <= Amount
    /\ refunded' = refunded + a
    /\ due' = IF row.status \in {"issued", "allowance"} THEN due \cup {<<"allow", a>>} ELSE due
    /\ UNCHANGED <<paid, cancelled, row, authority, sameTerm, job, lost>>

-----------------------------------------------------------------------------
\* Issuing.

\* Slip: the claim does not look at the status again.
ClaimsAny(status) == status \in {"pending", "issuing"}

\* Only a row that is pending is claimed.
Claims(status) == status = "pending"

\* By the deferred call or the sweep, which looks for rows that are pending.
Claim(w) ==
    /\ row.status # "none" /\ row.attempts < MaxAttempts
    /\ Claims(row.status)
    /\ Begin(w, [Idle EXCEPT !.at = "issue"])
    /\ row' = [row EXCEPT !.status = "issuing", !.attempts = @ + 1]
    /\ due' = due \ {<<"issue">>}
    /\ UNCHANGED <<paid, cancelled, refunded, authority, sameTerm, lost>>

\* A call changes what the authority has, if it can be done; or it is lost on its way.
Answer(w, answer) ==
    /\ job[w].answer = "none"
    /\ job' = [job EXCEPT ![w].answer = answer]
    /\ lost' = lost + (IF answer = "error" THEN 1 ELSE 0)
    /\ lost' <= MaxLost

Call(w, at, possible, result) ==
    /\ job[w].at = at
    /\ \/ possible /\ authority' = result /\ (Answer(w, "ok") \/ Answer(w, "error"))
       \/ UNCHANGED authority /\ (Answer(w, "error") \/ (~possible /\ Answer(w, "refused")))
    /\ UNCHANGED <<paid, cancelled, refunded, row, sameTerm, due>>

\* The authority takes a number once, and refuses data that are wrong.
CallIssue(w) ==
    \/ Call(w, "issue", ~authority.issued, [authority EXCEPT !.issued = TRUE])
    \/ /\ job[w].at = "issue" /\ Answer(w, "refused")
       /\ UNCHANGED <<paid, cancelled, refunded, row, authority, sameTerm, due>>

AnswerIssue(w) ==
    /\ job[w].at = "issue" /\ job[w].answer # "none"
    /\ \A v \in Worker : job[v].at \notin {"cancel", "strike"}
    /\ Become(CASE job[w].answer = "ok" -> "issued"
                [] job[w].answer = "refused" -> "failed"
                [] OTHER -> IF row.attempts >= MaxAttempts THEN "failed" ELSE "pending")
    /\ Done(w)
    /\ UNCHANGED <<paid, cancelled, refunded, authority, sameTerm, due, lost>>

\* A manager has an invoice issued that was given up.
Retry ==
    /\ row.status = "failed"
    /\ row' = [row EXCEPT !.status = "pending", !.attempts = 0]
    /\ UNCHANGED <<paid, cancelled, refunded, authority, sameTerm, due, job, lost>>

-----------------------------------------------------------------------------
\* Voids and allowances, after a cancellation or by a manager.

\* An invoice that is not issued is struck out; one that is, is voided in its term, and gets an
\* allowance of the rest if the term is over or it had one before.
VoidOrAllowance(w) ==
    /\ \/ row.status \in {"pending", "waiting", "failed"} /\ Begin(w, [Idle EXCEPT !.at = "strike"])
       \/ row.status = "issued" /\ sameTerm /\ Begin(w, [Idle EXCEPT !.at = "void"])
       \/ /\ row.status = "allowance" \/ (row.status = "issued" /\ ~sameTerm)
          /\ row.allowed < Amount
          /\ Begin(w, [Idle EXCEPT !.at = "allow", !.amount = Amount - row.allowed,
                                   !.before = row.allowed])
    /\ due' = due \ {<<"void">>}
    /\ UNCHANGED <<paid, cancelled, refunded, row, authority, sameTerm, lost>>

Strike(w) ==
    /\ job[w].at = "strike"
    /\ Become("void") /\ Done(w)
    /\ UNCHANGED <<paid, cancelled, refunded, authority, sameTerm, due, lost>>

CallVoid(w) ==
    Call(w, "void", authority.issued /\ ~authority.voided /\ authority.allowed = 0,
         [authority EXCEPT !.voided = TRUE])

AnswerVoid(w) ==
    /\ job[w].at = "void" /\ job[w].answer # "none"
    /\ IF job[w].answer = "ok" THEN Become("void") ELSE UNCHANGED row
    /\ Done(w)
    /\ UNCHANGED <<paid, cancelled, refunded, authority, sameTerm, due, lost>>

StartAllowance(w, a) ==
    /\ <<"allow", a>> \in due
    /\ IF row.status \in {"issued", "allowance"}
       THEN Begin(w, [Idle EXCEPT !.at = "allow", !.amount = a, !.before = row.allowed])
       ELSE UNCHANGED job
    /\ due' = due \ {<<"allow", a>>}
    /\ UNCHANGED <<paid, cancelled, refunded, row, authority, sameTerm, lost>>

CallAllowance(w) ==
    Call(w, "allow", authority.issued /\ ~authority.voided
                         /\ authority.allowed + job[w].amount <= Amount,
         [authority EXCEPT !.allowed = @ + job[w].amount])

\* What was allowed is added to what was read before the call.
AnswerAllowance(w) ==
    /\ job[w].at = "allow" /\ job[w].answer # "none"
    /\ row' = IF job[w].answer = "ok"
              THEN [row EXCEPT !.status = "allowance", !.allowed = job[w].before + job[w].amount]
              ELSE row
    /\ Done(w)
    /\ UNCHANGED <<paid, cancelled, refunded, authority, sameTerm, due, lost>>

-----------------------------------------------------------------------------

TermEnds ==
    /\ sameTerm /\ sameTerm' = FALSE
    /\ UNCHANGED <<paid, cancelled, refunded, row, authority, due, job, lost>>

\* A process dies with what it was doing and what it had left to do.
Die(w) ==
    /\ lost < MaxLost /\ lost' = lost + 1
    /\ Done(w) /\ due' = {}
    /\ UNCHANGED <<paid, cancelled, refunded, row, authority, sameTerm>>

Next ==
    \/ Place \/ PaymentDone \/ Retry \/ TermEnds
    \/ \E a \in 1..Amount : PartialRefund(a)
    \/ \E w \in Worker :
           \/ StartCancel(w) \/ CommitCancel(w)
           \/ Claim(w) \/ CallIssue(w) \/ AnswerIssue(w)
           \/ VoidOrAllowance(w) \/ Strike(w) \/ CallVoid(w) \/ AnswerVoid(w)
           \/ \E a \in 1..Amount : StartAllowance(w, a)
           \/ CallAllowance(w) \/ AnswerAllowance(w) \/ Die(w)

Spec == Init /\ [][Next]_vars

-----------------------------------------------------------------------------

\* An invoice is at the authority with one call at a time, although the checkout's job, the
\* sweep and a manager all may issue it (einvoice_ecpay.issue_invoice).
OneCallAtATime == \A v, w \in Worker : job[v].at = "issue" /\ job[w].at = "issue" => v = w

\* As long as no answer was lost, the row of an invoice nobody works at says what the
\* authority has: issued, voided, or with allowances (einvoice_ecpay.issue_invoice,
\* void_invoice, allowance).
StatusTrue ==
    lost = 0 /\ (\A w \in Worker : job[w] = Idle) =>
        /\ row.status = "issued" <=>
               authority.issued /\ ~authority.voided /\ authority.allowed = 0
        /\ row.status = "allowance" <=> authority.issued /\ ~authority.voided /\ authority.allowed > 0

\* A cancelled order has no invoice.  It does not hold: an invoice that is being issued when
\* its order is cancelled is issued all the same (payment_service._void_invoices).
CancelledHasNone ==
    cancelled /\ due = {} /\ (\A w \in Worker : job[w] = Idle) =>
        ~authority.issued \/ authority.voided \/ authority.allowed > 0

=============================================================================
