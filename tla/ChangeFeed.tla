------------------------------ MODULE ChangeFeed ------------------------------
(***************************************************************************)
(* How the changes of one database reach another: a branch pushes its rows *)
(* to the hub (app/sync/tracking.py, collect_changes and Applier in        *)
(* app/sync/engine.py, NodeSync.push in app/sync/node.py, push in          *)
(* app/sync/hub.py).                                                       *)
(*                                                                         *)
(* Every change is stamped with the revision of its transaction.  A push   *)
(* reads the current revision, then table after table, each with a         *)
(* statement and so a snapshot of its own, the rows stamped since the      *)
(* cursor; it sends them in pages and moves the cursor when the last page  *)
(* has been answered.                                                      *)
(*                                                                         *)
(* A row is numbered by its table's place in SPECS and by its id, the      *)
(* order in which it is read.  Which of a row's versions the hub has is    *)
(* told by the revision that version was stamped with.  Stamping a row     *)
(* again without a change (mark_rows) counts as a change.                  *)
(***************************************************************************)
EXTENDS Integers, FiniteSets, FiniteSetsExt

CONSTANTS
    Rows,        \* number of rows
    Tables,      \* number of tables
    Table,       \* [Row -> table]
    Parent,      \* [Row -> the row its required foreign key names, 0: it has none]
    Writer,      \* requests of the branch that write
    Page,        \* rows of a page (500 in the code)
    MaxRev,      \* bound: revisions given
    MaxFail      \* bound: pushes that fail

Row == 1..Rows

ASSUME SizeAssumption ==
    Rows \in Nat /\ Tables \in Nat \ {0} /\ Page \in Nat \ {0} /\ MaxRev \in Nat /\ MaxFail \in Nat

\* SPECS lists a table after the tables it refers to.
ASSUME TableAssumption ==
    /\ Table \in [Row -> 1..Tables]
    /\ \A r, q \in Row : r < q => Table[r] <= Table[q]

\* Only references of one step: what a missing row's own references do to it
\* is decided when that row is applied.
ASSUME ParentAssumption ==
    /\ Parent \in [Row -> Row \cup {0}]
    /\ \A r \in Row : Parent[r] # 0 => Table[Parent[r]] < Table[r] /\ Parent[Parent[r]] = 0

VARIABLES
    clock,       \* sync_clock.rev, as committed
    rev,         \* sync_rev of each row, 0 before it is inserted
    txn,         \* each writer's transaction: rows it marked, revision it took (0: not yet)
    cursor,      \* push_cursor
    push,        \* the push under way
    late,        \* pages the branch gave up on and the hub may still get
    got,         \* the version of each row the hub has, 0: none
    reported,    \* the versions the branch has noted as refused (sync_conflict)
    failures     \* pushes that failed so far

source == <<clock, rev, txn>>
vars == <<clock, rev, txn, cursor, push, late, got, reported, failures>>

NoRows == [r \in Row |-> 0]
NoTxn == [rows |-> {}, rev |-> 0]
NewPush(phase, upto) ==
    [phase |-> phase, upto |-> upto, table |-> 1, after |-> 0, room |-> Page,
     page |-> NoRows, more |-> FALSE, refused |-> {}]
NoPush == NewPush("idle", 0)

Txn == [rows: SUBSET Row, rev: Nat]
Push == [phase: {"idle", "read", "wait", "answer", "finish"}, upto: Nat, table: 1..Tables,
         after: Nat, room: 1..Page, page: [Row -> Nat], more: BOOLEAN, refused: SUBSET Row]

TypeOK ==
    /\ clock \in Nat
    /\ rev \in [Row -> Nat]
    /\ txn \in [Writer -> Txn]
    /\ cursor \in Nat
    /\ push \in Push
    /\ late \subseteq [Row -> Nat]
    /\ got \in [Row -> Nat]
    /\ reported \subseteq Row \X Nat
    /\ failures \in 0..MaxFail

-----------------------------------------------------------------------------
\* Transactions of the branch.

\* A transaction locks the rows it writes; a row's parent is there or comes with it.
Write(w, rows) ==
    /\ txn[w] = NoTxn
    /\ clock < MaxRev
    /\ rows # {}
    /\ \A r \in rows : Parent[r] # 0 => rev[Parent[r]] > 0 \/ Parent[r] \in rows
    /\ \A v \in Writer : txn[v].rows \cap rows = {}
    /\ txn' = [txn EXCEPT ![w].rows = rows]
    /\ UNCHANGED <<clock, rev, cursor, push, late, got, reported, failures>>

\* Slip: the revision is read from the clock without locking it.
ClockFreeAnyway == TRUE

\* The row of the clock is locked from the revision's assignment to the commit.
ClockFree == \A v \in Writer : txn[v].rev = 0

AssignRevision(w) ==
    /\ txn[w].rows # {}
    /\ txn[w].rev = 0
    /\ ClockFree
    /\ txn' = [txn EXCEPT ![w].rev = clock + 1]
    /\ UNCHANGED <<clock, rev, cursor, push, late, got, reported, failures>>

CommitTxn(w) ==
    /\ txn[w].rev # 0
    /\ clock' = txn[w].rev
    /\ rev' = [r \in Row |-> IF r \in txn[w].rows THEN txn[w].rev ELSE rev[r]]
    /\ txn' = [txn EXCEPT ![w] = NoTxn]
    /\ UNCHANGED <<cursor, push, late, got, reported, failures>>

AbortTxn(w) ==
    /\ txn[w] # NoTxn
    /\ txn' = [txn EXCEPT ![w] = NoTxn]
    /\ UNCHANGED <<clock, rev, cursor, push, late, got, reported, failures>>

-----------------------------------------------------------------------------
\* The push.

BeginPush ==
    /\ push.phase = "idle"
    /\ push' = NewPush("read", clock)
    /\ UNCHANGED <<source, cursor, late, got, reported, failures>>

\* The rows of the table being read that the push has to send.
Due(r) == rev[r] > cursor /\ rev[r] <= push.upto

Wanted == {r \in Row : Table[r] = push.table /\ r > push.after /\ Due(r)}

\* The first n of a set of rows, in the order of their ids.
Firsts(S, n) == {r \in S : Cardinality({q \in S : q < r}) < n}

\* Slip: one table too many is read.
PastLastTable == push.table > Tables

LastTable == push.table = Tables

\* Slip: the page ends, the position stays.
ResumeFrom(taken) == push.after

\* A full page is read on from its last row.
ResumeAfter(taken) == Max(taken)

\* One SELECT, limited to the room the page has: the table's rows go on the page;
\* a full page is sent and the table read on, else the next table is read.
ReadTable ==
    LET full == Cardinality(Wanted) >= push.room
        taken == Firsts(Wanted, push.room)
        page == [r \in Row |-> IF r \in taken THEN rev[r] ELSE push.page[r]]
    IN  /\ push.phase = "read"
        /\ push' = [push EXCEPT
                      !.page = page,
                      !.more = full,
                      !.room = IF full THEN Page ELSE @ - Cardinality(Wanted),
                      !.table = IF full \/ LastTable THEN @ ELSE @ + 1,
                      !.after = IF full THEN ResumeAfter(taken) ELSE 0,
                      !.phase = IF full \/ (LastTable /\ page # NoRows) THEN "wait"
                                ELSE IF LastTable THEN "finish" ELSE "read"]
        /\ UNCHANGED <<source, cursor, late, got, reported, failures>>

\* Slip: a reference that cannot be resolved is taken all the same.
RefusedNone(page) == {}

\* The rows of a page the hub refuses: their parent is neither there nor on the page.
Refused(page) ==
    {r \in Row : page[r] > 0 /\ Parent[r] # 0 /\ got[Parent[r]] = 0 /\ page[Parent[r]] = 0}

\* Slip: what arrives replaces what is there.
MergedBlindly(page, r) == IF page[r] = 0 \/ r \in Refused(page) THEN got[r] ELSE page[r]

\* What the hub has of a row after a page: the newer version wins.
Merged(page, r) == IF r \in Refused(page) \/ page[r] <= got[r] THEN got[r] ELSE page[r]

\* The hub applies a page in one transaction and answers with what it refused.
Apply ==
    /\ push.phase = "wait"
    /\ got' = [r \in Row |-> Merged(push.page, r)]
    /\ push' = [push EXCEPT !.phase = "answer", !.refused = Refused(push.page)]
    /\ UNCHANGED <<source, cursor, late, reported, failures>>

\* Slip: the answer's conflicts are not looked at.
NotedNothing == reported

\* The branch stores the conflicts of the answer.
Noted == reported \cup {<<r, push.page[r]>> : r \in push.refused}

ReceiveAnswer ==
    /\ push.phase = "answer"
    /\ reported' = Noted
    /\ push' = [push EXCEPT !.phase = IF push.more THEN "read" ELSE "finish",
                            !.room = Page, !.page = NoRows, !.more = FALSE, !.refused = {}]
    /\ UNCHANGED <<source, cursor, late, got, failures>>

FinishPush ==
    /\ push.phase = "finish"
    /\ cursor' = push.upto
    /\ push' = NoPush
    /\ UNCHANGED <<source, late, got, reported, failures>>

\* Slip: a push that fails moves the cursor all the same.
CursorAfterFailureMoved == push.upto

\* A push that fails starts again from where the last one that succeeded ended.
CursorAfterFailure == cursor

\* No answer, an error or a restart of the branch: the push is given up.  A page
\* that was sent may be lost or may still reach the hub.
FailPush ==
    /\ push.phase # "idle"
    /\ failures < MaxFail
    /\ failures' = failures + 1
    /\ cursor' = CursorAfterFailure
    /\ push' = NoPush
    /\ \/ UNCHANGED late
       \/ push.phase = "wait" /\ late' = late \cup {push.page}
    /\ UNCHANGED <<source, got, reported>>

\* The hub gets a page nobody waits for any more.
ApplyLate ==
    \E page \in late :
        /\ late' = late \ {page}
        /\ got' = [r \in Row |-> Merged(page, r)]
        /\ UNCHANGED <<source, cursor, push, reported, failures>>

-----------------------------------------------------------------------------
Init ==
    /\ clock = 0
    /\ rev = NoRows
    /\ txn = [w \in Writer |-> NoTxn]
    /\ cursor = 0
    /\ push = NoPush
    /\ late = {}
    /\ got = NoRows
    /\ reported = {}
    /\ failures = 0

PushStep == BeginPush \/ ReadTable \/ ReceiveAnswer \/ FinishPush

Next ==
    \/ \E w \in Writer :
          \/ \E rows \in SUBSET Row : Write(w, rows)
          \/ AssignRevision(w)
          \/ CommitTxn(w)
          \/ AbortTxn(w)
    \/ PushStep
    \/ Apply
    \/ FailPush
    \/ ApplyLate

Spec == Init /\ [][Next]_vars

\* The push thread runs for as long as the branch does, and the hub answers what
\* reaches it; the network fails only MaxFail times.
FairSpec == Spec /\ WF_vars(PushStep) /\ WF_vars(Apply)

-----------------------------------------------------------------------------
\* The order of the revisions is the order of the commits: a transaction not yet
\* committed has none that a reader of the clock could take for seen (tracking.py
\* locks the clock's row from before_commit to the commit).
RevisionsInCommitOrder ==
    /\ \A w \in Writer : txn[w].rev # 0 => txn[w].rev > clock
    /\ \A r \in Row : rev[r] <= clock

\* Up to its cursor the branch has delivered every row that needs no other row,
\* in its last version, whatever was lost or sent twice (NodeSync.push saves the
\* cursor only after the last page).
RootsDelivered ==
    \A r \in Row : Parent[r] = 0 /\ rev[r] > 0 /\ rev[r] <= cursor => got[r] = rev[r]

\* A row up to the cursor that the hub does not have has been noted as a conflict,
\* in the version that was refused (_handle_push_response stores them before the
\* cursor moves).
MissedIsReported ==
    \A r \in Row : rev[r] > 0 /\ rev[r] <= cursor => got[r] = rev[r] \/ <<r, rev[r]>> \in reported

\* The hub never has a row without the row it refers to (Applier refuses it).
ReferencesHold == \A r \in Row : got[r] > 0 /\ Parent[r] # 0 => got[Parent[r]] > 0

\* Late and repeated pages never take the hub back to an older version.
NeverBack == [][\A r \in Row : got'[r] >= got[r]]_vars

\* Again and again the hub is up to date with such a row, so its last version
\* reaches the hub (the push loop tries again after a failure).
EventuallyDelivered == \A r \in Row : Parent[r] = 0 => []<>(got[r] = rev[r])

-----------------------------------------------------------------------------
\* docs/SYNC.txt: nothing is left out.  A child whose parent is stamped again
\* between the reading of the bound and the reading of the parent's table is.
NothingMissed == \A r \in Row : rev[r] > 0 /\ rev[r] <= cursor => got[r] = rev[r]

-----------------------------------------------------------------------------
\* The instance that is checked: an order and two lines of it.
MCTable == <<1, 2, 2>>
MCParent == <<0, 1, 1>>

=============================================================================
