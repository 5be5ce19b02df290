--------------------------- MODULE CiPublish_proofs ---------------------------
(***************************************************************************)
(* Proofs about CiPublish.                                                 *)
(***************************************************************************)
EXTENDS CiPublish, Numbers, FiniteSetTheorems, SequenceTheorems, WellFoundedInduction, TLAPS

(***************************************************************************)
(* A sequence without the element at i.                                    *)
(***************************************************************************)
After(i, j) == IF j < i THEN j ELSE j + 1

LEMMA RemoveAtIs ==
    ASSUME NEW S, NEW s \in Seq(S), NEW i \in DOMAIN s
    PROVE  /\ RemoveAt(s, i) \in Seq(S) /\ Len(RemoveAt(s, i)) = Len(s) - 1
           /\ \A j \in 1..(Len(s) - 1) : RemoveAt(s, i)[j] = s[After(i, j)]
<1> DEFINE a == SubSeq(s, 1, i - 1)
           b == SubSeq(s, i + 1, Len(s))
           n == Len(s)
<1>1. n \in Nat /\ i \in 1..n /\ DOMAIN s = 1..n  BY LenProperties
<1>2. (\A j \in 1..(i - 1) : s[j] \in S) /\ (\A j \in (i + 1)..n : s[j] \in S)
    <2>1. \A j \in 1..n : s[j] \in S  BY LenProperties
    <2> QED BY <1>1, <2>1
<1> HIDE DEF n
<1>3. a \in Seq(S) /\ Len(a) = i - 1 /\ \A j \in 1..(i - 1) : a[j] = s[j]
    BY <1>1, <1>2, SubSeqProperties
<1>4. b \in Seq(S) /\ Len(b) = n - i /\ \A j \in 1..(n - i) : b[j] = s[i + j]
    BY <1>1, <1>2, SubSeqProperties DEF n
<1>5. RemoveAt(s, i) = a \o b  BY DEF RemoveAt
<1> HIDE DEF a, b
<1>6. /\ a \o b \in Seq(S) /\ Len(a \o b) = n - 1
      /\ \A j \in 1..(n - 1) : (a \o b)[j] = IF j <= i - 1 THEN a[j] ELSE b[j - (i - 1)]
    <2>1. (i - 1) + (n - i) = n - 1  BY <1>1
    <2>2. /\ a \o b \in Seq(S) /\ Len(a \o b) = Len(a) + Len(b)
          /\ \A j \in 1..(Len(a) + Len(b)) :
                (a \o b)[j] = IF j <= Len(a) THEN a[j] ELSE b[j - Len(a)]
        BY <1>3, <1>4, ConcatProperties
    <2> QED BY <1>3, <1>4, <2>1, <2>2
<1>7. ASSUME NEW j \in 1..(n - 1) PROVE (a \o b)[j] = s[After(i, j)]
    <2>1. CASE j < i  BY <1>1, <1>3, <1>6, <2>1 DEF After
    <2>2. CASE ~(j < i)
        <3> DEFINE m == j - (i - 1)
        <3>1. m \in 1..(n - i) /\ i + m = j + 1 /\ ~(j <= i - 1) /\ ~(j < i)  BY <1>1, <2>2
        <3>2. (a \o b)[j] = b[m]  BY <1>6, <3>1
        <3> HIDE DEF m
        <3>3. b[m] = s[j + 1]  BY <1>4, <3>1
        <3>4. After(i, j) = j + 1  BY <3>1 DEF After
        <3> QED BY <3>2, <3>3, <3>4
    <2> QED BY <2>1, <2>2
<1> QED BY <1>5, <1>6, <1>7 DEF n

-----------------------------------------------------------------------------
(***************************************************************************)
(* What the steps do to the run that takes them.                           *)
(***************************************************************************)
Comment(n) == [id : 1..(n - 1), ours : BOOLEAN, push : 0..MaxPushes]

RunOK(r) ==
    /\ r.comment # "untried" => r.pc \in {"checking", "finishing", "done"}
    /\ r.found # NoComment => r.pc = "writing"
    /\ r.exit # 0 => r.pc = "done"

(* Only run k changes, to a run with these fields. *)
Is(k, pc, page, found, comment, exit) ==
    /\ run' \in [Pushes -> Runs]
    /\ \A j \in Pushes \ {k} : run'[j] = run[j]
    /\ run'[k].pc = pc /\ run'[k].page = page /\ run'[k].found = found
    /\ run'[k].comment = comment /\ run'[k].exit = exit

Aborted(k) == Is(k, "done", 1, NoComment, run[k].comment, ExitToolError)
Published(k, outcome) == Is(k, AfterComment, 1, NoComment, outcome, run[k].exit)

LEMMA Constants ==
    /\ MaxPushes \in Nat /\ PageSize \in Nat \ {0} /\ MaxPages \in Nat \ {0}
    /\ MaxOthers \in Nat /\ MaxOthers < PageSize * MaxPages /\ Alone \in BOOLEAN
    /\ ExitToolError = 3 /\ ExitCodes = 0..3 /\ NoComment = 0
    /\ Verdicts \subseteq FileVerdicts \cup {NoMigrations}
BY MaxPushesAssumption, PagesAssumption, ListedAssumption, AloneAssumption, VerdictsAssumption
   DEF ExitToolError, ExitCodes, NoComment, NoMigrations

LEMMA RunIs ==
    ASSUME TypeOK, NEW k \in Pushed
    PROVE  /\ k \in Pushes /\ k \in 1..Len(pushes) /\ run[k] \in Runs /\ run \in [Pushes -> Runs]
           /\ pushes[k] \in Verdicts /\ RunOK(run[k])
<1>1. pushes \in Seq(Verdicts) /\ Len(pushes) <= MaxPushes /\ run \in [Pushes -> Runs]
    BY DEF TypeOK
<1>2. k \in Pushes  BY <1>1, Constants DEF Pushed, Pushes
<1>3. RunOK(run[k])  BY <1>2 DEF TypeOK, RunOK
<1> QED BY <1>1, <1>2, <1>3, LenProperties DEF Pushed

LEMMA Moves ==
    ASSUME NEW k \in Pushes, run \in [Pushes -> Runs], NEW r \in Runs,
           run' = [run EXCEPT ![k] = r]
    PROVE  Is(k, r.pc, r.page, r.found, r.comment, r.exit)
BY DEF Is

LEMMA TypedParts ==
    ASSUME TypeOK, NEW k \in Pushed
    PROVE  /\ AfterComment \in {"checking", "finishing"} /\ NoComment \in Nat
           /\ {"listing", "writing", "done"} \cup {AfterComment, "finishing"}
                  \subseteq {"waiting", "done"} \cup Publishing
           /\ 1 \in 1..MaxPages /\ ExitToolError \in ExitCodes
           /\ ExitCode(Verdict(k), config.failOn) \in ExitCodes
<1>1. Verdict(k) \in FileVerdicts
    BY RunIs, Constants DEF Verdict, FileVerdicts
<1>2. VerdictRank(Verdict(k)) \in 0..2  BY <1>1 DEF VerdictRank, FileVerdicts
<1>3. ExitCode(Verdict(k), config.failOn) \in ExitCodes
    BY <1>2, Constants DEF ExitCode
<1>4. AfterComment \in {"checking", "finishing"}  BY DEF AfterComment
<1> QED BY <1>3, <1>4, Constants DEF Publishing

LEMMA AbortIs ==
    ASSUME TypeOK, NEW k \in Pushed, Abort(k)
    PROVE  Aborted(k)
<1> DEFINE r == [run[k] EXCEPT !.pc = "done", !.page = 1, !.found = NoComment, !.exit = ExitToolError]
<1>1. run' = [run EXCEPT ![k] = r] /\ run[k] \in Runs  BY RunIs DEF Abort
<1>2. r \in Runs  BY <1>1, TypedParts DEF Runs
<1>3. r.pc = "done" /\ r.page = 1 /\ r.found = NoComment /\ r.exit = ExitToolError
      /\ r.comment = run[k].comment
    BY <1>1 DEF Runs
<1> HIDE DEF r
<1> QED BY <1>1, <1>2, <1>3, RunIs, Moves DEF Aborted

LEMMA CommentDoneIs ==
    ASSUME TypeOK, NEW k \in Pushed, NEW outcome \in {"ok", "failed"}, CommentDone(k, outcome)
    PROVE  Published(k, outcome)
<1> DEFINE r == [run[k] EXCEPT !.pc = AfterComment, !.page = 1, !.found = NoComment, !.comment = outcome]
<1>1. run' = [run EXCEPT ![k] = r] /\ run[k] \in Runs  BY RunIs DEF CommentDone
<1>2. r \in Runs  BY <1>1, TypedParts DEF Runs
<1>3. r.pc = AfterComment /\ r.page = 1 /\ r.found = NoComment /\ r.exit = run[k].exit
      /\ r.comment = outcome
    BY <1>1 DEF Runs
<1> HIDE DEF r
<1> QED BY <1>1, <1>2, <1>3, RunIs, Moves DEF Published

LEMMA StartIs ==
    ASSUME TypeOK, NEW k \in Pushed, Start(k)
    PROVE  /\ Is(k, IF config.comment THEN "listing" ELSE AfterComment, run[k].page, run[k].found,
                 run[k].comment, run[k].exit)
           /\ run[k].pc = "waiting" /\ UNCHANGED <<config, pushes, comments, nextId>>
           /\ Alone => /\ \A j \in Pushed : run[j].pc \notin Publishing
                       /\ \A j \in 1..(k - 1) : run[j].pc = "done"
<1> DEFINE pc == IF config.comment THEN "listing" ELSE AfterComment
           r == [run[k] EXCEPT !.pc = pc]
<1>1. run' = [run EXCEPT ![k] = r] /\ run[k] \in Runs  BY RunIs DEF Start
<1>2. pc \in {"listing", AfterComment}  OBVIOUS
<1> HIDE DEF pc
<1>3. r \in Runs  BY <1>1, <1>2, TypedParts DEF Runs
<1>4. r.pc = pc /\ r.page = run[k].page /\ r.found = run[k].found /\ r.exit = run[k].exit
      /\ r.comment = run[k].comment
    BY <1>1 DEF Runs
<1> HIDE DEF r
<1>5. Is(k, pc, run[k].page, run[k].found, run[k].comment, run[k].exit)
    BY <1>1, <1>3, <1>4, RunIs, Moves
<1> QED BY <1>5 DEF Start, Quiet, pc

LEMMA FoundTyped ==
    ASSUME TypeOK, NEW p \in 1..MaxPages
    PROVE  /\ FoundOn(p) \in Nat
           /\ FoundOn(p) = NoComment <=> \A i \in PageIndices(p) : ~comments[i].ours
           /\ FoundOn(p) # NoComment =>
                 \E i \in PageIndices(p) : comments[i].ours /\ comments[i].id = FoundOn(p)
<1> DEFINE ours == {i \in PageIndices(p) : comments[i].ours}
<1>1. \A i \in DOMAIN comments : comments[i].id \in Nat \ {0}
    <2>1. comments \in Seq(Comment(nextId)) /\ nextId \in Nat  BY DEF TypeOK, Comment
    <2>2. \A i \in DOMAIN comments : comments[i] \in Comment(nextId)
        <3> HIDE DEF Comment
        <3> QED BY <2>1, LenProperties
    <2> QED BY <2>1, <2>2 DEF Comment
<1>2. CASE ours = {}  BY <1>2, Constants DEF FoundOn
<1>3. CASE ours # {}
    <2>1. ours \in SUBSET (1..Len(comments)) /\ Len(comments) \in Nat
          /\ DOMAIN comments = 1..Len(comments)
        BY DEF PageIndices, TypeOK
    <2> DEFINE least == CHOOSE i \in ours : \A j \in ours : i <= j
    <2>2. \E i \in ours : \A j \in ours : i <= j
        <3> HIDE DEF ours
        <3> QED BY <1>3, <2>1, LeastNumber
    <2>3. least \in ours  BY <2>2
    <2>4. FoundOn(p) = comments[least].id  BY <1>3 DEF FoundOn
    <2> HIDE DEF least
    <2>5. least \in PageIndices(p) /\ comments[least].ours  BY <2>3
    <2> QED BY <1>1, <2>1, <2>3, <2>4, <2>5, Constants
<1> QED BY <1>2, <1>3

LEMMA ListPageIs ==
    ASSUME TypeOK, NEW k \in Pushed, ListPage(k)
    PROVE  /\ run[k].pc = "listing" /\ UNCHANGED <<config, pushes, comments, nextId>>
           /\ \/ /\ FoundOn(run[k].page) # NoComment \/ LastPage(run[k].page)
                 /\ Is(k, "writing", run[k].page, FoundOn(run[k].page), run[k].comment, run[k].exit)
              \/ /\ FoundOn(run[k].page) = NoComment /\ ~LastPage(run[k].page)
                 /\ Is(k, "listing", run[k].page + 1, run[k].found, run[k].comment, run[k].exit)
              \/ Published(k, "failed")
              \/ Aborted(k)
<1> DEFINE p == run[k].page
<1>1. run[k] \in Runs /\ k \in Pushes /\ run \in [Pushes -> Runs] /\ run[k].pc = "listing"
    BY RunIs DEF ListPage
<1>2. ASSUME run' = [run EXCEPT ![k].pc = "writing", ![k].found = FoundOn(p)]
      PROVE  Is(k, "writing", p, FoundOn(p), run[k].comment, run[k].exit)
    <2> DEFINE found == FoundOn(p)
               r == [run[k] EXCEPT !.pc = "writing", !.found = found]
    <2>1. run' = [run EXCEPT ![k] = r]  BY <1>1, <1>2
    <2>2. found \in Nat
        <3>1. p \in 1..MaxPages  BY <1>1 DEF Runs
        <3> QED BY <3>1, FoundTyped
    <2> HIDE DEF found
    <2>3. r \in Runs  BY <1>1, <2>2, TypedParts DEF Runs
    <2>4. r.pc = "writing" /\ r.page = p /\ r.found = found /\ r.exit = run[k].exit
          /\ r.comment = run[k].comment
        BY <1>1 DEF Runs
    <2> HIDE DEF r
    <2>5. Is(k, "writing", p, found, run[k].comment, run[k].exit)
        BY <1>1, <2>1, <2>3, <2>4, Moves
    <2> QED BY <2>5 DEF found
<1>3. ASSUME run' = [run EXCEPT ![k].page = p + 1], ~LastPage(p)
      PROVE  Is(k, "listing", p + 1, run[k].found, run[k].comment, run[k].exit)
    <2> DEFINE r == [run[k] EXCEPT !.page = p + 1]
    <2>1. run' = [run EXCEPT ![k] = r]  BY <1>1, <1>3
    <2>2. p \in 1..MaxPages /\ p # MaxPages  BY <1>1, <1>3 DEF Runs, LastPage
    <2>3. p + 1 \in 1..MaxPages  BY <2>2, Constants
    <2>4. r \in Runs  BY <1>1, <2>3 DEF Runs
    <2>5. r.pc = "listing" /\ r.page = p + 1 /\ r.found = run[k].found /\ r.exit = run[k].exit
          /\ r.comment = run[k].comment
        BY <1>1 DEF Runs
    <2> HIDE DEF r
    <2> QED BY <1>1, <2>1, <2>4, <2>5, Moves
<1> QED BY <1>1, <1>2, <1>3, AbortIs, CommentDoneIs DEF ListPage

LEMMA WriteCommentIs ==
    ASSUME TypeOK, NEW k \in Pushed, WriteComment(k)
    PROVE  /\ run[k].pc = "writing" /\ UNCHANGED <<config, pushes>>
           /\ \/ UNCHANGED <<comments, nextId>>
              \/ comments' = CommentsAfter(k) /\ nextId' = IF Posts(k) THEN nextId + 1 ELSE nextId
           /\ \/ /\ Published(k, "ok") /\ FoundIsThere(k) /\ comments' = CommentsAfter(k)
                 /\ nextId' = IF Posts(k) THEN nextId + 1 ELSE nextId
              \/ Published(k, "failed")
              \/ Aborted(k)
BY AbortIs, CommentDoneIs DEF WriteComment

LEMMA CreateCheckRunIs ==
    ASSUME TypeOK, NEW k \in Pushed, CreateCheckRun(k)
    PROVE  /\ run[k].pc = "checking" /\ UNCHANGED <<config, pushes, comments, nextId>>
           /\ \/ Is(k, "finishing", run[k].page, run[k].found, run[k].comment, run[k].exit)
              \/ Aborted(k)
<1>1. run[k] \in Runs /\ k \in Pushes /\ run \in [Pushes -> Runs]  BY RunIs
<1>2. ASSUME run' = [run EXCEPT ![k].pc = "finishing"]
      PROVE  Is(k, "finishing", run[k].page, run[k].found, run[k].comment, run[k].exit)
    <2> DEFINE r == [run[k] EXCEPT !.pc = "finishing"]
    <2>1. run' = [run EXCEPT ![k] = r]  BY <1>1, <1>2
    <2>2. r \in Runs  BY <1>1, TypedParts DEF Runs
    <2>3. r.pc = "finishing" /\ r.page = run[k].page /\ r.found = run[k].found
          /\ r.exit = run[k].exit /\ r.comment = run[k].comment
        BY <1>1 DEF Runs
    <2> HIDE DEF r
    <2> QED BY <1>1, <2>1, <2>2, <2>3, Moves
<1> QED BY <1>2, AbortIs DEF CreateCheckRun

LEMMA FinishIs ==
    ASSUME TypeOK, NEW k \in Pushed, Finish(k)
    PROVE  /\ run[k].pc = "finishing" /\ UNCHANGED <<config, pushes, comments, nextId>>
           /\ Is(k, "done", run[k].page, run[k].found, run[k].comment,
                 ExitCode(Verdict(k), config.failOn))
<1> DEFINE exit == ExitCode(Verdict(k), config.failOn)
           r == [run[k] EXCEPT !.pc = "done", !.exit = exit]
<1>1. run[k] \in Runs /\ k \in Pushes /\ run \in [Pushes -> Runs] /\ exit \in ExitCodes
    BY RunIs, TypedParts
<1>2. run' = [run EXCEPT ![k].pc = "done", ![k].exit = exit]
    BY DEF Finish
<1> HIDE DEF exit
<1>3. run' = [run EXCEPT ![k] = r]  BY <1>1, <1>2
<1>4. r \in Runs  BY <1>1 DEF Runs
<1>5. r.pc = "done" /\ r.page = run[k].page /\ r.found = run[k].found
      /\ r.exit = exit /\ r.comment = run[k].comment
    BY <1>1 DEF Runs
<1> HIDE DEF r
<1>6. Is(k, "done", run[k].page, run[k].found, run[k].comment, exit)
    BY <1>1, <1>3, <1>4, <1>5, Moves
<1> QED BY <1>6 DEF Finish, exit

-----------------------------------------------------------------------------
(***************************************************************************)
(* Types.                                                                  *)
(***************************************************************************)
LEMMA CommentsGrow ==
    ASSUME NEW n \in Nat
    PROVE  Seq(Comment(n)) \subseteq Seq(Comment(n + 1))
<1>1. Comment(n) \subseteq Comment(n + 1)  BY DEF Comment
<1> HIDE DEF Comment
<1> QED BY <1>1

LEMMA WriteTyped ==
    ASSUME TypeOK, NEW k \in Pushed
    PROVE  /\ CommentsAfter(k) \in Seq(Comment(IF Posts(k) THEN nextId + 1 ELSE nextId))
           /\ nextId + 1 \in Nat \ {0}
<1>1. comments \in Seq(Comment(nextId)) /\ nextId \in Nat \ {0}  BY DEF TypeOK, Comment
<1>2. k \in 1..MaxPushes  BY RunIs DEF Pushes
<1>3. CASE pushes[k] = NoMigrations
    <2>1. CommentsAfter(k) = Except(run[k].found) /\ ~Posts(k)  BY <1>3 DEF CommentsAfter, Posts
    <2>2. Except(run[k].found) \in Seq(Comment(nextId))
        <3>1. CASE \E i \in DOMAIN comments : comments[i].id = run[k].found
            BY <1>1, <3>1, RemoveAtIs DEF Except
        <3>2. CASE ~ \E i \in DOMAIN comments : comments[i].id = run[k].found
            BY <1>1, <3>2 DEF Except
        <3> QED BY <3>1, <3>2
    <2> QED BY <1>1, <2>1, <2>2
<1>4. CASE Posts(k)
    <2> DEFINE new == [id |-> nextId, ours |-> TRUE, push |-> k]
    <2>1. CommentsAfter(k) = Append(comments, new)  BY <1>4 DEF CommentsAfter, Posts
    <2>2. new \in Comment(nextId + 1)  BY <1>1, <1>2 DEF Comment
    <2> HIDE DEF new
    <2>3. comments \in Seq(Comment(nextId + 1))  BY <1>1, CommentsGrow
    <2> QED BY <1>1, <1>4, <2>1, <2>2, <2>3, AppendProperties
<1>5. CASE pushes[k] # NoMigrations /\ ~Posts(k)
    <2> DEFINE after == [i \in DOMAIN comments |->
                            IF comments[i].id = run[k].found THEN [comments[i] EXCEPT !.push = k]
                            ELSE comments[i]]
    <2>1. CommentsAfter(k) = after  BY <1>5 DEF CommentsAfter
    <2>2. DOMAIN comments = 1..Len(comments) /\ Len(comments) \in Nat  BY <1>1, LenProperties
    <2>3. ASSUME NEW i \in DOMAIN comments PROVE after[i] \in Comment(nextId)
        <3>1. comments[i] \in Comment(nextId)  BY <1>1, <2>2
        <3>2. [comments[i] EXCEPT !.push = k] \in Comment(nextId)
            BY <1>2, <3>1 DEF Comment
        <3> HIDE DEF Comment
        <3> QED BY <3>1, <3>2
    <2>4. after \in [1..Len(comments) -> Comment(nextId)]
        <3>1. after = [i \in DOMAIN comments |-> after[i]]  OBVIOUS
        <3> HIDE DEF after
        <3> QED BY <2>2, <2>3, <3>1
    <2> HIDE DEF after
    <2>5. after \in Seq(Comment(nextId))  BY <2>2, <2>4, SeqDef
    <2> QED BY <1>1, <1>5, <2>1, <2>5
<1> QED BY <1>1, <1>3, <1>4, <1>5

LEMMA TypedIs ==
    TypeOK <=> /\ config \in Configs
               /\ pushes \in Seq(Verdicts) /\ Len(pushes) <= MaxPushes
               /\ comments \in Seq(Comment(nextId)) /\ nextId \in Nat \ {0}
               /\ run \in [Pushes -> Runs] /\ \A k \in Pushes : RunOK(run[k])
BY DEF TypeOK, Comment, RunOK

LEMMA TypedNextIs ==
    TypeOK' <=> /\ config' \in Configs
                /\ pushes' \in Seq(Verdicts) /\ Len(pushes') <= MaxPushes
                /\ comments' \in Seq(Comment(nextId')) /\ nextId' \in Nat \ {0}
                /\ run' \in [Pushes -> Runs] /\ \A k \in Pushes : RunOK(run'[k])
BY DEF TypeOK, Comment, RunOK

LEMMA TypeStep ==
    ASSUME TypeOK, [Next]_vars
    PROVE  TypeOK'
<1>0. /\ config \in Configs
      /\ pushes \in Seq(Verdicts) /\ Len(pushes) <= MaxPushes
      /\ comments \in Seq(Comment(nextId)) /\ nextId \in Nat \ {0}
      /\ run \in [Pushes -> Runs] /\ \A k \in Pushes : RunOK(run[k])
    BY TypedIs
<1>1. ASSUME NEW v \in Verdicts, Push(v) PROVE TypeOK'
    <2>1. pushes' \in Seq(Verdicts) /\ Len(pushes') <= MaxPushes
        BY <1>0, <1>1, Constants, AppendProperties, LenProperties DEF Push
    <2> QED BY <1>0, <1>1, <2>1, TypedNextIs DEF Push
<1>2. CASE SomeoneComments
    <2> DEFINE new == [id |-> nextId, ours |-> FALSE, push |-> 0]
    <2>1. comments' = Append(comments, new) /\ nextId' = nextId + 1
        BY <1>2 DEF SomeoneComments
    <2>2. new \in Comment(nextId + 1)  BY <1>0, Constants DEF Comment
    <2> HIDE DEF new
    <2>3. comments' \in Seq(Comment(nextId'))
        BY <1>0, <2>1, <2>2, CommentsGrow, AppendProperties
    <2> QED BY <1>0, <1>2, <2>1, <2>3, TypedNextIs DEF SomeoneComments
<1>3. CASE SomeoneDeletes
    <2>1. PICK i \in DOMAIN comments : comments' = RemoveAt(comments, i)
        BY <1>3 DEF SomeoneDeletes, Others
    <2>2. comments' \in Seq(Comment(nextId))  BY <1>0, <2>1, RemoveAtIs
    <2> QED BY <1>0, <1>3, <2>2, TypedNextIs DEF SomeoneDeletes
<1>4. ASSUME NEW k \in Pushed, RunStep(k) PROVE TypeOK'
    <2>0. run[k] \in Runs /\ RunOK(run[k]) /\ k \in Pushes  BY RunIs
    <2>1. ASSUME run' \in [Pushes -> Runs], \A j \in Pushes \ {k} : run'[j] = run[j], RunOK(run'[k])
          PROVE  \A j \in Pushes : RunOK(run'[j])
        BY <1>0, <2>1
    <2>2. ASSUME UNCHANGED <<config, pushes, comments, nextId>>, run' \in [Pushes -> Runs],
                 \A j \in Pushes \ {k} : run'[j] = run[j], RunOK(run'[k])
          PROVE  TypeOK'
        BY <1>0, <2>1, <2>2, TypedNextIs
    <2>3. /\ Aborted(k) => RunOK(run'[k])
          /\ run[k].pc # "done" /\ (Published(k, "ok") \/ Published(k, "failed")) => RunOK(run'[k])
        <3>1. Aborted(k) => RunOK(run'[k])  BY DEF Aborted, Is, RunOK
        <3>2. ASSUME run[k].pc # "done", NEW outcome, Published(k, outcome)
              PROVE  RunOK(run'[k])
            BY <2>0, <3>2, TypedParts DEF Published, Is, RunOK
        <3> QED BY <3>1, <3>2
    <2>4. CASE Start(k)
        <3>1. Is(k, IF config.comment THEN "listing" ELSE AfterComment, run[k].page, run[k].found,
                 run[k].comment, run[k].exit) /\ run[k].pc = "waiting"
            BY <2>4, StartIs
        <3>2. RunOK(run'[k])  BY <2>0, <3>1 DEF Is, RunOK
        <3> QED BY <2>2, <2>4, <3>1, <3>2, StartIs DEF Is
    <2>5. CASE ListPage(k)
        <3>1. RunOK(run'[k])
            <4>1. \A x, f : run[k].pc = "listing" /\ Is(k, "listing", x, run[k].found, run[k].comment, run[k].exit)
                      => RunOK(run'[k])
                BY <2>0 DEF Is, RunOK
            <4>2. \A x, f : run[k].pc = "listing" /\ Is(k, "writing", x, f, run[k].comment, run[k].exit)
                      => RunOK(run'[k])
                BY <2>0 DEF Is, RunOK
            <4> QED BY <2>3, <2>5, <4>1, <4>2, ListPageIs
        <3> QED BY <2>2, <2>5, <3>1, ListPageIs DEF Is, Aborted, Published
    <2>6. CASE WriteComment(k)
        <3>1. RunOK(run'[k]) /\ run' \in [Pushes -> Runs] /\ \A j \in Pushes \ {k} : run'[j] = run[j]
            BY <2>3, <2>6, WriteCommentIs DEF Is, Aborted, Published
        <3>2. comments' \in Seq(Comment(nextId')) /\ nextId' \in Nat \ {0}
            BY <1>0, <2>6, WriteCommentIs, WriteTyped
        <3> QED BY <1>0, <2>1, <2>6, <3>1, <3>2, WriteCommentIs, TypedNextIs
    <2>7. CASE CreateCheckRun(k)
        <3>1. RunOK(run'[k])
            <4>1. run[k].pc = "checking" /\ Is(k, "finishing", run[k].page, run[k].found, run[k].comment, run[k].exit)
                      => RunOK(run'[k])
                BY <2>0 DEF Is, RunOK
            <4> QED BY <2>3, <2>7, <4>1, CreateCheckRunIs
        <3> QED BY <2>2, <2>7, <3>1, CreateCheckRunIs DEF Is, Aborted
    <2>8. CASE Finish(k)
        <3>1. RunOK(run'[k])  BY <2>0, <2>8, FinishIs DEF Is, RunOK
        <3> QED BY <2>2, <2>8, <3>1, FinishIs DEF Is
    <2> QED BY <1>4, <2>4, <2>5, <2>6, <2>7, <2>8 DEF RunStep
<1>5. CASE UNCHANGED vars  BY <1>0, <1>5, TypedNextIs DEF vars
<1> QED BY <1>1, <1>2, <1>3, <1>4, <1>5 DEF Next

(***************************************************************************)
(* For every number of pushes, comments and pages, with runs overlapping   *)
(* or not, the publication keeps its types (runner.py, _publish).          *)
(***************************************************************************)
THEOREM PublishTyped == Spec => []TypeOK
<1>1. Init => TypeOK
    <2> SUFFICES ASSUME Init PROVE TypeOK  OBVIOUS
    <2> DEFINE r == [pc |-> "waiting", page |-> 1, found |-> NoComment, comment |-> "untried", exit |-> 0]
    <2>1. r \in Runs  BY Constants DEF Runs
    <2>2. RunOK(r)  BY DEF RunOK
    <2> HIDE DEF r
    <2>3. run = [k \in Pushes |-> r]  BY DEF Init, r
    <2>4. run \in [Pushes -> Runs] /\ \A k \in Pushes : RunOK(run[k])  BY <2>1, <2>2, <2>3
    <2>5. pushes = <<>> /\ comments = <<>> /\ nextId = 1 /\ config \in Configs  BY DEF Init
    <2>6. pushes \in Seq(Verdicts) /\ Len(pushes) <= MaxPushes /\ comments \in Seq(Comment(nextId))
        BY <2>5, Constants
    <2> QED BY <2>4, <2>5, <2>6, TypedIs
<1>2. TypeOK /\ [Next]_vars => TypeOK'  BY TypeStep
<1> QED BY <1>1, <1>2, PTL DEF Spec

-----------------------------------------------------------------------------
(***************************************************************************)
(* What every step of a run leaves alone, and how runs end.                *)
(***************************************************************************)
LEMMA RunStepIs ==
    ASSUME TypeOK, NEW k \in Pushed, RunStep(k)
    PROVE  /\ UNCHANGED <<config, pushes>> /\ k \in Pushes
           /\ \A j \in Pushes \ {k} : run'[j] = run[j]
           /\ run[k].pc # "done" /\ run'[k].pc # "waiting"
           /\ run[k].pc # "waiting" => run[k].pc \in Publishing
           /\ run[k].pc = "waiting" /\ Alone => \A j \in 1..(k - 1) : run[j].pc = "done"
           /\ run'[k].pc = "done" =>
                 run'[k].exit \in {ExitToolError, ExitCode(Verdict(k), config.failOn)}
<1>1. AfterComment \in {"checking", "finishing"} /\ k \in Pushes  BY RunIs, TypedParts
<1>2. CASE Start(k)  BY <1>1, <1>2, StartIs DEF Is
<1>3. CASE ListPage(k)
    BY <1>1, <1>3, ListPageIs DEF Is, Published, Aborted, Publishing
<1>4. CASE WriteComment(k)
    BY <1>1, <1>4, WriteCommentIs DEF Is, Published, Aborted, Publishing
<1>5. CASE CreateCheckRun(k)
    BY <1>1, <1>5, CreateCheckRunIs DEF Is, Aborted, Publishing
<1>6. CASE Finish(k)  BY <1>1, <1>6, FinishIs DEF Is, Publishing
<1> QED BY <1>2, <1>3, <1>4, <1>5, <1>6 DEF RunStep

LEMMA PushIs ==
    ASSUME TypeOK, NEW v \in Verdicts, Push(v)
    PROVE  /\ UNCHANGED <<config, comments, nextId, run>>
           /\ Pushed \subseteq Pushed' /\ \A k \in Pushed : pushes'[k] = pushes[k]
           /\ Pushed' \subseteq Pushes
<1>1. pushes \in Seq(Verdicts) /\ pushes' = Append(pushes, v)  BY DEF TypeOK, Push
<1>2. /\ Len(pushes) \in Nat /\ Len(pushes) < MaxPushes /\ Len(pushes') = Len(pushes) + 1
      /\ \A k \in 1..Len(pushes) : pushes'[k] = pushes[k]
    BY <1>1, LenProperties, AppendProperties DEF Push
<1> QED BY <1>2, Constants DEF Push, Pushed, Pushes

(* Only runs of pushes start, and they end with the tool's error or with   *)
(* the code of their verdict.                                              *)
Ended ==
    \A k \in Pushes :
        /\ k \notin Pushed => run[k].pc = "waiting"
        /\ k \in Pushed /\ run[k].pc = "done" =>
              run[k].exit \in {ExitToolError, ExitCode(Verdict(k), config.failOn)}

LEMMA EndedStep ==
    ASSUME TypeOK, Ended, [Next]_vars
    PROVE  Ended'
<1>1. ASSUME NEW v \in Verdicts, Push(v) PROVE Ended'
    <2>1. \A k \in Pushed : Verdict(k)' = Verdict(k)  BY <1>1, PushIs DEF Verdict, NoMigrations
    <2>2. UNCHANGED <<config, run>> /\ Pushed \subseteq Pushed'  BY <1>1, PushIs
    <2>3. ASSUME NEW k \in Pushes
          PROVE  /\ k \notin Pushed' => run'[k].pc = "waiting"
                 /\ k \in Pushed' /\ run'[k].pc = "done" =>
                       run'[k].exit \in {ExitToolError, ExitCode(Verdict(k)', config'.failOn)}
        <3>1. CASE k \in Pushed  BY <2>1, <2>2, <3>1 DEF Ended
        <3>2. CASE k \notin Pushed  BY <2>2, <3>2 DEF Ended
        <3> QED BY <3>1, <3>2
    <2> QED BY <2>3 DEF Ended, ExitToolError, ExitCode, VerdictRank
<1>2. ASSUME UNCHANGED <<config, pushes, run>> PROVE Ended'
    BY <1>2 DEF Ended, Pushed, Verdict, NoMigrations, ExitToolError, ExitCode, VerdictRank
<1>3. ASSUME NEW k \in Pushed, RunStep(k) PROVE Ended'
    <2>1. UNCHANGED <<config, pushes>> /\ Pushed' = Pushed
        BY <1>3, RunStepIs DEF Pushed
    <2>2. ASSUME NEW j \in Pushes
          PROVE  /\ j \notin Pushed => run'[j].pc = "waiting"
                 /\ j \in Pushed /\ run'[j].pc = "done" =>
                       run'[j].exit \in {ExitToolError, ExitCode(Verdict(j), config.failOn)}
        BY <1>3, RunStepIs DEF Ended
    <2>3. \A j \in Pushes : Verdict(j)' = Verdict(j)  BY <2>1 DEF Verdict, NoMigrations
    <2> QED BY <2>1, <2>2, <2>3 DEF Ended, ExitToolError, ExitCode, VerdictRank
<1> QED
    BY <1>1, <1>2, <1>3 DEF Next, SomeoneComments, SomeoneDeletes, vars

LEMMA EndedIsRed ==
    ASSUME TypeOK, Ended
    PROVE  RedWhenItMatters
<1> SUFFICES ASSUME NEW k \in Pushed, run[k].pc = "done", config.failOn # "never",
                    VerdictRank(Verdict(k)) >= VerdictRank(config.failOn)
             PROVE  run[k].exit # 0
    BY DEF RedWhenItMatters
<1>1. run[k].exit \in {ExitToolError, ExitCode(Verdict(k), config.failOn)}  BY RunIs DEF Ended
<1>2. config.failOn \in {"block", "requires_approval"}
    BY ConfigsAssumption DEF TypeOK, FailOns
<1>3. Verdict(k) \in FileVerdicts  BY RunIs, Constants DEF Verdict, FileVerdicts
<1>4. ExitCode(Verdict(k), config.failOn) # 0
    BY <1>2, <1>3 DEF ExitCode, VerdictRank, FileVerdicts
<1> QED BY <1>1, <1>4, Constants

(***************************************************************************)
(* For every number of pushes and whatever calls fail, a run whose verdict *)
(* fail_on names never ends green (runner.py, _exit_code).                 *)
(***************************************************************************)
THEOREM RedEndsRed == Spec => []RedWhenItMatters
<1>1. Init => Ended  BY DEF Init, Ended
<1>2. TypeOK /\ Ended /\ [Next]_vars => Ended'  BY EndedStep
<1>3. TypeOK /\ Ended => RedWhenItMatters  BY EndedIsRed
<1> QED BY <1>1, <1>2, <1>3, PublishTyped, PTL DEF Spec

-----------------------------------------------------------------------------
(***************************************************************************)
(* The comments, by sequence: which are the tool's, and what a deletion    *)
(* leaves.                                                                 *)
(***************************************************************************)
OursOf(cs) == {i \in DOMAIN cs : cs[i].ours}
OthersOf(cs) == {i \in DOMAIN cs : ~cs[i].ours}
PushesOf(cs) == {cs[i].push : i \in OursOf(cs)}

(* At most one is the tool's, no two have one id, and there are no more    *)
(* comments of others than the bound allows.                               *)
Tidy(cs) ==
    /\ \A i, j \in OursOf(cs) : i = j
    /\ \A i, j \in DOMAIN cs : cs[i].id = cs[j].id => i = j
    /\ Cardinality(OthersOf(cs)) <= MaxOthers

LEMMA CommentsAre ==
    ASSUME NEW n, NEW cs \in Seq(Comment(n))
    PROVE  /\ Len(cs) \in Nat /\ DOMAIN cs = 1..Len(cs)
           /\ \A i \in DOMAIN cs : cs[i] \in Comment(n)
           /\ IsFiniteSet(OthersOf(cs)) /\ Cardinality(OthersOf(cs)) \in Nat
           /\ OthersOf(cs) = DOMAIN cs \ OursOf(cs)
<1>1. Len(cs) \in Nat /\ DOMAIN cs = 1..Len(cs) /\ \A i \in DOMAIN cs : cs[i] \in Comment(n)
    BY LenProperties
<1>2. IsFiniteSet(DOMAIN cs)  BY <1>1, FS_Interval
<1>3. OthersOf(cs) \in SUBSET (DOMAIN cs)  BY DEF OthersOf
<1>4. IsFiniteSet(OthersOf(cs))  BY <1>2, <1>3, FS_Subset
<1> QED BY <1>1, <1>4, FS_CardinalityType DEF OthersOf, OursOf

LEMMA Removed ==
    ASSUME NEW n, NEW cs \in Seq(Comment(n)), Tidy(cs), NEW i \in DOMAIN cs
    PROVE  /\ Tidy(RemoveAt(cs, i))
           /\ i \notin OursOf(cs) => PushesOf(RemoveAt(cs, i)) = PushesOf(cs)
           /\ i \in OursOf(cs) => OursOf(RemoveAt(cs, i)) = {}
<1> DEFINE t == RemoveAt(cs, i)
           N == Len(cs)
           f == [j \in OthersOf(t) |-> After(i, j)]
<1>1. N \in Nat /\ DOMAIN cs = 1..N /\ i \in 1..N /\ cs \in Seq(Comment(n))  BY CommentsAre
<1>2. /\ t \in Seq(Comment(n)) /\ DOMAIN t = 1..(N - 1)
      /\ \A j \in 1..(N - 1) : t[j] = cs[After(i, j)]
    <2>1. /\ t \in Seq(Comment(n)) /\ Len(t) = N - 1
          /\ \A j \in 1..(N - 1) : t[j] = cs[After(i, j)]
        BY RemoveAtIs
    <2> HIDE DEF t
    <2> QED BY <2>1, LenProperties
<1> HIDE DEF t, N
<1>3. \A j \in DOMAIN t : After(i, j) \in DOMAIN cs /\ After(i, j) # i /\ t[j] = cs[After(i, j)]
    BY <1>1, <1>2 DEF After
<1>4. \A j, m \in DOMAIN t : After(i, j) = After(i, m) => j = m
    BY <1>1, <1>2 DEF After
<1>5. \A j \in DOMAIN cs \ {i} : \E m \in DOMAIN t : After(i, m) = j
    <2> SUFFICES ASSUME NEW j \in DOMAIN cs, j # i PROVE \E m \in DOMAIN t : After(i, m) = j
        OBVIOUS
    <2>1. CASE j < i
        <3>1. j \in DOMAIN t /\ After(i, j) = j  BY <1>1, <1>2, <2>1 DEF After
        <3> QED BY <3>1
    <2>2. CASE j > i
        <3>1. j - 1 \in DOMAIN t /\ After(i, j - 1) = j  BY <1>1, <1>2, <2>2 DEF After
        <3> QED BY <3>1
    <2> QED BY <1>1, <2>1, <2>2
<1>6. \A i1, j1 \in OursOf(t) : i1 = j1  BY <1>3, <1>4 DEF Tidy, OursOf
<1>7. \A i1, j1 \in DOMAIN t : t[i1].id = t[j1].id => i1 = j1  BY <1>3, <1>4 DEF Tidy
<1>8. Cardinality(OthersOf(t)) <= MaxOthers
    <2>1. f \in Injection(OthersOf(t), OthersOf(cs))
        <3>1. \A j \in OthersOf(t) : j \in DOMAIN t /\ After(i, j) \in OthersOf(cs)
            BY <1>3 DEF OthersOf
        <3>2. f \in [OthersOf(t) -> OthersOf(cs)]  BY <3>1
        <3>3. \A j, m \in OthersOf(t) : f[j] = f[m] => j = m  BY <1>4, <3>1
        <3> HIDE DEF f
        <3> QED BY <3>2, <3>3 DEF Injection, IsInjective
    <2>2. Cardinality(OthersOf(t)) <= Cardinality(OthersOf(cs))
        BY <2>1, CommentsAre, FS_Injection
    <2>3. Cardinality(OthersOf(t)) \in Nat /\ Cardinality(OthersOf(cs)) \in Nat
        BY <1>1, <1>2, CommentsAre
    <2> QED BY <2>2, <2>3, Constants DEF Tidy
<1>9. ASSUME i \notin OursOf(cs) PROVE PushesOf(t) = PushesOf(cs)
    <2>1. \A x : (\E j \in OursOf(t) : x = t[j].push) <=> (\E j \in OursOf(cs) : x = cs[j].push)
        BY <1>3, <1>5, <1>9 DEF OursOf
    <2> QED BY <2>1 DEF PushesOf
<1>10. ASSUME i \in OursOf(cs) PROVE OursOf(t) = {}
    <2>1. \A j \in OursOf(cs) : j = i  BY <1>10 DEF Tidy
    <2> QED BY <1>3, <2>1 DEF OursOf
<1>11. Tidy(t)  BY <1>6, <1>7, <1>8 DEF Tidy
<1> QED BY <1>9, <1>10, <1>11 DEF t

LEMMA Posted ==
    ASSUME NEW n \in Nat, NEW cs \in Seq(Comment(n)), Tidy(cs), NEW c \in Comment(n + 1), c.id = n,
           IF c.ours THEN OursOf(cs) = {} ELSE Cardinality(OthersOf(cs)) < MaxOthers
    PROVE  /\ Tidy(Append(cs, c))
           /\ ~c.ours => /\ OursOf(Append(cs, c)) = OursOf(cs)
                         /\ \A i \in OursOf(cs) : Append(cs, c)[i] = cs[i]
           /\ c.ours => /\ OursOf(Append(cs, c)) = {Len(cs) + 1}
                        /\ Append(cs, c)[Len(cs) + 1] = c
<1> DEFINE t == Append(cs, c)
           N == Len(cs)
           last == N + 1
<1>1. cs \in Seq(Comment(n + 1))  BY CommentsGrow
<1>2. /\ N \in Nat /\ DOMAIN cs = 1..N /\ \A i \in DOMAIN cs : cs[i] \in Comment(n)
      /\ IsFiniteSet(OthersOf(cs)) /\ Cardinality(OthersOf(cs)) \in Nat
    BY CommentsAre
<1>3. t \in Seq(Comment(n + 1)) /\ Len(t) = N + 1 /\ t[N + 1] = c /\ \A i \in 1..N : t[i] = cs[i]
    BY <1>1, AppendProperties
<1> HIDE DEF t, N
<1>4. DOMAIN t = DOMAIN cs \cup {last} /\ last \notin DOMAIN cs
    <2>1. DOMAIN t = 1..(N + 1)  BY <1>2, <1>3, LenProperties
    <2> QED BY <1>2, <2>1
<1>5. t[last] = c /\ \A i \in DOMAIN cs : t[i] = cs[i] /\ cs[i].id # n
    <2>1. \A i \in DOMAIN cs : cs[i].id < n  BY <1>2 DEF Comment
    <2> QED BY <1>2, <1>3, <2>1
<1> HIDE DEF last
<1>6. \A i, j \in DOMAIN t : t[i].id = t[j].id => i = j  BY <1>4, <1>5 DEF Tidy
<1>7. CASE c.ours
    <2>1. OursOf(t) = {last} /\ OthersOf(t) = OthersOf(cs)
        BY <1>4, <1>5, <1>7 DEF OursOf, OthersOf
    <2>2. Tidy(t)  BY <1>6, <2>1 DEF Tidy
    <2> QED BY <1>5, <1>7, <2>1, <2>2 DEF t, last, N
<1>8. CASE ~c.ours
    <2>1. OursOf(t) = OursOf(cs) /\ OthersOf(t) = OthersOf(cs) \cup {last}
        BY <1>4, <1>5, <1>8 DEF OursOf, OthersOf
    <2>2. Cardinality(OthersOf(t)) <= Cardinality(OthersOf(cs)) + 1
        <3>1. Cardinality(OthersOf(cs) \cup {last}) =
                  IF last \in OthersOf(cs) THEN Cardinality(OthersOf(cs)) ELSE Cardinality(OthersOf(cs)) + 1
            BY <1>2, FS_AddElement
        <3> QED BY <1>2, <2>1, <3>1
    <2>3. Cardinality(OthersOf(t)) \in Nat  BY <1>3, CommentsAre
    <2>4. Tidy(t)  BY <1>2, <1>6, <1>8, <2>1, <2>2, <2>3, Constants DEF Tidy
    <2>5. \A i \in OursOf(cs) : t[i] = cs[i]  BY <1>5 DEF OursOf
    <2> QED BY <1>8, <2>1, <2>4, <2>5 DEF t
<1> QED BY <1>7, <1>8

Edit(cs, id, k) ==
    [j \in DOMAIN cs |-> IF cs[j].id = id THEN [cs[j] EXCEPT !.push = k] ELSE cs[j]]

LEMMA Edited ==
    ASSUME NEW n, NEW cs \in Seq(Comment(n)), Tidy(cs), NEW id, NEW k,
           \E i \in OursOf(cs) : cs[i].id = id
    PROVE  Tidy(Edit(cs, id, k)) /\ PushesOf(Edit(cs, id, k)) = {k}
<1> DEFINE t == Edit(cs, id, k)
<1>1. \A j \in DOMAIN cs : cs[j] \in Comment(n)  BY CommentsAre
<1>2. ASSUME NEW j \in DOMAIN cs
      PROVE  /\ t[j].id = cs[j].id /\ (t[j].ours <=> cs[j].ours)
             /\ cs[j].id = id => t[j].push = k
    <2>1. /\ [cs[j] EXCEPT !.push = k].id = cs[j].id
          /\ [cs[j] EXCEPT !.push = k].push = k
          /\ [cs[j] EXCEPT !.push = k].ours = cs[j].ours
        BY <1>1 DEF Comment
    <2> QED BY <2>1 DEF Edit
<1>3. DOMAIN t = DOMAIN cs  BY DEF Edit
<1> HIDE DEF t
<1>4. OursOf(t) = OursOf(cs) /\ OthersOf(t) = OthersOf(cs)
    BY <1>2, <1>3 DEF OursOf, OthersOf
<1>5. PICK i \in OursOf(cs) : cs[i].id = id  OBVIOUS
<1>6. Tidy(t)  BY <1>2, <1>3, <1>4 DEF Tidy
<1>7. OursOf(cs) = {i} /\ t[i].push = k  BY <1>2, <1>5 DEF OursOf, Tidy
<1> QED BY <1>4, <1>6, <1>7 DEF t, PushesOf

-----------------------------------------------------------------------------
(***************************************************************************)
(* When runs never overlap: what holds of the comments while one searches  *)
(* and writes.                                                             *)
(***************************************************************************)
(* The push the tool's comment is of once run k's write went through.      *)
Due(k) == IF pushes[k] = NoMigrations THEN {} ELSE {k}

Searched(k) ==
    /\ run[k].pc = "listing" => \A i \in OursOf(comments) : i > (run[k].page - 1) * PageSize
    /\ run[k].pc = "writing" =>
          IF run[k].found = NoComment THEN OursOf(comments) = {}
          ELSE \E i \in OursOf(comments) : comments[i].id = run[k].found

OneAtATime ==
    /\ Tidy(comments)
    /\ \A k \in Pushes : run[k].pc = "waiting" => run[k].page = 1
    /\ \A k \in Pushes : run[k].pc # "waiting" =>
          k \in Pushed /\ \A j \in 1..(k - 1) : run[j].pc = "done"
    /\ \A k \in Pushes : Searched(k)
    /\ \A k \in Pushes :
          /\ run[k].comment = "ok"
          /\ \A j \in Pushes : j > k => run[j].pc = "waiting"
          => PushesOf(comments) = Due(k)

(* A page that is not full, or the last one read, has no comments after it *)
(* that could be the tool's.                                               *)
LEMMA NothingFurther ==
    ASSUME TypeOK, Tidy(comments), NEW p \in 1..MaxPages, LastPage(p), FoundOn(p) = NoComment,
           \A i \in OursOf(comments) : i > (p - 1) * PageSize
    PROVE  OursOf(comments) = {}
<1> DEFINE a == (p - 1) * PageSize
           b == p * PageSize
<1>1. /\ p \in Nat /\ p >= 1 /\ PageSize \in Nat /\ a \in Nat /\ b \in Nat /\ b = a + PageSize
      /\ p = MaxPages => MaxOthers < b
    BY Constants
<1>2. PageIndices(p) = DOMAIN comments \cap ((a + 1)..b)  BY DEF PageIndices
<1>3. Cardinality(PageIndices(p)) < PageSize \/ p = MaxPages  BY DEF LastPage
<1> HIDE DEF a, b
<1>4. /\ comments \in Seq(Comment(nextId)) /\ Len(comments) \in Nat
      /\ DOMAIN comments = 1..Len(comments)
    BY CommentsAre, TypedIs
<1>5. \A i \in PageIndices(p) : i \notin OursOf(comments)  BY FoundTyped DEF OursOf
<1> SUFFICES ASSUME NEW i \in OursOf(comments) PROVE FALSE
    OBVIOUS
<1>6. i \in 1..Len(comments) /\ i > b
    <2>1. i \in DOMAIN comments /\ i > a /\ i \notin (a + 1)..b
        BY <1>2, <1>5 DEF OursOf, a
    <2> QED BY <1>1, <1>4, <2>1
<1>7. CASE Cardinality(PageIndices(p)) < PageSize
    <2>1. PageIndices(p) = (a + 1)..b  BY <1>1, <1>2, <1>4, <1>6
    <2>2. Cardinality((a + 1)..b) = PageSize
        <3>1. Cardinality((a + 1)..b) = IF a + 1 > b THEN 0 ELSE b - (a + 1) + 1
            BY <1>1, FS_Interval
        <3> QED BY <1>1, <3>1
    <2> QED BY <1>1, <1>7, <2>1, <2>2
<1>8. CASE p = MaxPages
    <2> DEFINE N == Len(comments)
    <2>1. OthersOf(comments) = 1..N \ {i}
        BY <1>4, CommentsAre DEF Tidy
    <2>2. IsFiniteSet(1..N) /\ Cardinality(1..N) = N
        <3>1. 1 \in Int /\ N \in Int  BY <1>4
        <3> HIDE DEF N
        <3>2. IsFiniteSet(1..N) /\ Cardinality(1..N) = IF 1 > N THEN 0 ELSE N - 1 + 1
            BY <3>1, FS_Interval
        <3>3. N \in Nat  BY <1>4 DEF N
        <3> QED BY <3>2, <3>3
    <2>3. Cardinality(1..N \ {i}) = N - 1  BY <1>6, <2>2, FS_RemoveElement
    <2> QED BY <1>1, <1>4, <1>6, <1>8, <2>1, <2>3, Constants DEF Tidy
<1> QED BY <1>3, <1>7, <1>8

(* What a write does, when what the search found is so.                    *)
LEMMA WriteIs ==
    ASSUME TypeOK, Tidy(comments), NEW k \in Pushed, Searched(k), run[k].pc = "writing"
    PROVE  Tidy(CommentsAfter(k)) /\ PushesOf(CommentsAfter(k)) = Due(k)
<1>1. /\ comments \in Seq(Comment(nextId)) /\ nextId \in Nat \ {0} /\ run[k] \in Runs
      /\ k \in 1..MaxPushes
    BY TypedIs, RunIs DEF Pushes
<1>2. \A i \in DOMAIN comments : comments[i].id # NoComment
    <2>1. \A i \in DOMAIN comments : comments[i] \in Comment(nextId)  BY <1>1, CommentsAre
    <2> QED BY <1>1, <2>1, Constants DEF Comment
<1>3. CASE run[k].found = NoComment
    <2>1. OursOf(comments) = {}  BY <1>3 DEF Searched
    <2>2. CASE pushes[k] = NoMigrations
        <3>1. CommentsAfter(k) = comments  BY <1>2, <1>3, <2>2 DEF CommentsAfter, Except
        <3> QED BY <2>1, <2>2, <3>1 DEF PushesOf, Due
    <2>3. CASE pushes[k] # NoMigrations
        <3> DEFINE c == [id |-> nextId, ours |-> TRUE, push |-> k]
                   t == Append(comments, c)
        <3>1. CommentsAfter(k) = t  BY <1>3, <2>3 DEF CommentsAfter, Posts
        <3>2. c \in Comment(nextId + 1) /\ c.ours /\ c.id = nextId /\ c.push = k
            BY <1>1 DEF Comment
        <3> HIDE DEF c
        <3>3. Tidy(t) /\ OursOf(t) = {Len(comments) + 1} /\ t[Len(comments) + 1] = c
            BY <1>1, <2>1, <3>2, Posted
        <3> HIDE DEF t
        <3>4. PushesOf(t) = {k}  BY <3>2, <3>3 DEF PushesOf
        <3> QED BY <2>3, <3>1, <3>3, <3>4 DEF Due
    <2> QED BY <2>2, <2>3
<1>4. CASE run[k].found # NoComment
    <2>1. PICK i \in OursOf(comments) : comments[i].id = run[k].found  BY <1>4 DEF Searched
    <2>2. OursOf(comments) = {i} /\ i \in DOMAIN comments  BY DEF Tidy, OursOf
    <2>3. CASE pushes[k] = NoMigrations
        <3> DEFINE t == RemoveAt(comments, i)
        <3>1. CommentsAfter(k) = t
            <4> DEFINE j == CHOOSE j \in DOMAIN comments : comments[j].id = run[k].found
            <4>1. j \in DOMAIN comments /\ comments[j].id = run[k].found  BY <2>1, <2>2
            <4> HIDE DEF j
            <4>2. j = i  BY <2>1, <2>2, <4>1 DEF Tidy
            <4> QED BY <2>1, <2>2, <2>3, <4>2 DEF CommentsAfter, Except, j
        <3>2. Tidy(t) /\ OursOf(t) = {}  BY <1>1, <2>2, Removed
        <3> HIDE DEF t
        <3> QED BY <2>3, <3>1, <3>2 DEF PushesOf, Due
    <2>4. CASE pushes[k] # NoMigrations
        <3> DEFINE t == Edit(comments, run[k].found, k)
        <3>1. CommentsAfter(k) = t  BY <1>4, <2>4 DEF CommentsAfter, Posts, Edit
        <3>2. Tidy(t) /\ PushesOf(t) = {k}  BY <1>1, <2>1, Edited
        <3> HIDE DEF t
        <3> QED BY <2>4, <3>1, <3>2 DEF Due
    <2> QED BY <2>3, <2>4
<1> QED BY <1>3, <1>4

(* The searches of the comments, and what they must come to, by sequence.  *)
SearchedIn(cs, r) ==
    /\ r.pc = "listing" => \A i \in OursOf(cs) : i > (r.page - 1) * PageSize
    /\ r.pc = "writing" =>
          IF r.found = NoComment THEN OursOf(cs) = {}
          ELSE \E i \in OursOf(cs) : cs[i].id = r.found

LEMMA AloneIs ==
    OneAtATime <=>
        /\ Tidy(comments)
        /\ \A k \in Pushes :
              /\ run[k].pc = "waiting" => run[k].page = 1
              /\ run[k].pc # "waiting" => k \in Pushed /\ \A j \in 1..(k - 1) : run[j].pc = "done"
              /\ SearchedIn(comments, run[k])
              /\ run[k].comment = "ok" /\ (\A j \in Pushes : j > k => run[j].pc = "waiting")
                    => PushesOf(comments) = Due(k)
BY DEF OneAtATime, SearchedIn, Searched

LEMMA AloneNextIs ==
    OneAtATime' <=>
        /\ Tidy(comments')
        /\ \A k \in Pushes :
              /\ run'[k].pc = "waiting" => run'[k].page = 1
              /\ run'[k].pc # "waiting" => k \in Pushed' /\ \A j \in 1..(k - 1) : run'[j].pc = "done"
              /\ SearchedIn(comments', run'[k])
              /\ run'[k].comment = "ok" /\ (\A j \in Pushes : j > k => run'[j].pc = "waiting")
                    => PushesOf(comments') = Due(k)'
BY DEF OneAtATime, SearchedIn, Searched, Tidy, PushesOf, OursOf, OthersOf

(* People write and delete: the tool's comment stays.                      *)
LEMMA OthersStep ==
    ASSUME Alone, TypeOK, OneAtATime, SomeoneComments \/ SomeoneDeletes
    PROVE  OneAtATime'
<1>1. UNCHANGED <<run, pushes, config>>  BY DEF SomeoneComments, SomeoneDeletes
<1>2. \A k \in Pushes : Due(k)' = Due(k)  BY <1>1 DEF Due, NoMigrations
<1>3. comments \in Seq(Comment(nextId)) /\ nextId \in Nat  BY TypedIs
<1>4. Tidy(comments') /\ PushesOf(comments') = PushesOf(comments)
      /\ \A k \in Pushes : SearchedIn(comments', run[k])
    <2>1. CASE SomeoneComments
        <3> DEFINE c == [id |-> nextId, ours |-> FALSE, push |-> 0]
        <3>1. comments' = Append(comments, c) /\ Cardinality(OthersOf(comments)) < MaxOthers
            BY <2>1 DEF SomeoneComments, Others, OthersOf
        <3>2. c \in Comment(nextId + 1) /\ ~c.ours /\ c.id = nextId
            <4>1. nextId \in Nat \ {0}  BY TypedIs
            <4> QED BY <4>1, Constants DEF Comment
        <3> HIDE DEF c
        <3>3. /\ Tidy(comments') /\ OursOf(comments') = OursOf(comments)
              /\ \A i \in OursOf(comments) : comments'[i] = comments[i]
            <4>1. Tidy(comments)  BY DEF OneAtATime
            <4>2. IF c.ours THEN OursOf(comments) = {} ELSE Cardinality(OthersOf(comments)) < MaxOthers
                BY <3>1, <3>2
            <4>3. /\ Tidy(Append(comments, c))
                  /\ ~c.ours => /\ OursOf(Append(comments, c)) = OursOf(comments)
                                /\ \A i \in OursOf(comments) : Append(comments, c)[i] = comments[i]
                BY <1>3, <3>2, <4>1, <4>2, Posted
            <4> QED BY <3>1, <3>2, <4>3
        <3>4. \A k \in Pushes : SearchedIn(comments', run[k])  BY <3>3, AloneIs DEF SearchedIn
        <3> QED BY <3>3, <3>4 DEF PushesOf
    <2>2. CASE SomeoneDeletes
        <3>1. PICK i \in DOMAIN comments : ~comments[i].ours /\ comments' = RemoveAt(comments, i)
            BY <2>2 DEF SomeoneDeletes, Others
        <3>2. i \notin OursOf(comments)  BY <3>1 DEF OursOf
        <3>3. Tidy(comments)  BY DEF OneAtATime
        <3>4. Tidy(RemoveAt(comments, i)) /\ PushesOf(RemoveAt(comments, i)) = PushesOf(comments)
            BY <1>3, <3>2, <3>3, Removed
        <3>5. \A k \in Pushes : run[k].pc \notin {"listing", "writing"}
            BY <2>2, AloneIs DEF SomeoneDeletes, Quiet, Publishing
        <3>6. PushesOf(comments)' = PushesOf(RemoveAt(comments, i))  BY <3>1 DEF PushesOf, OursOf
        <3> QED BY <3>1, <3>4, <3>5, <3>6 DEF SearchedIn
    <2> QED BY <2>1, <2>2
<1> QED BY <1>1, <1>2, <1>4, AloneIs, AloneNextIs DEF Pushed

LEMMA ReadStep ==
    ASSUME Alone, TypeOK, OneAtATime, NEW v \in Verdicts, Push(v)
    PROVE  OneAtATime'
<1>1. UNCHANGED <<comments, run>> /\ Pushed \subseteq Pushed'  BY PushIs
<1>2. \A k \in Pushed : Due(k)' = Due(k)  BY PushIs DEF Due, NoMigrations
<1>3. \A k \in Pushes : run[k].comment = "ok" => k \in Pushed
    <2>1. \A k \in Pushes : RunOK(run[k])  BY TypedIs
    <2> QED BY <2>1, AloneIs DEF RunOK
<1> QED BY <1>1, <1>2, <1>3, AloneIs, AloneNextIs

(* The one run that is under way.                                          *)
LEMMA RunAlone ==
    ASSUME Alone, TypeOK, OneAtATime, NEW k \in Pushed, RunStep(k),
           Tidy(comments'), SearchedIn(comments', run'[k]),
           run'[k].comment = "ok" /\ (\A j \in Pushes : j > k => run'[j].pc = "waiting")
               => PushesOf(comments') = Due(k)
    PROVE  OneAtATime'
<1>1. /\ k \in Pushes /\ Pushes = 1..MaxPushes /\ MaxPushes \in Nat
      /\ \A j \in Pushes \ {k} : run'[j] = run[j]
      /\ run[k].pc # "done" /\ run'[k].pc # "waiting" /\ Pushed' = Pushed
      /\ \A j \in 1..(k - 1) : j \in Pushes /\ run[j].pc = "done"
    <2>1. \A j \in 1..(k - 1) : run[j].pc = "done"  BY RunStepIs, AloneIs
    <2> QED BY <2>1, RunStepIs, Constants DEF Pushes, Pushed
<1>2. \A j \in Pushes : Due(j)' = Due(j)  BY RunStepIs DEF Due, NoMigrations
<1>3. ASSUME NEW j \in Pushes, j # k
      PROVE  /\ run'[j].pc = "waiting" => run'[j].page = 1
             /\ run'[j].pc # "waiting" => j \in Pushed' /\ \A m \in 1..(j - 1) : run'[m].pc = "done"
             /\ SearchedIn(comments', run'[j])
             /\ ~(run'[j].comment = "ok" /\ \A m \in Pushes : m > j => run'[m].pc = "waiting")
    <2>1. CASE j < k
        <3>1. j \in 1..(k - 1)  BY <1>1, <2>1
        <3>2. run'[j] = run[j] /\ run[j].pc = "done"  BY <1>1, <1>3, <3>1
        <3>3. \A m \in 1..(j - 1) : m \in 1..(k - 1) /\ m \in Pushes /\ m # k  BY <1>1, <2>1
        <3> QED BY <1>1, <2>1, <3>2, <3>3, AloneIs DEF SearchedIn
    <2>2. CASE j > k
        <3>1. k \in 1..(j - 1)  BY <1>1, <2>2
        <3>2. run[j].pc = "waiting" /\ run'[j] = run[j]  BY <1>1, <1>3, <3>1, AloneIs
        <3>3. run[j].comment # "ok"
            <4>1. RunOK(run[j])  BY TypedIs
            <4> QED BY <3>2, <4>1 DEF RunOK
        <3> QED BY <3>2, <3>3, AloneIs DEF SearchedIn
    <2> QED BY <1>1, <1>3, <2>1, <2>2
<1>4. /\ k \in Pushed' /\ \A j \in 1..(k - 1) : run'[j].pc = "done"
    BY <1>1
<1> QED BY <1>1, <1>2, <1>3, <1>4, AloneNextIs

LEMMA RunAloneStep ==
    ASSUME Alone, TypeOK, OneAtATime, NEW k \in Pushed, RunStep(k)
    PROVE  OneAtATime'
<1> DEFINE p == run[k].page
           Later == \A j \in Pushes : j > k => run[j].pc = "waiting"
           LaterNext == \A j \in Pushes : j > k => run'[j].pc = "waiting"
<1>1. /\ run[k] \in Runs /\ k \in Pushes /\ RunOK(run[k]) /\ Tidy(comments)
      /\ SearchedIn(comments, run[k]) /\ p \in 1..MaxPages
      /\ AfterComment \in {"checking", "finishing"}
    <2>1. run[k] \in Runs /\ k \in Pushes /\ RunOK(run[k])  BY RunIs
    <2> QED BY <2>1, TypedParts, AloneIs DEF Runs
<1>2. LaterNext => Later  BY <1>1, RunStepIs, Constants DEF Pushes
<1>3. ASSUME NEW outcome, Published(k, outcome), Tidy(comments'),
             outcome = "ok" => PushesOf(comments') = Due(k)
      PROVE  OneAtATime'
    <2>1. SearchedIn(comments', run'[k])  BY <1>1, <1>3 DEF Published, Is, SearchedIn
    <2> QED BY <1>3, <2>1, RunAlone DEF Published, Is
<1>4. ASSUME Aborted(k), Tidy(comments'), run[k].comment # "ok" \/ comments' = comments
      PROVE  OneAtATime'
    <2>1. SearchedIn(comments', run'[k])  BY <1>4 DEF Aborted, Is, SearchedIn
    <2>2. run[k].comment = "ok" /\ Later => PushesOf(comments) = Due(k)  BY <1>1, AloneIs
    <2> QED BY <1>2, <1>4, <2>1, <2>2, RunAlone DEF Aborted, Is
<1>5. CASE Start(k)
    <2>1. /\ comments' = comments /\ run[k].pc = "waiting" /\ run'[k].page = p
          /\ run'[k].comment = run[k].comment
          /\ run'[k].pc \in {"listing", "checking", "finishing"}
        BY <1>1, <1>5, StartIs DEF Is
    <2>2. p = 1 /\ run[k].comment # "ok"  BY <1>1, <2>1, AloneIs DEF RunOK
    <2>3. SearchedIn(comments', run'[k])
        <3>1. (1 - 1) * PageSize = 0  BY Constants
        <3>2. \A i \in OursOf(comments) : i > 0
            <4>1. comments \in Seq(Comment(nextId))  BY TypedIs
            <4> QED BY <4>1, CommentsAre DEF OursOf
        <3> QED BY <2>1, <2>2, <3>1, <3>2 DEF SearchedIn
    <2> QED BY <1>1, <2>1, <2>2, <2>3, RunAlone
<1>6. CASE ListPage(k)
    <2>1. comments' = comments /\ run[k].pc = "listing" /\ run[k].comment # "ok"
        BY <1>1, <1>6, ListPageIs DEF RunOK
    <2>2. \A i \in OursOf(comments) : i > (p - 1) * PageSize  BY <1>1, <2>1 DEF SearchedIn
    <2>3. ASSUME FoundOn(p) # NoComment \/ LastPage(p),
                 Is(k, "writing", p, FoundOn(p), run[k].comment, run[k].exit)
          PROVE  OneAtATime'
        <3>1. run'[k].pc = "writing" /\ run'[k].found = FoundOn(p) /\ run'[k].comment = run[k].comment
            BY <2>3 DEF Is
        <3>2. CASE FoundOn(p) = NoComment
            <4>1. OursOf(comments) = {}  BY <1>1, <2>2, <2>3, <3>2, NothingFurther
            <4> QED BY <1>1, <2>1, <3>1, <3>2, <4>1, RunAlone DEF SearchedIn
        <3>3. CASE FoundOn(p) # NoComment
            <4>1. \E i \in OursOf(comments) : comments[i].id = FoundOn(p)
                BY <1>1, <3>3, FoundTyped DEF OursOf, PageIndices
            <4> QED BY <1>1, <2>1, <3>1, <3>3, <4>1, RunAlone DEF SearchedIn
        <3> QED BY <3>2, <3>3
    <2>4. ASSUME FoundOn(p) = NoComment,
                 Is(k, "listing", p + 1, run[k].found, run[k].comment, run[k].exit)
          PROVE  OneAtATime'
        <3>1. run'[k].pc = "listing" /\ run'[k].page = p + 1 /\ run'[k].comment = run[k].comment
            BY <2>4 DEF Is
        <3>2. \A i \in OursOf(comments) : i > p * PageSize
            <4> SUFFICES ASSUME NEW i \in OursOf(comments) PROVE i > p * PageSize
                OBVIOUS
            <4>1. i \in DOMAIN comments /\ i \in Nat
                <5>1. comments \in Seq(Comment(nextId))  BY TypedIs
                <5> QED BY <5>1, CommentsAre DEF OursOf
            <4>2. i \notin PageIndices(p)  BY <1>1, <2>4, FoundTyped DEF OursOf
            <4>3. i > (p - 1) * PageSize  BY <2>2
            <4>4. (p - 1) * PageSize \in Nat /\ p * PageSize \in Nat  BY <1>1, Constants
            <4> QED BY <4>1, <4>2, <4>3, <4>4 DEF PageIndices
        <3>3. (p + 1) - 1 = p  BY <1>1
        <3> QED BY <1>1, <2>1, <3>1, <3>2, <3>3, RunAlone DEF SearchedIn
    <2> QED BY <1>1, <1>3, <1>4, <1>6, <2>1, <2>3, <2>4, ListPageIs
<1>7. CASE WriteComment(k)
    <2>1. run[k].pc = "writing" /\ run[k].comment # "ok"
        BY <1>1, <1>7, WriteCommentIs DEF RunOK
    <2>2. Tidy(CommentsAfter(k)) /\ PushesOf(CommentsAfter(k)) = Due(k)
        <3>1. Searched(k)  BY <1>1 DEF Searched, SearchedIn
        <3> QED BY <1>1, <2>1, <3>1, WriteIs
    <2>3. Tidy(comments')  BY <1>1, <1>7, <2>2, WriteCommentIs
    <2> QED BY <1>3, <1>4, <1>7, <2>1, <2>2, <2>3, WriteCommentIs
<1>8. CASE CreateCheckRun(k)
    <2>1. comments' = comments  BY <1>8, CreateCheckRunIs
    <2>2. ASSUME Is(k, "finishing", p, run[k].found, run[k].comment, run[k].exit)
          PROVE  OneAtATime'
        <3>1. SearchedIn(comments', run'[k])  BY <2>2 DEF Is, SearchedIn
        <3>2. run[k].comment = "ok" /\ Later => PushesOf(comments) = Due(k)  BY <1>1, AloneIs
        <3> QED BY <1>1, <1>2, <2>1, <2>2, <3>1, <3>2, RunAlone DEF Is
    <2> QED BY <1>1, <1>4, <1>8, <2>1, <2>2, CreateCheckRunIs
<1>9. CASE Finish(k)
    <2>1. comments' = comments /\ run'[k].pc = "done" /\ run'[k].comment = run[k].comment
        BY <1>9, FinishIs DEF Is
    <2>2. SearchedIn(comments', run'[k])  BY <2>1 DEF SearchedIn
    <2>3. run[k].comment = "ok" /\ Later => PushesOf(comments) = Due(k)  BY <1>1, AloneIs
    <2> QED BY <1>1, <1>2, <2>1, <2>2, <2>3, RunAlone
<1> QED BY <1>5, <1>6, <1>7, <1>8, <1>9 DEF RunStep

LEMMA AloneStep ==
    ASSUME Alone, TypeOK, OneAtATime, [Next]_vars
    PROVE  OneAtATime'
<1>1. ASSUME UNCHANGED vars PROVE OneAtATime'
    <2>1. UNCHANGED <<comments, run, pushes>> /\ Pushed' = Pushed /\ \A k \in Pushes : Due(k)' = Due(k)
        BY <1>1 DEF vars, Pushed, Due, NoMigrations
    <2> QED BY <2>1, AloneIs, AloneNextIs
<1> QED BY <1>1, OthersStep, ReadStep, RunAloneStep DEF Next

LEMMA AloneInit ==
    ASSUME Init
    PROVE  OneAtATime
<1>1. comments = <<>> /\ OursOf(comments) = {} /\ OthersOf(comments) = {}
    BY DEF Init, OursOf, OthersOf
<1>2. Cardinality(OthersOf(comments)) <= MaxOthers
    <2>1. OthersOf(comments) = {}  BY <1>1
    <2>2. Cardinality(OthersOf(comments)) = 0
        <3> HIDE DEF OthersOf
        <3>1. Cardinality({}) = 0  BY FS_EmptySet
        <3> QED BY <2>1, <3>1
    <2>3. 0 <= MaxOthers  BY ListedAssumption
    <2> QED BY <2>2, <2>3
<1>3. Tidy(comments)  BY <1>1, <1>2 DEF Tidy
<1>4. \A k \in Pushes : run[k].pc = "waiting" /\ run[k].page = 1 /\ run[k].comment = "untried"
    BY DEF Init
<1> QED BY <1>1, <1>3, <1>4, AloneIs DEF SearchedIn

(***************************************************************************)
(* When runs do not overlap, and for every number of pushes, pages and     *)
(* comments, the pull request never carries two of the tool's comments,    *)
(* whatever calls failed or lost their answer (github.py, upsert_comment). *)
(***************************************************************************)
THEOREM CommentIsOne == ASSUME Alone PROVE Spec => []OneComment
<1>1. Init => OneAtATime  BY AloneInit
<1>2. TypeOK /\ OneAtATime /\ [Next]_vars => OneAtATime'  BY AloneStep
<1>3. TypeOK /\ OneAtATime => OneComment
    <2> SUFFICES ASSUME TypeOK, OneAtATime PROVE OneComment  OBVIOUS
    <2>1. Ours = OursOf(comments) /\ \A i, j \in Ours : i = j
        BY AloneIs DEF Ours, OursOf, Tidy
    <2>2. CASE Ours = {}
        <3>1. Cardinality({}) = 0  BY FS_EmptySet
        <3> QED BY <2>2, <3>1 DEF OneComment
    <2>3. CASE Ours # {}
        <3>1. PICK i \in Ours : Ours = {i}  BY <2>1, <2>3
        <3>2. Cardinality({i}) = 1  BY FS_Singleton
        <3> QED BY <3>1, <3>2 DEF OneComment
    <2> QED BY <2>2, <2>3
<1> QED BY <1>1, <1>2, <1>3, PublishTyped, PTL DEF Spec

(***************************************************************************)
(* Under the same condition, once the runs are over and the newest push's  *)
(* write went through, its verdict is what stands (github.py,              *)
(* upsert_comment: "only the newest one is true").                         *)
(***************************************************************************)
THEOREM NewestStands == ASSUME Alone PROVE Spec => []NewestVerdictStands
<1>1. Init => OneAtATime  BY AloneInit
<1>2. TypeOK /\ OneAtATime /\ [Next]_vars => OneAtATime'  BY AloneStep
<1>3. TypeOK /\ OneAtATime => NewestVerdictStands
    <2> SUFFICES ASSUME TypeOK, OneAtATime, pushes # <<>>, run[Len(pushes)].comment = "ok"
                 PROVE  {comments[i].push : i \in Ours} = Due(Len(pushes))
        BY DEF NewestVerdictStands, Due
    <2>1. pushes \in Seq(Verdicts) /\ Len(pushes) <= MaxPushes  BY TypedIs
    <2>2. Len(pushes) \in Pushes
        <3>1. Len(pushes) \in Nat /\ Len(pushes) # 0  BY <2>1, LenProperties
        <3> QED BY <2>1, <3>1, Constants DEF Pushes
    <2>3. \A j \in Pushes : j > Len(pushes) => run[j].pc = "waiting"
        BY <2>2, AloneIs, Constants DEF Pushed, Pushes
    <2>4. PushesOf(comments) = Due(Len(pushes))  BY <2>2, <2>3, AloneIs
    <2> QED BY <2>4 DEF PushesOf, Ours, OursOf
<1> QED BY <1>1, <1>2, <1>3, PublishTyped, PTL DEF Spec
=============================================================================
