----------------------------- MODULE CiPublish ------------------------------
(***************************************************************************)
(* How the verdicts of a pull request's pushes reach its comment and its   *)
(* check statuses (ci/runner.py, _publish; ci/github.py).                  *)
(*                                                                         *)
(* Every push starts a run of "blastoise ci" of its own.  A run looks for  *)
(* the comment an earlier run left, page by page, then edits it, posts one *)
(* or deletes it, then creates a check status, then exits.  The listing    *)
(* and the write are separate calls, and every call can fail: with a       *)
(* GitHubError, which the run reports and survives, or with an exception   *)
(* of another kind (a timeout while the answer is read, an answer that is  *)
(* not JSON), which it does not.  A call that fails may have been carried  *)
(* out: only its answer was lost.                                          *)
(***************************************************************************)
EXTENDS CiRules, FiniteSets, SequencesExt

CONSTANTS
    Configs,    \* fail_on, and whether a comment and a check status are wanted
    Verdicts,   \* what pushes may come to: verdicts, or NoMigrations
    MaxPushes,  \* bound: pushes to the branch
    MaxOthers,  \* bound: comments of other people on the pull request
    MaxId,      \* bound: comments ever posted
    PageSize,   \* comments on a page of the listing (100)
    MaxPages,   \* pages the search reads (20)
    Alone       \* TRUE: runs never overlap, and nobody deletes a comment during one

ASSUME ConfigsAssumption == Configs \subseteq [failOn : FailOns, comment : BOOLEAN, checkRun : BOOLEAN]
ASSUME VerdictsAssumption == Verdicts \subseteq FileVerdicts \cup {"no_migrations"}
ASSUME MaxPushesAssumption == MaxPushes \in Nat
ASSUME PagesAssumption == PageSize \in Nat \ {0} /\ MaxPages \in Nat \ {0}
ASSUME ListedAssumption == MaxOthers \in Nat /\ MaxOthers < PageSize * MaxPages
ASSUME MaxIdAssumption == MaxId \in Nat
ASSUME AloneAssumption == Alone \in BOOLEAN

VARIABLES
    config,    \* the repository's settings, one of Configs
    pushes,    \* per push, the verdict of its migrations, or NoMigrations
    comments,  \* the pull request's comments, oldest first
    nextId,    \* GitHub: the id of the next comment
    run        \* the run of each push

vars == <<config, pushes, comments, nextId, run>>

NoMigrations == "no_migrations"
NoComment == 0

Pushes == 1..MaxPushes
Pushed == 1..Len(pushes)

Publishing == {"listing", "writing", "checking", "finishing"}
Runs == [pc : {"waiting", "done"} \cup Publishing, page : 1..MaxPages, found : Nat,
         comment : {"untried", "ok", "failed"}, exit : ExitCodes]

Verdict(k) == IF pushes[k] = NoMigrations THEN "proceed" ELSE pushes[k]

Quiet == \A k \in Pushed : run[k].pc \notin Publishing

-----------------------------------------------------------------------------
(* GitHub and the people on the pull request.                              *)

Push(v) ==
    /\ Len(pushes) < MaxPushes
    /\ pushes' = Append(pushes, v)
    /\ UNCHANGED <<config, comments, nextId, run>>

Others == {i \in DOMAIN comments : ~comments[i].ours}

SomeoneComments ==
    /\ Cardinality(Others) < MaxOthers
    /\ comments' = Append(comments, [id |-> nextId, ours |-> FALSE, push |-> 0])
    /\ nextId' = nextId + 1
    /\ nextId <= MaxId
    /\ UNCHANGED <<config, pushes, run>>

\* The comments without the one of an id.
Except(id) ==
    IF \E i \in DOMAIN comments : comments[i].id = id
    THEN RemoveAt(comments, CHOOSE i \in DOMAIN comments : comments[i].id = id)
    ELSE comments

SomeoneDeletes ==
    /\ Alone => Quiet
    /\ \E i \in Others : comments' = RemoveAt(comments, i)
    /\ UNCHANGED <<config, pushes, nextId, run>>

-----------------------------------------------------------------------------
(* The calls of a run.                                                     *)

\* A call raised something that is not a GitHubError: run_ci catches it and
\* exits with the tool's own error code.
Abort(k) ==
    run' = [run EXCEPT ![k] = [@ EXCEPT !.pc = "done", !.page = 1, !.found = NoComment,
                                        !.exit = ExitToolError]]

AfterComment == IF config.checkRun THEN "checking" ELSE "finishing"

\* Slip: a comment that failed is tried again, without end.
CommentDoneRetries(k, outcome) ==
    run' = [run EXCEPT ![k] = [@ EXCEPT !.pc = IF outcome = "ok" THEN AfterComment ELSE "listing",
                                        !.page = 1, !.found = NoComment, !.comment = outcome]]

CommentDone(k, outcome) ==
    run' = [run EXCEPT ![k] = [@ EXCEPT !.pc = AfterComment, !.page = 1, !.found = NoComment,
                                        !.comment = outcome]]

Start(k) ==
    /\ run[k].pc = "waiting"
    /\ Alone => Quiet /\ \A j \in 1..(k - 1) : run[j].pc = "done"
    /\ run' = [run EXCEPT ![k].pc = IF config.comment THEN "listing" ELSE AfterComment]
    /\ UNCHANGED <<config, pushes, comments, nextId>>

PageIndices(p) == DOMAIN comments \cap ((p - 1) * PageSize + 1)..(p * PageSize)

\* The first comment on a page that carries the marker.
FoundOn(p) ==
    LET ours == {i \in PageIndices(p) : comments[i].ours}
    IN  IF ours = {} THEN NoComment
        ELSE comments[CHOOSE i \in ours : \A j \in ours : i <= j].id

\* Slip: the cap read as the number of pages after the first.
LastPageEarly(p) == Cardinality(PageIndices(p)) < PageSize \/ p + 1 >= MaxPages

LastPage(p) == Cardinality(PageIndices(p)) < PageSize \/ p = MaxPages

\* find_comment, one page.
ListPage(k) ==
    LET p == run[k].page
        found == FoundOn(p)
    IN  /\ run[k].pc = "listing"
        /\ \/ /\ found # NoComment \/ LastPage(p)
              /\ run' = [run EXCEPT ![k].pc = "writing", ![k].found = found]
           \/ /\ found = NoComment /\ ~LastPage(p)
              /\ run' = [run EXCEPT ![k].page = p + 1]
           \/ CommentDone(k, "failed")
           \/ Abort(k)
        /\ UNCHANGED <<config, pushes, comments, nextId>>

Posts(k) == pushes[k] # NoMigrations /\ run[k].found = NoComment

\* Slip: a push without migrations leaves the comment as it is.
CommentsAfterNoDelete(k) ==
    IF pushes[k] = NoMigrations THEN comments
    ELSE IF Posts(k) THEN Append(comments, [id |-> nextId, ours |-> TRUE, push |-> k])
    ELSE [i \in DOMAIN comments |->
             IF comments[i].id = run[k].found THEN [comments[i] EXCEPT !.push = k] ELSE comments[i]]

\* What the call a run makes does to the comments: nothing without a
\* comment to delete, else DELETE; POST, or PATCH of the comment it found.
CommentsAfter(k) ==
    IF pushes[k] = NoMigrations THEN Except(run[k].found)
    ELSE IF Posts(k) THEN Append(comments, [id |-> nextId, ours |-> TRUE, push |-> k])
    ELSE [i \in DOMAIN comments |->
             IF comments[i].id = run[k].found THEN [comments[i] EXCEPT !.push = k] ELSE comments[i]]

\* The comment the run found is still there: else the call answers 404.
FoundIsThere(k) ==
    run[k].found = NoComment \/ \E i \in DOMAIN comments : comments[i].id = run[k].found

\* upsert_comment and delete_comment, after the search.
WriteComment(k) ==
    /\ run[k].pc = "writing"
    /\ \/ /\ FoundIsThere(k)
          /\ comments' = CommentsAfter(k)
          /\ nextId' = IF Posts(k) THEN nextId + 1 ELSE nextId
          /\ CommentDone(k, "ok")
       \/ /\ pushes[k] # NoMigrations \/ run[k].found # NoComment
          /\ \/ UNCHANGED <<comments, nextId>>
             \/ /\ comments' = CommentsAfter(k)
                /\ nextId' = IF Posts(k) THEN nextId + 1 ELSE nextId
          /\ CommentDone(k, "failed") \/ Abort(k)
    /\ UNCHANGED <<config, pushes>>

\* create_check_run, on the head commit of the push, which no other run
\* sets a status on: only how the call ends matters to the run.
CreateCheckRun(k) ==
    /\ run[k].pc = "checking"
    /\ \/ run' = [run EXCEPT ![k].pc = "finishing"]
       \/ Abort(k)
    /\ UNCHANGED <<config, pushes, comments, nextId>>

Finish(k) ==
    /\ run[k].pc = "finishing"
    /\ run' = [run EXCEPT ![k].pc = "done", ![k].exit = ExitCode(Verdict(k), config.failOn)]
    /\ UNCHANGED <<config, pushes, comments, nextId>>

RunStep(k) == Start(k) \/ ListPage(k) \/ WriteComment(k) \/ CreateCheckRun(k) \/ Finish(k)

-----------------------------------------------------------------------------
Init ==
    /\ config \in Configs
    /\ pushes = <<>>
    /\ comments = <<>>
    /\ nextId = 1
    /\ run = [k \in Pushes |-> [pc |-> "waiting", page |-> 1, found |-> NoComment,
                                comment |-> "untried", exit |-> 0]]

Next ==
    \/ \E v \in Verdicts : Push(v)
    \/ SomeoneComments
    \/ SomeoneDeletes
    \/ \E k \in Pushed : RunStep(k)

\* A job GitHub started is run to its end: each of its calls returns or
\* fails within the transport's timeout.
Spec == Init /\ [][Next]_vars /\ \A k \in Pushes : WF_vars(k \in Pushed /\ RunStep(k))
-----------------------------------------------------------------------------
TypeOK ==
    /\ config \in Configs
    /\ pushes \in Seq(Verdicts) /\ Len(pushes) <= MaxPushes
    /\ comments \in Seq([id : 1..(nextId - 1), ours : BOOLEAN, push : 0..MaxPushes])
    /\ nextId \in Nat \ {0}
    /\ run \in [Pushes -> Runs]
    /\ \A k \in Pushes : /\ run[k].comment # "untried" => run[k].pc \in {"checking", "finishing", "done"}
                         /\ run[k].found # NoComment => run[k].pc = "writing"
                         /\ run[k].exit # 0 => run[k].pc = "done"

Ours == {i \in DOMAIN comments : comments[i].ours}

\* action/README.md, "Comments once, and edits it": the pull request never
\* carries two of the tool's comments, whatever failed in the runs before,
\* calls whose answer was lost included.
OneComment == Cardinality(Ours) <= 1

\* upsert_comment: "re-pushing a branch must not leave a column of stale
\* verdicts behind: only the newest one is true".  Once the runs are over and
\* the newest push's write went through, what stands is its verdict, or
\* nothing when it has no migrations.
NewestVerdictStands ==
    LET newest == Len(pushes)
    IN  (/\ pushes # <<>>
         /\ \A k \in Pushed : run[k].pc = "done"
         /\ run[newest].comment = "ok")
        => {comments[i].push : i \in Ours} = IF pushes[newest] = NoMigrations THEN {} ELSE {newest}

\* _exit_code is "the only thing that turns CI red": a run whose verdict is
\* block never ends green unless fail_on is never, and one that requires
\* approval never does when fail_on says so, whatever call failed on the way.
RedWhenItMatters ==
    \A k \in Pushed :
        (/\ run[k].pc = "done"
         /\ config.failOn # "never"
         /\ VerdictRank(Verdict(k)) >= VerdictRank(config.failOn))
        => run[k].exit # 0

\* _publish: "Post the comment and set the check status; never fatal".  A
\* run that reached its verdict ends with the exit code of the verdict.
PublishingNeverFatal ==
    \A k \in Pushed :
        run[k].pc = "done" => run[k].exit = ExitCode(Verdict(k), config.failOn)

\* Every push's run ends, however many pages the comments fill.
RunsEnd == \A k \in Pushes : (k \in Pushed) ~> (run[k].pc = "done")
=============================================================================
