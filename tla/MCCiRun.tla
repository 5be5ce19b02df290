------------------------------ MODULE MCCiRun -------------------------------
(***************************************************************************)
(* CiRun for TLC: five files, one of them deleted and one not a migration, *)
(* on pages of two of which two are fetched, so that the fifth is beyond   *)
(* the cap, and git prints its path in quotes; a few configs and jobs; two *)
(* runs and two events.                                                    *)
(***************************************************************************)
EXTENDS CiRun

File(path, dir, name, removed) ==
    [path |-> path, dir |-> dir, name |-> name, removed |-> removed, printed |-> dir]
Escaped(file) == [file EXCEPT !.printed = "quoted lib"]
MCFiles ==
    {File(1, "migrations", "a.sql", TRUE), File(2, "migrations", "a.sql", FALSE),
     File(3, "db/migrate", "a.rb", FALSE), File(4, "lib", "a.txt", FALSE),
     Escaped(File(5, "lib", "V1__a.sql", FALSE))}

MCJudged ==
    [f \in MCFiles |-> CASE f.path = 2 -> {"proceed", "block"}
                         [] f.path = 3 -> {"requires_approval"}
                         [] OTHER      -> {"proceed"}]

Text(v) == [type |-> "text", value |-> v]
Flag(v) == [type |-> "flag", value |-> v]
Doc(keys) == [yaml |-> "mapping", unknown |-> {}, version |-> 1, keys |-> keys]
NoDoc == [Doc(<<>>) EXCEPT !.yaml = "absent"]
EmptyDoc == [Doc(<<>>) EXCEPT !.yaml = "empty"]
RailsDoc == Doc([extract |-> Flag(TRUE)])
PathsDoc ==
    Doc([paths |-> [type |-> "list", value |-> {{"lib", "quoted lib"}, {"migrations"}}],
         exclude |-> [type |-> "list", value |-> {{"migrations"}}], fail_on |-> Text("never")])
BadDocs ==
    {Doc([timeout |-> [type |-> "number", value |-> 0]]), Doc([url_env |-> Text("connection string")]),
     [Doc(<<>>) EXCEPT !.yaml = "list"], [Doc(<<>>) EXCEPT !.version = 2]}

PullRequest ==
    [doc |-> NoDoc, configNamed |-> FALSE, explicit |-> FALSE, source |-> "auto", listed |-> FALSE,
     readable |-> TRUE, token |-> TRUE, repository |-> TRUE, event |-> "pull_request",
     baseRef |-> FALSE, offline |-> FALSE, urlEnv |-> NoValue, url |-> TRUE, scratch |-> TRUE,
     sameServer |-> FALSE, failOn |-> NoValue]
MCJobs ==
    {PullRequest, [PullRequest EXCEPT !.doc = RailsDoc, !.failOn = "requires_approval"],
     [PullRequest EXCEPT !.doc = PathsDoc, !.source = "git", !.url = FALSE],
     [PullRequest EXCEPT !.doc = EmptyDoc, !.source = "github_api", !.offline = TRUE],
     [PullRequest EXCEPT !.event = "push", !.listed = TRUE, !.doc = RailsDoc],
     [PullRequest EXCEPT !.event = "push", !.listed = TRUE, !.readable = FALSE],
     [PullRequest EXCEPT !.event = "push"], [PullRequest EXCEPT !.event = "push", !.source = "file"],
     [PullRequest EXCEPT !.explicit = TRUE, !.event = "pull_request_target"],
     [PullRequest EXCEPT !.configNamed = TRUE], [PullRequest EXCEPT !.urlEnv = "INPUT_URL"]}
    \cup {[PullRequest EXCEPT !.doc = doc] : doc \in BadDocs}
=============================================================================
