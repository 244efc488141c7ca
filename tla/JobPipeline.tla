----------------------------- MODULE JobPipeline -----------------------------
(***************************************************************************)
(* A diagnostic finding on its way to an estimate (app/diagnostics_store.py,*)
(* app/job_compiler.py, app/job_release.py, app/job_proposal.py).           *)
(*                                                                         *)
(* A compile locks the finding, prices a job from it and either leaves the *)
(* current draft as it is (same content) or makes the next revision and    *)
(* supersedes the draft.  A release locks one revision and turns it into   *)
(* an estimate whose number is the count of estimates plus one.  An AI     *)
(* proposal reads the finding, waits for the provider and stores what it   *)
(* answered.  Edits of the finding and of the part's price go on meanwhile.*)
(***************************************************************************)
EXTENDS JobPricing

CONSTANTS
    JobSessions,       \* concurrent database sessions
    Evidence,          \* what findings record: a conclusion and a confidence
    CompileRequests,   \* the compile requests
    Prices,            \* customer prices of the catalog part
    MaxCompilations, MaxEstimates, MaxProposals, MaxEdits   \* bounds

\* The conclusion of a finding is missing, short enough for the summary of an
\* estimate (3000 characters), or longer (it may have 4000).
Findings == [conclusion : {"none", "short", "long"},
             confidence : {"none", "theory", "probable", "confirmed"}]

ASSUME EvidenceAssumption == Evidence \subseteq Findings
ASSUME RequestsAssumption == CompileRequests \subseteq JobRequests
ASSUME PricesAssumption == Prices \subseteq Nat

VARIABLES
    finding,        \* its evidence
    isArchived,     \* is_archived of the finding
    findingEvents,  \* the event types of the finding, in order
    price,          \* unit_price of the catalog part
    compilations,   \* the job_compilations of the finding, in order of their ids
    estimates,      \* the estimates of the shop, in order of their ids
    proposals,      \* the job_input_proposals of the finding
    job,            \* the progress and the loaded copies of each session
    edits           \* edits of the finding and the price so far

findingVars == <<finding, isArchived, findingEvents>>
jobVars == <<findingVars, price, compilations, estimates, proposals, job, edits>>

JobIdle == [pc |-> "idle"]

\* _CONFIDENCE_MAP, with what is missing mapped to low.
ResearchConfidence(confidence) ==
    CASE confidence = "confirmed" -> "high"
      [] confidence = "probable"  -> "medium"
      [] OTHER                    -> "low"

\* _diagnosis_is_unverified.
Unverified(f) == f.conclusion # "none" /\ f.confidence = "none"

-----------------------------------------------------------------------------
\* create_diagnostic_finding.  Every bound on rows is a guard of the step that begins
\* a request, so that no request is stuck at one.
JobInit ==
    /\ finding \in Evidence
    /\ isArchived = FALSE
    /\ findingEvents = <<"created">>
    /\ price \in Prices
    /\ compilations = <<>>
    /\ estimates = <<>>
    /\ proposals = <<>>
    /\ job = [s \in JobSessions |-> JobIdle]
    /\ edits = 0

Go(s, r) == job[s] = JobIdle /\ job' = [job EXCEPT ![s] = r]
Continue(s, r) == job' = [job EXCEPT ![s] = r]
JobFinish(s) == job' = [job EXCEPT ![s] = JobIdle]
Edit == edits < MaxEdits /\ edits' = edits + 1

\* A compile holds the finding FOR UPDATE from its first read to its end; a release
\* holds its revision.
FindingFree == \A t \in JobSessions : job[t].pc \notin {"compile_price", "compile_commit"}
RevisionFree(c) ==
    \A t \in JobSessions : job[t].pc \in {"release_number", "release_commit"} => job[t].comp # c

\* Any request may end without a commit: a refusal, an error, a lost connection.
JobAbort(s) ==
    /\ job[s] # JobIdle
    /\ JobFinish(s)
    /\ UNCHANGED <<findingVars, price, compilations, estimates, proposals, edits>>

-----------------------------------------------------------------------------
(* diagnostics_store                                                       *)

UpdateFindingLoad(s) ==
    \E new \in Evidence :
        /\ Edit
        /\ Go(s, [pc |-> "update_finding", new |-> new, seen |-> finding])
        /\ UNCHANGED <<findingVars, price, compilations, estimates, proposals>>

\* Mutant: the UPDATE does not wait for a compile.
UpdateFindingCommitNow(s) ==
    LET r == job[s]
        Written(field) == IF r.new[field] = r.seen[field] THEN finding[field] ELSE r.new[field]
    IN  /\ r.pc = "update_finding"
        /\ finding' = [conclusion |-> Written("conclusion"), confidence |-> Written("confidence")]
        /\ findingEvents' = Append(findingEvents, "updated")
        /\ JobFinish(s)
        /\ UNCHANGED <<isArchived, price, compilations, estimates, proposals, edits>>

\* A field is written when it differs from the copy that was loaded; the UPDATE waits
\* for the lock of a compile.
UpdateFindingCommit(s) ==
    LET r == job[s]
        Written(field) == IF r.new[field] = r.seen[field] THEN finding[field] ELSE r.new[field]
    IN  /\ r.pc = "update_finding"
        /\ FindingFree
        /\ finding' = [conclusion |-> Written("conclusion"), confidence |-> Written("confidence")]
        /\ findingEvents' = Append(findingEvents, "updated")
        /\ JobFinish(s)
        /\ UNCHANGED <<isArchived, price, compilations, estimates, proposals, edits>>

\* An archived finding is left as it is.
ArchiveFindingLoad(s) ==
    /\ ~isArchived
    /\ Edit
    /\ Go(s, [pc |-> "archive_finding"])
    /\ UNCHANGED <<findingVars, price, compilations, estimates, proposals>>

ArchiveFindingCommit(s) ==
    /\ job[s].pc = "archive_finding"
    /\ FindingFree
    /\ isArchived' = TRUE
    /\ findingEvents' = Append(findingEvents, "archived")
    /\ JobFinish(s)
    /\ UNCHANGED <<finding, price, compilations, estimates, proposals, edits>>

\* update_part changes the customer price of the catalog.
ChangePrice ==
    \E new \in Prices \ {price} :
        /\ Edit
        /\ price' = new
        /\ UNCHANGED <<findingVars, compilations, estimates, proposals, job>>

-----------------------------------------------------------------------------
(* compile_job                                                             *)

Drafts == {c \in DOMAIN compilations : compilations[c].status = "draft"}

\* Mutant: the finding is read without FOR UPDATE.
CompileLockSkipped(s) ==
    \E request \in CompileRequests :
        /\ ~isArchived
        /\ finding.conclusion # "none"
        /\ Len(compilations) < MaxCompilations
        /\ Go(s, [pc |-> "compile_price", request |-> request, source |-> finding])
        /\ UNCHANGED <<findingVars, price, compilations, estimates, proposals, edits>>

\* _get_compilable_finding: locks and reads the finding; an archived one, or one that
\* records no conclusion, is refused.
CompileLock(s) ==
    \E request \in CompileRequests :
        /\ FindingFree
        /\ ~isArchived
        /\ finding.conclusion # "none"
        /\ Len(compilations) < MaxCompilations
        /\ Go(s, [pc |-> "compile_price", request |-> request, source |-> finding])
        /\ UNCHANGED <<findingVars, price, compilations, estimates, proposals, edits>>

\* _content_hash: the evidence of the finding and the lines that were computed.
SameContent(compilation, source, lines) ==
    compilation.source = source /\ compilation.lines = lines

\* The job is priced, then the current draft is read.  One with the same content is
\* left as it is and the request is done.
CompilePrice(s) ==
    LET r     == job[s]
        lines == CompiledLines(r.request, price)
        existing == IF Drafts = {} THEN 0 ELSE CHOOSE c \in Drafts : TRUE
    IN  /\ r.pc = "compile_price"
        /\ IF ~Priced(lines) \/ (existing # 0
                                 /\ SameContent(compilations[existing], r.source, lines))
           THEN JobFinish(s)
           ELSE Continue(s, [pc |-> "compile_commit", source |-> r.source, lines |-> lines,
                             existing |-> existing])
        /\ UNCHANGED <<findingVars, price, compilations, estimates, proposals, edits>>

\* The next revision is inserted and the draft before is superseded, which waits for a
\* release of it.
CompileCommit(s) ==
    LET r     == job[s]
        new   == Len(compilations) + 1
        first == r.existing = 0
        superseded == IF first THEN compilations
                      ELSE [compilations EXCEPT
                               ![r.existing].status = "superseded",
                               ![r.existing].supersededBy = new,
                               ![r.existing].events = Append(@, "superseded")]
    IN  /\ r.pc = "compile_commit"
        /\ ~first => RevisionFree(r.existing)
        /\ compilations' =
              Append(superseded,
                     [status |-> "draft",
                      revision |-> IF first THEN 1 ELSE compilations[r.existing].revision + 1,
                      source |-> r.source, lines |-> r.lines, supersededBy |-> 0,
                      estimate |-> 0,
                      events |-> IF first THEN <<"compiled">> ELSE <<"recompiled">>])
        /\ JobFinish(s)
        /\ UNCHANGED <<findingVars, price, estimates, proposals, edits>>

-----------------------------------------------------------------------------
(* release_job_compilation                                                 *)

\* Released already: answered with the estimate there is.  Superseded: refused.
MayRelease(c) == compilations[c].estimate = 0 /\ compilations[c].status = "draft"

\* Mutant: the revision is read without FOR UPDATE.
ReleaseLockSkipped(s) ==
    \E c \in DOMAIN compilations :
        /\ MayRelease(c)
        /\ Len(estimates) < MaxEstimates
        /\ Go(s, [pc |-> "release_number", comp |-> c])
        /\ UNCHANGED <<findingVars, price, compilations, estimates, proposals, edits>>

ReleaseLock(s) ==
    \E c \in DOMAIN compilations :
        /\ RevisionFree(c)
        /\ MayRelease(c)
        /\ Len(estimates) < MaxEstimates
        /\ Go(s, [pc |-> "release_number", comp |-> c])
        /\ UNCHANGED <<findingVars, price, compilations, estimates, proposals, edits>>

\* The summary of the estimate quotes the conclusion and has to fit; the amounts have
\* to pass the check of every estimate.
ReleaseBuilds(compilation) ==
    /\ compilation.source.conclusion # "long"
    /\ GeneratedEstimateValid(EstimateResponse(compilation.lines))

\* The response is built and validated, and the number of the estimate is computed.
ReleaseNumber(s) ==
    LET r == job[s]
    IN  /\ r.pc = "release_number"
        /\ IF ReleaseBuilds(compilations[r.comp])
           THEN Continue(s, [pc |-> "release_commit", comp |-> r.comp,
                             number |-> Len(estimates) + 1])
           ELSE JobFinish(s)
        /\ UNCHANGED <<findingVars, price, compilations, estimates, proposals, edits>>

\* uq_estimates_estimate_number.
NumberFree(number) == \A e \in DOMAIN estimates : estimates[e].number # number

\* create_estimate_from_payload with what release_job_compilation passes: the amounts
\* and the evidence that the revision recorded.
NewEstimate(c, number) ==
    [number |-> number, source |-> c, total |-> compilations[c].lines.total,
     confidence |-> ResearchConfidence(compilations[c].source.confidence),
     warned |-> Unverified(compilations[c].source)]

\* Estimate, link and event in one commit.
ReleaseCommit(s) ==
    LET r == job[s]
    IN  /\ r.pc = "release_commit"
        /\ NumberFree(r.number)
        /\ estimates' = Append(estimates, NewEstimate(r.comp, r.number))
        /\ compilations' = [compilations EXCEPT
                               ![r.comp].estimate = Len(estimates) + 1,
                               ![r.comp].events = Append(@, "released")]
        /\ JobFinish(s)
        /\ UNCHANGED <<findingVars, price, proposals, edits>>

\* Another estimate took the number meanwhile: everything is rolled back.
NumberTaken(s) ==
    /\ job[s].pc \in {"release_commit", "estimate_commit"}
    /\ ~NumberFree(job[s].number)
    /\ JobFinish(s)
    /\ UNCHANGED <<findingVars, price, compilations, estimates, proposals, edits>>

\* create_estimate of an estimate that no finding led to: its number is computed after
\* the research has been awaited.
EstimateNumber(s) ==
    /\ Len(estimates) < MaxEstimates
    /\ Go(s, [pc |-> "estimate_commit", number |-> Len(estimates) + 1])
    /\ UNCHANGED <<findingVars, price, compilations, estimates, proposals, edits>>

EstimateCommit(s) ==
    /\ job[s].pc = "estimate_commit"
    /\ NumberFree(job[s].number)
    /\ estimates' = Append(estimates, [number |-> job[s].number, source |-> 0, total |-> 1,
                                       confidence |-> "low", warned |-> FALSE])
    /\ JobFinish(s)
    /\ UNCHANGED <<findingVars, price, compilations, proposals, edits>>

-----------------------------------------------------------------------------
(* job_proposal                                                            *)

\* The finding is read, archived or not, and its evidence sent to the provider.
ProposeLoad(s) ==
    /\ Len(proposals) < MaxProposals
    /\ Go(s, [pc |-> "propose_commit", source |-> finding])
    /\ UNCHANGED <<findingVars, price, compilations, estimates, proposals, edits>>

\* validate_proposed_inputs.
ValidProposal(answer) == answer = "inputs"

\* The provider answers with inputs or with something else; a provider that fails is
\* an JobAbort.
ProposeCommit(s) ==
    \E answer \in {"inputs", "malformed"} :
        /\ job[s].pc = "propose_commit"
        /\ proposals' = IF ValidProposal(answer)
                        THEN Append(proposals, [status |-> "proposed", payload |-> answer,
                                                source |-> job[s].source])
                        ELSE proposals
        /\ JobFinish(s)
        /\ UNCHANGED <<findingVars, price, compilations, estimates, edits>>

\* set_job_input_proposal_disposition: whatever the status is, the last one wins.
DisposeProposal ==
    \E p \in DOMAIN proposals, status \in {"accepted", "dismissed"} :
        /\ proposals' = [proposals EXCEPT ![p].status = status]
        /\ UNCHANGED <<findingVars, price, compilations, estimates, job, edits>>

-----------------------------------------------------------------------------
Steps(s) ==
    \/ CompilePrice(s) \/ CompileCommit(s)
    \/ ReleaseNumber(s) \/ ReleaseCommit(s) \/ NumberTaken(s) \/ EstimateCommit(s)
    \/ UpdateFindingCommit(s) \/ ArchiveFindingCommit(s) \/ ProposeCommit(s)

Requested(s) ==
    \/ CompileLock(s) \/ ReleaseLock(s) \/ EstimateNumber(s)
    \/ UpdateFindingLoad(s) \/ ArchiveFindingLoad(s) \/ ProposeLoad(s)

JobNext ==
    \/ \E s \in JobSessions : Steps(s) \/ Requested(s) \/ JobAbort(s)
    \/ ChangePrice \/ DisposeProposal

JobSpec == JobInit /\ [][JobNext]_jobVars

-----------------------------------------------------------------------------

\* The revisions of a finding form one chain, however many compiles run at once: they
\* are numbered 1, 2, ..., each is superseded by the next, and only the last is a draft.
RevisionChain ==
    \A c \in DOMAIN compilations :
        LET last == c = Len(compilations)
        IN  /\ compilations[c].revision = c
            /\ compilations[c].status = IF last THEN "draft" ELSE "superseded"
            /\ compilations[c].supersededBy = IF last THEN 0 ELSE c + 1

\* A compile that would not change the draft makes no revision, even when two compiles
\* with the same content are asked for at once.
RevisionsDiffer ==
    \A c \in DOMAIN compilations \ {1} :
        ~SameContent(compilations[c], compilations[c - 1].source, compilations[c - 1].lines)

\* A revision becomes at most one estimate, the one it is linked to.
OneEstimatePerRevision ==
    \A e \in DOMAIN estimates :
        LET c == estimates[e].source IN c # 0 => compilations[c].estimate = e

\* The estimate says what its revision recorded, even if the finding or the price was
\* edited before the release, and it adds up.
EstimateIsSnapshot ==
    \A e \in DOMAIN estimates :
        LET c == estimates[e].source
        IN  c # 0 =>
            /\ estimates[e].total = compilations[c].lines.total
            /\ estimates[e].confidence = ResearchConfidence(compilations[c].source.confidence)
            /\ estimates[e].warned <=> Unverified(compilations[c].source)

\* What the compiler accepts, the check of every estimate accepts: no job that was
\* compiled is refused for its amounts when it is released.
CompiledJobsAddUp ==
    \A c \in Drafts :
        GeneratedEstimateValid(EstimateResponse(compilations[c].lines))

\* The numbers of the estimates are 1, 2, ... although each is a count that was read
\* before the insert.
NumbersAreDense == \A e \in DOMAIN estimates : estimates[e].number = e

\* The events of a revision tell its whole life, in order: it is released at most once,
\* and never after it was superseded.
EventsTellLife ==
    \A c \in DOMAIN compilations :
        LET row == compilations[c]
        IN  row.events = (IF c = 1 THEN <<"compiled">> ELSE <<"recompiled">>)
                         \o (IF row.estimate # 0 THEN <<"released">> ELSE <<>>)
                         \o (IF row.status = "superseded" THEN <<"superseded">> ELSE <<>>)

\* The history of a finding: the chain of its revisions and the events that tell of it.
RevisionHistory == RevisionChain /\ RevisionsDiffer /\ EventsTellLife

\* What releases made: each estimate is a revision's only one, keeps what the revision
\* recorded, and has a number of its own.
ReleasedEstimates == OneEstimatePerRevision /\ EstimateIsSnapshot /\ NumbersAreDense

\* A revision records the evidence of the finding as it is at the commit, not as it was
\* when the compile began, and never that of an archived finding.
CompilesCurrentEvidence ==
    [][Len(compilations') > Len(compilations) =>
          /\ compilations'[Len(compilations')].source = finding
          /\ ~isArchived]_jobVars

=============================================================================
