# CutSum in TLA+

Models, model-checking configurations and proofs for CutSum (`src/universal_cutup`), the offline
planner and executor of media cuts. Paths below are relative to `src/universal_cutup/` in the
repository.

The program turns a transcript, observations of a game or a host's proposals into a *CutPlan*, a
frozen document, and then executes the plan against a local source file. Planning is a chain of
functions over frozen documents, called one at a time by a host, who decides which document he hands
to which call. Execution touches the outside world: it runs child processes, publishes files into a
directory others may use too, reads a source others may write, and must leave a truthful record.
Around both are tools that fill result directories, and the protocol of blind runs that hashes them.

## Inventory

| part | code | state it keeps | operations | correct when |
|---|---|---|---|---|
| plan execution | `media/executor.py`, `media/cut.py`, `media/probe.py` | artifacts, steps, published outputs, source hash and mtime; the files | validate, preflight, render, publish, record, roll back, verify | nothing is overwritten, a failed candidate leaves nothing, the record and the status tell what is there, a success was cut from the planned source |
| child processes | `media/process.py` | the child, two pipes, two reader threads, two captures | run (poll, cancel, deadline, join, close), drain, feed | run returns, the child is reaped, a completed outcome has all the output, memory is bounded |
| commands | `cli.py`, `application/sdk.py` | the record file | cut, full; all others call one function and print | exit code 0 means clips, record and emission are all there |
| safe paths | `media/paths.py` | none | resolve_output | no traversal, no link, no existing file |
| task resolution | `application/resolution.py`, `counts.py` | none | resolve intent, profile, preset, defaults | the host's word comes first, contradictions are refused |
| duration split | `application/duration.py` | none | group cues, split candidates, copy assessments | parts are bounded and have each cue once |
| adaptive selection | `strategies/adaptive.py`, `application/intelligence.py` | selected list, reasons | aggregate, rank, select, plan | the host's constraints hold, reasons are true of the result, the plan has what was selected |
| deterministic selection | `strategies/deterministic.py`, `application/services.py` | none | propose, score, select | the plan is valid |
| education | `application/educational.py`, `strategies/educational.py` | growing windows, selected list | signals, windows, preparation, qualification, greedy selection | windows are whole, new types come first, plans are valid |
| sports | `application/sports.py`, `strategies/sports.py`, `providers/sports_text.py` | open cluster, open result | detect, cluster, merge, propose, select | a cancellation takes back the result it is about, a moment is shown whole |
| subtitle display | `application/subtitle_display.py`, `domain/subtitles.py` | current group, current span | spans, groups, display units | no text is lost or said twice, units cover the cues once |
| subtitles of a clip | `media/subtitles.py`, `application/subtitle_readability.py`, part of `media/executor.py` | none | clip, pair, check, choose a backend, write | what is written was checked, every cue is shown |
| pictures | `media/rendering.py`, layouts in `media/subtitles.py` | none | resolution, crop, safe area, overlay, margins | a crop lies in the picture with the subject inside, subtitles in the safe area |
| model routing | `domain/model_routing.py`, `domain/records.py` | the budget, which the host counts | route a task, check a record | never below the required tier, never above the maximum, never over the budget |
| result directories | `application/benchmarking.py`, `four_track_evaluation.py`, `skill_materialization.py`, `demo.py` | the directory | create it, fill it, write the index or report last | one builder, and what has its index or report is whole |
| blind runs | `application/blind_runs.py` | the manifest file | freeze, verify, open the reference | the reference is opened only for unchanged results, and for that run where the manifest names one |
| evaluation | `evaluation/` | none | metrics | arithmetic |
| documents, hashing | `domain/*`, `serialization.py`, `hashing.py`, `schema.py` | none | validate, canonicalize | equal documents have equal hashes |

How they interact: a command calls one function of `application/sdk.py`; that calls the planning
functions in a chain, each consuming the frozen document of the one before; a host of the library
calls them himself, in any order and again. `execute_external_plan` consumes a plan and calls
`ProcessRunner.run` for each ffmpeg and ffprobe. Nothing is shared between threads except the pipes
and captures of `ProcessRunner`. Processes share the file system: the output root, the record file,
the source, and the result directory of a blind run.

What is hard: several processes in one output root or result directory; kills between two files; a
source that changes and changes back; an error halfway through the publication of a candidate;
children that do not die, do not read, do not stop writing, or leave descendants; the agreement
between what a record says and what happened; a host who mixes documents of different tasks; greedy
algorithms whose later steps may undo what an earlier one ensured; and roundings. `PROJECT.json`
lists these hazards at their lines with the properties that would notice.

## Modules

| module | about |
|---|---|
| `PlanExecution` | `execute_external_plan`: any number of executions in one output root, with foreign files and writes of the source |
| `OutputLedger` | what executions promise each other and the user: paths have one owner, a record lists what its execution owns. `PlanExecution` refines it |
| `ProcessRunner` | `ProcessRunner.run`, its two reader threads, the child, a descendant |
| `BoundedCapture` | `_BoundedCapture`: what is kept of a stream |
| `CutCommand` | the commands `cut` and `full` around an execution |
| `ResultTree` | the tools that fill a result directory, part by part |
| `BlindRun` | freeze, verify and open the reference, file by file |
| `BlindWorkspace` | composes both with somebody who edits files |
| `Resolution` | from intent, profile and preset to a task |
| `DurationSplit` | long candidates become parts, assessments follow |
| `AdaptiveSelection` | aggregates, ranking and the selection loop |
| `Highlights` | composes these three: a host who calls them with documents of his choice |
| `SemanticSpans` | cues to spans, groups and display units |
| `CutCandidates` | what the validators of candidates and plans let through |
| `Education` | signals, windows, candidates, qualification and greedy selection |
| `TranscriptPlans` | the plans made of a transcript: educational and deterministic |
| `ClipSubtitles` | which lines of a clip are checked, which are written, by which backend |
| `Rendering` | pictures, crops, safe areas and margins in pixels |
| `Sports` | observations to clusters, events, candidates, a request and a plan |
| `SportsText` | observations read from a commentary |
| `Library` | composes the planning and subtitle modules: the calls of `application/sdk.py` |
| `ModelRouting` | tiers, budget and the record of a model's call |
| `SequenceTools` | elements of a sequence at given places, sums, a finite set in a given order: as recursive functions, which can be reasoned about |
| `SequenceFacts`, `DurationSplitFacts` | lemmas: induction, folds, sequences and sorting; groups of cues and their parts |
| `...Proofs` | theorems about the module of that name (`LibraryProofs` has those about `ModelRouting` and `BoundedCapture` too) |
| `MC...` | constants for TLC |

Definitions named `Bad...` are faulty variants of the definition that follows them; they show which
mistake in the code each property would notice and are used nowhere else.

### PlanExecution

`fs` maps each output path to the file linked there: its inode number, which execution or outsider
made it, and whether its data comes from the planned source bytes. The other variables are the
locals of each execution: `arts` is `artifacts`, `pub` is `published_outputs` of the current
candidate, `outcome` the `execute-candidate` steps, `temp` the temporary directory, `mtime0` is
`source_mtime_ns`, `phase`, `idx` and `kind` the program counter. Each system call another process
can race with is an action: `Validate` (the hash), `StatSource`, `PreflightOutput` (per candidate),
`Render`, `Link` / `LinkFails`, `StatOutput` / `StatFails`, `Cleanup`, `RecordArtifact` /
`RecordFails` (the hash of each published file), `RollbackStat`, `RollbackUnlink`, `VerifyHash`,
`VerifyMtime`. The clip is published before the sidecar and recorded after it, as in the code. A
failure goes through the end of the `with` block (`Cleanup`) before the rollback.

Abstractions. ffmpeg, the burn-in, ffprobe and the duration check are one outcome: a rendered clip,
or failed, cancelled or timed out. Reading a file to hash or to cut it is one step. Each write of
the source changes its mtime: a tool that restores the mtime on purpose defeats the code and is
outside of the model. Inode numbers are reused as soon as nothing holds the file. An `OSError` the
code does not catch (the last hash, `mkdir`, a failing rollback) ends the execution like a kill.

### ProcessRunner and BoundedCapture

Output is counted in blocks. `pipe`, `buf` and `captured` say where the blocks of a stream are: in
the pipe, in the current `stream.read`, or fed to the capture. A read returns when it has
`ReadSize` blocks or at the end of file, and holds the lock of the stream until then; `close` waits
for it. `pc` follows `run`: the test for cancellation, the deadline, the poll, the waits of
`_terminate_process`, the joins, the liveness test, the closes. A `join` may give up (`Hasty`) on a
reader that still has data; with `Hasty` false it gives up only on one that is blocked. The child
writes, exits, dies of a pending signal, or ignores SIGTERM; it may leave a descendant (`heir`) that
has inherited the pipes.

`BoundedCapture` has the bytes themselves: `fed` is a history variable, `buffer`, `head`, `tail`
and `total` are the fields of the code.

### CutCommand

Each command tests for `execution-record.json`, executes, creates the file exclusively, writes it,
emits the record and exits: code 0 for a success, 4 for a record that is not a success, 2 for an
error. Creation and content are two steps, so a kill can leave an empty record. An execution is
reduced to what `OutputLedger` promises: candidates are published whole or not at all. `full`
differs from `cut` in how it gets its plan; its tail is the same. Dry runs change nothing and are
left out.

### ResultTree, BlindRun, BlindWorkspace

A process of a tool asks whether the directory exists (`Start`; the materializer does not ask),
creates it (`Make`; the demo lets it exist, but asks for its media), and writes its parts in the
order of the code (`Open`, `Fill`; the materializer and the demo never replace a file). A part stands
for the files written together and has the process that wrote it, whether it is whole, and how often
others edited it. Each file is created exclusively, in one step. For the demo's media that is the
contract of an external tool: `demo.py` itself asks whether the file exists (lines 173, 197) and then
calls `ffmpeg -n`, which is taken to refuse a file that is there when it opens its output; how ffmpeg
keeps that promise is not modelled.
There is no action for a kill: a process that takes no further step is one. A tool started again is
another builder.

A freezer lists the directory, hashes one file per step, creates the manifest exclusively and
completes it in another step. A reader opens the manifest, hashes file by file, compares the set and
the hashes, compares the identity if the manifest has one, and opens the reference. `began` and
`saw` remember the directory at the start of either. A freezer in `ByCommand` is the command
`blind-freeze`, which passes no identity; any other is a host of the library, who may give one or
none, since a blind input and its suite, case and track are all optional (`Given`).

### Resolution, DurationSplit, AdaptiveSelection, Highlights

`Resolution` is one function from intent, profile and preset to the task or the error: each limit
and each policy by its precedence, then the checks of contradictions in the order of the code.
`DurationSplit` groups cues greedily, joins a short last group, renames, and copies assessments;
`Prepare` is the whole preparation, an error included. `AdaptiveSelection` has aggregates as
fractions, the ranking, and `Consider`, one turn of the selection loop, with every reason in the
order of the tests; `why` and `chosen` are the code's dictionary and list. `queue` is the set of
indices still to be considered, and the next one is that which goes before all others
(`GoesBefore`): the three stable sorts of the code as one order. Parts of a candidate carry its id
and a number; a host who names a proposal like another one's part is outside of the model. In `Highlights` each call
of the host is an action that takes a task and a bundle by index: what the code compares (ids) is a
guard or an error, what it does not compare is free. Summaries have a *gist*: equal gists stand for
a similarity above the threshold.

### SemanticSpans, CutCandidates, Education, TranscriptPlans, ClipSubtitles

A cue's text is a sequence of pieces, cut where the code's pattern cuts; a piece keeps its length,
how it ends, and which of the program's patterns it matches. Regular expressions are thus attributes
of a piece and not modelled; everything the code does with their matches is. The rounding of the
piece's times is the code's. `Education` follows a window: from a span, extended until it has
enough words and time, back for context, forward for what it waits for; then signals, profile,
preparation and qualification; then the greedy selection, which prefers new types. `CutCandidates`
has the validators that a planner can fail. A proposal is validated when it is created (`Bare`), and
one that is invalid fails the whole call (`CanPropose`); signals, profile and parts come later, by
`model_copy`, which does not validate, so `PlansAreValid` is a property and not a guard. `ClipSubtitles` has both choices of lines, the one of
the readability check and the one of the writer, from the five tracks of a candidate.

### Rendering

Integer pixels, ratios in thousandths, every floor, ceiling and rounding to even as in the code. The
font sizes that depend on a height are kept because the overlay's height does.

### Sports, SportsText

Observations are clustered in time, merged by correlation key, made an event each and a clip each
with the margins in the code's order (into the media, then at least 8, then at most 60 seconds). In
`SportsText` a segment's text is the set of patterns and rules it matches, its words for the
comparison of repeated announcements, and whether the sentence stays open; joining it with its
neighbours for context, the retraction and the duplicates are the code's.

### Library and ModelRouting

`Library` has one action for each call, in the order in which each consumes the document of the one
before; its inputs are a lecture, a clip, a game, a commentary or a picture. `ModelRouting` routes a
task, calls a model and makes the record; the host, not the program, counts the calls.

## Runs

| run | asks |
|---|---|
| `plan_crossing` | do completed candidates stay published, do failed ones leave nothing, does nobody lose a file, when two executions meet in one candidate and all can fail and be killed? |
| `plan_ledger` | are records and statuses truthful, and is `OutputLedger` implemented? |
| `plan_ends` | does each execution end, is an early conflict found before anything is published, can a success be cut from other bytes than the planned ones? |
| `plan_record` (violated) | the record when hashing the clip fails after the sidecar was recorded |
| `runner_returns` | whatever a child does, does `run` return, is a completed outcome complete, is the child reaped? |
| `runner_drain` | is a child that must write a lot ever blocked for good? |
| `runner_descendant` (violated) | is the shutdown bounded when a descendant keeps the pipes? |
| `cut_concurrent` | what does exit code 0 mean among three concurrent commands? |
| `blind_workspace` | is a directory with its index or report whole and of one builder; is a complete manifest final; is the reference opened only for untouched results, and refused only for touched ones? |
| `blind_identity` (violated) | is the identity compared for a run that the command froze? |
| `highlights` | do selections fit together, follow the host and have true reasons; do plans keep the choice and the lengths, whatever documents are mixed? |
| `library` | does each planning, subtitle and layout call keep the promises of its part, is the capture of a stream exact, do model calls keep tiers and budget? |

### Bounds

*Executions.* Two executions and two candidates are the smallest instance in which executions share
one candidate and not another, in different positions, so that one of them fails after it has
published or before; one has sidecars and the other has not. Five inodes (four for one execution)
are enough to render next to what is published and still force reuse after a removal; that a foreign
file meets the second candidate when both files of the first are there needs the fifth, and is in
`plan_crossing`. Two writes of the source allow to change it and to restore it, before, between or
after its reads; a source may also be another one from the start. In `plan_ends` an execution meets
either writes of the source while no candidate fails, or foreign files at the first clip or the last
sidecar (`OneHazard`): a success needs the former only, a conflict the latter.

*Runner.* A pipe of one block, reads of two and up to two or three blocks per stream make the pipe
full, a read incomplete at the end of file, and a second read necessary. Three commands are one more
than a race needs.

*Blind runs.* Two processes of one of the four tools, two freezers, a reader and one edit: each
pair that can race is there, with a third party that stays away or comes in between. Only one file is
edited, of the demo its report (`OneFileEdited`), which is all a comparison file by file can tell
apart.

*Highlights.* One task, or two for the mixing of documents; bundles of two or three proposals among
eleven: overlapping, repeating each other, over the maximum, over it with no border between cues to
split at, without cues, already in series. The host insists on none, one or two of them, on a
candidate that is split, or on a part of it. Time is in units of 7.5 s, in which the code's 15, 60 and
120 s are 2, 8 and 16.

*Library.* Lectures have two to six cues from eleven texts, because a window grows by a span at a time
and reaches one back and one forward; units are 2.5 s. Clips have up to three cues with all ways to
cover them by translation records, and a document with two units for one cue. Games have three or
four observations whose distances lie around each threshold of the clustering and the margins,
commentaries three or four segments, which is what a result, its repetition, its cancellation and
the sentence that qualifies it take; both in seconds. Pictures go from 2 to 1280 by 2 to 1080, odd
and prime sizes among them. The stream has nine bytes, more than twice the limit of three, with head
and tail of different lengths; for all sizes there is a proof. Budgets are none, one and unlimited
with two calls.

Where a fault is left out of a run there is a reason. `"stat"` is not in `plan_crossing`: when the
`stat` of a file just linked fails, the code leaves that file (hazard at `executor.py:447`).
`"hash"` is not in `plan_ledger`: that is what `plan_record` shows. Removal by others is left out
where a property says that files stay. In `blind_workspace` the freezers are hosts with or without an
identity (`ByCommand` is empty), in `blind_identity` they are the command.

Deadlock is not checked: executions, runs, commands and a host's work end.

### Fairness

An execution that is not killed is scheduled, and every child it waits for has a timeout
(`FairSpec` of `PlanExecution`). In `ProcessRunner`, the threads are scheduled, the deadline passes,
and SIGKILL kills; nothing else is assumed of the child, nor that a descendant exits, so `Returns`
excepts a descendant that keeps the pipes for ever. `WorkingSpec` adds a child that does write its
output and exit, which is what the run about draining is about. The other modules have safety
properties only: their loops run over finite sequences, and their processes may be killed anywhere.

## What the violated runs show

- `plan_record`: the sidecar's artifact is appended before the clip is hashed; when that fails, both
  files are rolled back, the artifact stays in the record, and the status is `partial` although no
  candidate completed. The project's reliability plan promises truthful records of partial results.
- `runner_descendant`: `close` waits for the lock of a read that cannot end while a descendant holds
  the pipe: after cancellation or deadline, `run` returns only when the descendant is gone.
- `blind_identity`: the command `blind-freeze` gives the freeze no blind input, the manifest has no
  identity, and `load_reference_after_freeze` then compares none: it opens the reference of any run.
  A host of the library who gives no blind input, or one without suite, case or track, gets the same.
  So no passing run claims that a reference is opened for its own run only: where the manifest has an
  identity that is one comparison, and where it has none it does not hold.
  The repository's Skill (`.agents/skills/cutsum-intelligence/SKILL.md:134`) requires suite, case
  and track to match.

## Limits of the code the models made visible

They are in the models as the code has them, and properties are stated around them.

- Removing a file in the rollback is an identity check and an unlink, two system calls. The inode
  number can be used again because the temporary directory, which pinned it, is gone by then; the
  file of another process that is not an execution can then be removed.
- Two commands may pass the test for the record; the one that fails stores its record first, and the
  other has rendered everything, ends with `OUTPUT_EXISTS`, and stores and emits none.
- A candidate of over 120 s with scores cannot be selected: its parts' evidence is renamed, its
  copied assessment still refers to the whole (`application/duration.py:60`). `highlights` uses
  long candidates without scores.
- A sentence span across the border of two parts is in neither.
- Source modes burn in display units if there are any, and cues without one are not shown:
  `EveryCueIsShown` is about the modes with a translation, where the code tests for this.
- A second cancellation takes back another result. A result announced twice, and not recognized as
  the same, counts as two: one cancellation takes back the second only.
- The greedy grouping of cues may build a part over 120 s where another grouping has none, and the
  whole preparation is refused.
- A kill between the creation of the record file and its content leaves an empty record, which
  blocks every later run into that directory.
- The proposals of a plan are recognized by their ids only: a plan made of another bundle whose
  candidates have the ids that were selected has other clips under these names.
- A sports clip near the start or end of the media may be shorter than 8 s.
- Two equal segments have the same deterministic id, and the plan fails.
- A picture of one pixel in width or height cannot be cropped to even sides.
- In pictures under 144 lines, or with a margin over 48, the overlay may leave the safe area.
- A cue without speaker joins the speakers before and after it in one span.
- `ProviderRecord` accepts the record of a call that the routing blocked.
- A plan made with another task than the selection has the chosen clips, but not necessarily the
  lengths the other task asks for.

## Proofs

All proofs hold for every value of the constants that satisfies the named assumptions of the
modules: any number of processes, plans, files, proposals, requests or budgets.

### Executions and child processes

- `PlanExecutionProofs!TypeCorrect`: the type invariant. Its strengthening says that an execution
  that works on a candidate has one.
- `PlanExecutionProofs`: `CompletedStays`, `NothingLeftBehind`, `NoTakeover`, for any number of
  executions, any plans and any inodes. They assume `NobodyRemoves`: other processes do not remove
  files under the output root, and the `stat` of a file just linked does not fail. The inductive
  invariant is about ownership: what is in `pub` is on disk, is ours, and has that inode; no two
  linked files share an inode; what is ours on disk belongs to a completed candidate or to the one
  in progress. Without the uniqueness of inodes the identity check of the rollback would prove
  nothing, and without the exact account of the candidate in progress neither would its end.
- `PlanExecutionProofs`: `RecordIsTrue`, `StatusIsTrue`, `ImplementsLedger`, under `NobodyRemoves` and
  `HashesSucceed` (a published file can be hashed; `plan_record` shows what happens otherwise). The
  invariant adds to ownership that the artifacts are those of the completed candidates, with the
  sidecar of the current one before its clip, that candidates behind the position were tried and
  those ahead were not, and what the status then must be. The refinement maps each action to the
  step of `OutputLedger` it is: a link takes a path, an unlink in the rollback gives it back, the end
  writes the record, all others stutter.
- `PlanExecutionProofs!SuccessIsFaithful`, with no assumption on others: as long as the mtime is what it
  was when it was read, all that was rendered since has the bytes the source has now (`CutFrom`),
  which the last hash compares with the plan before the last look at the mtime. It needs that a mtime
  never comes back.
- `PlanExecutionProofs!ConflictIsHarmless`: a temporal formula. While the file stays, the execution
  cannot pass the preflight of that path (`Stopped`), and before the preflight has ended it owns
  nothing.
- `ProcessRunnerProofs`: `CompletedOutcome`, `ChildHasExited`, `RunnerTypes`, for any pipe and read
  size and any amount of output. The invariant has three parts: blocks are conserved between write
  and capture; a reader that finished without its stream being closed has seen the end of file; and
  what the program counter implies about the child, its return code and the closed streams.
- `LibraryProofs`: `TextIsOfTheBytes`, `MemoryHolds`, for any limits, any bytes and any
  chunks. They rest on two lemmas about sequences: the last *n* bytes of a concatenation need only
  the last *n* of its first part (`LastSlides`), and the first *n* do not change once there are *n*
  (`FirstStays`). The invariant says that until the limit is crossed all is in the buffer, and
  afterwards head and tail are those of everything that was fed.
- `CutCommandProofs!ExitZeroHolds`: for any plan and any number of commands. The invariant says that
  the candidates a command has gone through without a failure are its own, which is lost by nobody's
  step because clips and the record file are only ever created (`Kept`). The types of the variables
  are part of it.

### Result directories and blind runs

`BlindWorkspaceProofs` proves all five properties of `blind_workspace` for any number of builders,
freezers, readers and edits. `SealIsLast` and `FilledByOne` rest on `TreeInv`: before the directory
is taken (`Fresh`) nobody works in it, at most one process works (`OneWorks`), all that is built is
its work, in the order of `Parts` up to its position. The demo takes its directory only with its
first file, which is why `Fresh` depends on the tool. `OpenedIsUntouched`, `RefusedIsChanged` and
`ManifestIsFinal` rest on `BlindInv`: a file only ever gets older (`Age`: absent, begun, whole, then
edited once more), so that of two sightings of a directory the later one *follows* the earlier
(`Follows`); a freezer's list, its hashes, the manifest, the reader's list and hashes and the present
follow each other in this order. If the manifest's hashes equal the reader's, nothing changed in
between, and if the present equalled the freezer's list, so would all in between, and the reader
would not have refused.

### Selection

`HighlightsProofs` proves all six properties of `highlights` for any proposals, tasks and mix of
documents, assuming of the documents what their validators ensure (`DocumentsAreValid`: proposals
have ids of their own, times are whole and not negative, limits are numbers, the host does not
include what he excludes).

- `SelectionFits` and `ReasonsStayTrue` follow from `LoopInv`, the invariant of the selection loop:
  what was considered has a reason and what is in the queue has none; what the host insists on goes
  first (`InsistedFirst`); what was chosen fits together; and every reason given so far is true and
  cannot become false by choosing more.
- `HostHasHisWay` needs in addition what the call of the host promises about the choice so far
  (`Choice`), and what the finished selection says of the task it was made with (`FollowsHost`).
  That a selection with too few says so, and no other, is `TooFewIsTold`; it needs that no candidate
  is chosen twice, because the code counts the chosen and the property their ids.
  That needs a lemma about task resolution, too: the limits of the resolved task are those of the
  host where he gave any (`HostLimitsStay`).
- `PlanHasTheChoice` and `PlanHasItsLengths`, for a plan made of the bundle that was selected from
  (with another one it need not hold, see above): two preparations of the same proposals by different
  tasks have an id in common only if it is the same candidate (`PreparationsAgree`).
- `PlanHasAllCues` is about the recursive preparation, whatever the cues: the groups of the greedy
  loop, flattened, are a prefix of the cues after each turn (`GroupsOf`, `GroupsAfterEach`); joining
  the last two keeps that; the parts of all candidates in a plan come in turn (`PartsInTurn`) and are
  found again by their ids (`PartsAreFound`).

Folds and recursive functions are reached by induction over the naturals, which the library states
for sets as well (`WFInduction` in terms of a relation): `Induct` takes the set of all *n* for which
a statement holds. So the theorems about folds (`FlattenIsOf`, `GroupsAfterEach`) quantify over
sequences of given sets.

### Calls and pictures

`LibraryProofs!LimitsAreKept`: what is left of a budget are the frontier calls not yet made, and each
call was given the tier its task and reasons require. `SubjectIsKept` and `SubtitleIsKeptInside` are
integer arithmetic, for pictures of any size and any frame or layout their validators let through
(`ValidFrame`, `ValidLayout`; `SubtitleStaysInSafeArea` is about the overlay of the system font
backend, not about the lines of an ASS file, whose margins the model has but whose wrapping and height
ffmpeg decides): each rounding step has a lemma with its bounds (`Round`, `Even`,
`Clamp`, the crop's size), and the property is the sum of these bounds. A picture of one pixel has no
even crop, so `SubjectStaysInside` is about pictures of at least two by two.

### Lectures, commentaries, games and subtitles

`LibraryProofs` proves eight properties of `library` about texts and games of any length. Their inputs
are what the validators of transcripts, cues, spans, display units, candidates, observations and
requests let through (`LectureConstants`, `ClipConstants`, `CommentaryConstants`, `GameConstants`,
`SayingConstants`: every interval has a duration, times are whole, ids differ, cues are ordered by
their starts, texts have a length and finitely many signals, the count a host asks for is positive);
limits are numbers (`TimeConstant`, `SpeedConstants`, `SportsConstants`). `NoneIsNoRefusal` says that "nothing" is not an error code, `NoneIsNoName` that it is neither a
number nor an id. The
loops of the code are recursive functions, and each has an invariant over its turns.

- `ResultsAreTakenBack`: what was found so far is in the order of its segments (`FoundInOrder`), a
  retraction removes the last result in reach and keeps the others (`OthersRemain`), and appending
  without duplicates removes nothing (`AddAllExtends`), so that a segment loses one result or none
  (`StepLoses`). A commentary that ended earlier would be read in the same way (`FoundInPrefix`), and
  what is there at the end was there ever since it was said (`FoundEverSince`), so that what is lost
  once is lost for good. It needs that no rule of a profile has the signal of a cancellation
  (`ValidRules`).
- `SpansKeepAll`: after each fragment, the closed spans followed by the one in the making hold
  exactly the fragments read (`SpansInv`); a closed one has a sentence mark at most at its end; and
  cues that contribute to one span are joined without a long pause or a change of speaker. The groups
  of whole cues have an invariant of the same form.
- `WindowsKeepContext`: the window only grows and contains its span (`Widened`); after as many turns
  as there are spans it is long enough or has all of them, because each turn adds a span; reaching
  back ends, by the same count, where nothing earlier is strong. It is proved for lectures whose cues
  follow each other (`FollowOn`): the transcript's validator orders cues by their starts only, and
  when they overlap, a window that reaches back or forward may end before it did and be too short.
- `WrittenWasChecked` and `CuesAreShownOnce`: the lines that are written are taken from the tracks
  that were checked (`WrittenIsChecked`, by cases of the modes and of what the clip has), and
  each line of each track lies in the clip (`TracksAreGood`). Both hold for given clips and for all
  clips a plan can have: `ShownInv` carries from lecture to proposal, part and plan that units share
  no cue and every time is a time of the clip (`ProposedAreClips`, `AllPreparedAreClips`).
- `PlansCanBeReadAgain`: a proposal is `Sound` (valid, its cues follow one another, and each span
  overlaps the cues it names), and a part of it is a `GoodPart`: its cues are a whole group, groups
  are ordered in time, so a span that lies in the part has all its cues there and still covers what
  it covered. The hypotheses are that cues follow each other (`FollowOn`) and that each fragment takes
  time (`TakesTime`): with overlapping cues, or with a fragment that ends its cue and begins a span
  without taking time, a part may have a span whose cues it lacks. Candidates of segments
  (`SegmentIsValid`) and of sports plans (`SportsAreValid`) are valid without either.
- `MomentsAreShownWhole`: while a cluster is open, its end is the latest end of all observations so
  far, keyed ones included (`InClusters`), so that one without a key that starts before the gap
  after any earlier one of its kind is over does not open another. Each key has one event, which
  holds all observations of that key and reaches from the first start to the last end
  (`EventForEach`, `EventHolds`), and the range of its clip has all of that, except past the end of
  the game or when it is cut to the greatest length (`RangeShows`).
- `NewTypesGoFirst`: the rank orders the qualified candidates strictly, by five numbers and then by
  their places (`RanksStrictly`; the numbers are such for all that can be prepared of a lecture,
  `AllPreparedAreScored`). The greedy loop keeps that each candidate picked had a type none picked
  before it had, and, while there is room, that what was passed over has nothing new (`Picked`). What
  is filled up afterwards comes last, and only if nothing new is left (`Selects`). The plan selects
  by ids, which its validator made sure are different (`DistinctMeans`).

Both rest on sorting. `OrderedBy` takes what is foremost of the rest, turn by turn; for any strict
order on a finite set the outcome has every element once and in order (`OrderedFacts`).

### Only model-checked

Liveness (`EveryExecutionEnds`, `Returns`, `DrainsEverything`) is beyond the proof system. All other
properties of the runs are theorems, some under the assumptions named above.

## Not modelled

- In `application/sdk.py`: loading of documents, the capability report, and `configure_reframe`,
  which exchanges one part of a plan for a validated one. In `cli.py`: the commands that call one
  function and print, and dry runs.
- Transcript adapters and file providers, `providers/sports.py` among them: parsers with no state and
  no interaction. What they validate is assumed of the inputs (`ValidBundle`).
- Regular expressions over natural language: attributes of a text, or given sets.
- Metrics, benchmarks' and evaluation's arithmetic: sequential, without state. The order in which
  these tools write their files is in `ResultTree`.
- Serialization and hashing: injective on what they are given, and used as equality.
- Fonts, drawing, escaping, time stamps, the text of a filter graph; the scoring of a readability
  report.
- The refusal of path traversal and of symbolic links in `media/paths.py`.
- Release, schema and check scripts.

## Plan

Further modules would model code without state, and every property of the runs but the liveness
properties has its theorem. What could still be weakened are hypotheses: `FollowOn` and `TakesTime`
by saying what holds of lectures whose cues overlap, and `NobodyRemoves` by saying which outputs of an
execution a process that removes some leaves alone.
