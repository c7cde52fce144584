----------------------------- MODULE StatusFeed -----------------------------
(***************************************************************************)
(* How a page of the dashboard comes to show what it shows: the server     *)
(* polls its sources in parallel, each read bounded by a timeout, merges   *)
(* them into one snapshot (dashboard/server.ts, state.ts) and streams it   *)
(* to the pages, which render it and keep what their toggles will invert   *)
(* (dashboard/public/app.js).                                              *)
(*                                                                         *)
(* A reading is the version of its source's truth, Failed when the read    *)
(* failed or timed out, Pending while it is under way.  The panels of a    *)
(* page draw on disjoint sources, so one of them is followed at a time.    *)
(***************************************************************************)
EXTENDS Integers, Sequences

CONSTANTS
  Panels,     \* for each panel of the page, the sources it shows
  PollSlots,  \* polls that could be under way at once (running allows one)
  Changes,    \* bound on the version of a source
  Lag         \* bound on the snapshots a page is behind

ASSUME FeedAssumption == {Changes, Lag} \subseteq Nat \ {0}

Failed == -1
Pending == -2

VARIABLES
  panel,    \* the sources followed
  truth,    \* the version each of them is at
  running,  \* Aggregator.running
  reads,    \* per poll, what its reads have returned; <<>> when it is not under way
  latest,   \* Aggregator.latest
  open,     \* the page's EventSource is connected
  stream,   \* the snapshots on their way to it
  shown,    \* the page's panel
  memory    \* sunGuardEnabledFromState, as the version it was taken from

serverVars == <<running, reads, latest>>
viewVars == <<open, stream, shown, memory>>
feedVars == <<panel, truth, serverVars, viewVars>>

Readings == 0 .. Changes \cup {Failed}
Snapshots == [panel -> Readings]

FeedTypeOK ==
  /\ panel \in Panels
  /\ truth \in [panel -> 0 .. Changes]
  /\ running \in BOOLEAN
  /\ reads \in [PollSlots -> [panel -> Readings \cup {Pending}] \cup {<<>>}]
  /\ latest \in Snapshots
  /\ open \in BOOLEAN
  /\ stream \in Seq(Snapshots) /\ Len(stream) <= Lag
  /\ shown \in Snapshots
  /\ memory \in 0 .. Changes

(* emptySources(): every source has failed until the first poll; the page  *)
(* renders the same before its first message.                              *)
NotPolledYet == [s \in panel |-> Failed]

FeedInit ==
  /\ panel \in Panels
  /\ truth \in [panel -> {0, 1}]
  /\ running = FALSE
  /\ reads = [i \in PollSlots |-> <<>>]
  /\ latest = NotPolledYet
  /\ open = FALSE
  /\ stream = <<>>
  /\ shown = NotPolledYet
  /\ memory = 0

SourceChanges(s) ==
  /\ truth[s] < Changes
  /\ truth' = [truth EXCEPT ![s] = @ + 1]
  /\ UNCHANGED <<panel, serverVars, viewVars>>
-----------------------------------------------------------------------------
(* Mutant: polls overlap.                                                  *)
PollStartsAnyway(i) ==
  /\ reads[i] = <<>>
  /\ running' = TRUE
  /\ reads' = [reads EXCEPT ![i] = [s \in panel |-> Pending]]
  /\ UNCHANGED <<panel, truth, latest, viewVars>>

(* The timer, every second.                                                *)
PollBegins(i) ==
  /\ ~ running
  /\ reads[i] = <<>>
  /\ running' = TRUE
  /\ reads' = [reads EXCEPT ![i] = [s \in panel |-> Pending]]
  /\ UNCHANGED <<panel, truth, latest, viewVars>>

Reads(i, s, reading) ==
  /\ s \in panel
  /\ reads[i] # <<>>
  /\ reads[i][s] = Pending
  /\ reads' = [reads EXCEPT ![i][s] = reading]
  /\ UNCHANGED <<panel, truth, running, latest, viewVars>>

(* A call to the daemon, a request to the rig, a systemctl is-active.      *)
SourceAnswers(i, s) == Reads(i, s, truth[s])

(* Mutant: a read that waits for as long as its source does.               *)
WaitsForSource(i, s) == FALSE /\ Reads(i, s, Failed)

(* Refused, unreachable, malformed, or withTimeout.                        *)
ReadFails(i, s) == Reads(i, s, Failed)

(* collect()'s Promise.all, mergeState and broadcast.                      *)
PollEnds(i) ==
  /\ reads[i] # <<>>
  /\ \A s \in panel : reads[i][s] # Pending
  /\ Len(stream) < Lag
  /\ latest' = reads[i]
  /\ reads' = [reads EXCEPT ![i] = <<>>]
  /\ running' = FALSE
  /\ stream' = IF open THEN Append(stream, latest') ELSE stream
  /\ UNCHANGED <<panel, truth, open, shown, memory>>
-----------------------------------------------------------------------------
(* GET /api/stream: the latest snapshot at once, then every later one.     *)
StreamOpens ==
  /\ ~ open
  /\ open' = TRUE
  /\ stream' = <<latest>>
  /\ UNCHANGED <<panel, truth, serverVars, shown, memory>>

(* The page goes on showing what it had; EventSource will reconnect.       *)
StreamBreaks ==
  /\ open
  /\ open' = FALSE
  /\ stream' = <<>>
  /\ UNCHANGED <<panel, truth, serverVars, shown, memory>>

(* renderSunGuard: an unknown guard leaves the toggle's memory alone.      *)
RenderSunGuard(s) == IF s = Failed THEN memory ELSE s

PageRenders ==
  /\ stream # <<>>
  /\ shown' = Head(stream)
  /\ stream' = Tail(stream)
  /\ memory' = IF "sun" \in panel THEN RenderSunGuard(shown'["sun"]) ELSE memory
  /\ UNCHANGED <<panel, truth, serverVars, open>>

FeedNext ==
  \/ \E s \in panel : SourceChanges(s)
  \/ \E i \in PollSlots :
       \/ PollBegins(i)
       \/ PollEnds(i)
       \/ \E s \in panel : SourceAnswers(i, s) \/ ReadFails(i, s)
  \/ StreamOpens
  \/ StreamBreaks
  \/ PageRenders

FeedSpec == FeedInit /\ [][FeedNext]_feedVars

SomePollBegins == \E i \in PollSlots : PollBegins(i)
SomePollEnds == \E i \in PollSlots : PollEnds(i)
SomeReadFails == \E i \in PollSlots, s \in panel : ReadFails(i, s)

(* The reads' timers and the browser's event loop, however often the       *)
(* stream breaks; the poll's timer and the browser's reconnection.  That a *)
(* source ever answers is not assumed.  (PollEnds is only ever held up by  *)
(* Lag.)                                                                   *)
FeedProgress ==
  /\ WF_feedVars(SomeReadFails)
  /\ SF_feedVars(SomePollEnds)
  /\ SF_feedVars(PageRenders)

FairFeedSpec ==
  /\ FeedSpec
  /\ FeedProgress
  /\ WF_feedVars(SomePollBegins)
  /\ WF_feedVars(StreamOpens)
-----------------------------------------------------------------------------
(* server.ts:140-170: polls do not overlap, reads of different lengths     *)
(* notwithstanding, and the stream keeps their order, so neither a panel   *)
(* nor what a toggle will invert ever goes back to an older truth; and an  *)
(* unknown guard is never remembered as off (app.js:428-438).              *)
FeedNeverGoesBack ==
  [][/\ \A s \in panel : Failed \in {shown[s], shown'[s]} \/ shown'[s] >= shown[s]
     /\ memory' >= memory]_feedVars

(* server.ts:66-99: a source that hangs stalls neither its poll nor the    *)
(* panels of the others.  Once the sources stop changing, the page comes   *)
(* to show each as it is or as unknown, for good, and its toggle inverts   *)
(* what it shows.                                                          *)
ShowsTheTruth ==
  /\ \A s \in panel : shown[s] \in {truth[s], Failed}
  /\ panel = {"sun"} /\ shown["sun"] # Failed => memory = shown["sun"]

FeedConverges == <>[]ShowsTheTruth
=============================================================================
