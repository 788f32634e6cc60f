---------------------------- MODULE PaperSession ----------------------------
(***************************************************************************)
(* The paper command of src/main.rs (run_paper_runtime): a session that    *)
(* captures feeds into a file cycle by cycle, replays the whole file after *)
(* each, records the paper events the replay generates that are not in the *)
(* file yet, and at the end checks that file and replay agree before it    *)
(* writes its outputs.  Also the replay command on the session it leaves,  *)
(* and the deterministic fixture.                                          *)
(*                                                                         *)
(* What a replay makes of a trading event depends on every event sorted    *)
(* before it; a generated paper event is therefore modelled as the inputs  *)
(* (their places in the file) up to the one it was generated at.           *)
(***************************************************************************)
EXTENDS MarketFeeds, Configuration, SequencesExt, FiniteSetsExt

CONSTANTS
  Feeds,         \* the reference feeds a configuration may name
  Probes,        \* the sources captured over websockets before it
  Messages,      \* the messages a feed may deliver
  Listings,      \* the market listings discovery may return: pages of markets
  MaxPages,      \* market_discovery_max_pages
  MaxCycles,     \* --cycles, and a bound where a session has no limit
  MaxMessages,   \* feed_message_limit
  Deadline,      \* websocket_capture_deadline, in read timeouts
  MaxSteps,      \* bound: times the wall clock steps back
  Outputs        \* what a finished session writes, in order

VARIABLES
  lines,         \* normalized_events.jsonl, in the order written
  torn,          \* whether half a line is left in it
  files,         \* the other files of the session directory
  feed,          \* the reference_feed section of the configuration
  kind,          \* "bounded", "open" (--cycles 0) or "fixture"
  pc,
  cycle, at,     \* cycles completed; the capture of the cycle at work
  socket,        \* [open, got, idle, left] of the capture loop
  batch,         \* captured messages not yet recorded
  events,        \* normalized events of the group so far
  pending,       \* lines still to append
  clock,         \* what monotonic_like_ns returns next
  stepped,       \* history: times it stepped back
  signal,        \* "none", "heard", or "lost": no one listened
  storageFailed, \* history: a write failed
  ended          \* how the session ended

captureVars == <<at, socket, batch, events>>
outsideVars == <<feed, kind, stepped, signal>>
vars == <<lines, torn, files, pc, cycle, captureVars, pending, clock, storageFailed, ended, outsideVars>>

ASSUME FeedsAssumption == IsFiniteSet(Assets) /\ Messages \subseteq Seq(Items)
ASSUME OutputsAssumption ==
  /\ Outputs \in Seq(STRING) /\ Outputs # << >>
  /\ \A m, n \in DOMAIN Outputs : Outputs[m] = Outputs[n] => m = n
  /\ "config" \notin Range(Outputs)
ASSUME ProbesAssumption == Probes \in Seq({"clob", "exchange"})
ASSUME BoundsAssumption == Deadline \in Nat \ {0} /\ MaxMessages \in Nat \ {0}

NoSocket == [open |-> FALSE, got |-> 0, idle |-> 0, left |-> Deadline]

Init ==
  /\ lines = << >> /\ torn = FALSE /\ files = {}
  /\ feed \in Feeds
  /\ kind \in {"bounded", "open", "fixture"}
  /\ pc = "idle" /\ cycle = 0 /\ at = 0
  /\ socket = NoSocket /\ batch = << >> /\ events = 0 /\ pending = << >>
  /\ clock = 1 /\ stepped = 0 /\ signal = "none" /\ storageFailed = FALSE
  /\ ended = "no"

-----------------------------------------------------------------------------
Line(mono, seq, source, what) == [mono |-> mono, seq |-> seq, source |-> source, what |-> what]

(* The replay: read_run_events sorts by replay_ordering_key; the recorded  *)
(* paper events are set apart, the others are run through the engines.     *)
(* Sorted has the places of the lines of S in that order.                  *)
Earlier(ls, m, n) ==
  LET a == ls[m] b == ls[n]
  IN \/ a.mono < b.mono
     \/ a.mono = b.mono /\ (a.seq < b.seq \/ (a.seq = b.seq /\ m < n))
UpTo(ls, S, n) == {m \in S : m = n \/ Earlier(ls, m, n)}
Sorted(ls, S) ==
  [k \in 1..Cardinality(S) |-> CHOOSE n \in {x \in S : Cardinality(UpTo(ls, S, x)) = k} : TRUE]

Paper(ls) == {n \in DOMAIN ls : ls[n].source = "paper"}
Inputs(ls) == DOMAIN ls \ Paper(ls)
Trading(ls) == {n \in Inputs(ls) : ls[n].what = "trading"}

Recorded(ls) ==
  LET places == Sorted(ls, Paper(ls)) IN [k \in DOMAIN places |-> ls[places[k]].what]
Generated(ls) ==
  LET places == Sorted(ls, Trading(ls))
  IN [k \in DOMAIN places |-> UpTo(ls, Inputs(ls), places[k])]

(* compare_generated_to_recorded_paper_events *)
Agree(ls) == Recorded(ls) = Generated(ls)

(* The replay command on a file, half a line of which cannot be read. *)
ReplayVerdict(ls, half) ==
  IF half THEN "unreadable" ELSE IF Agree(ls) THEN "deterministic" ELSE "diverged"

(* append_new_recorded_paper_events: what the file lacks, each stamped by  *)
(* its index; Stored adds the clock.                                       *)
PaperLine(index, what) == Line(index, 9000 + index, "paper", what)
BugMissingAll(recorded, generated) ==      \* what it has already, too
  [n \in 1..Len(generated) |-> PaperLine(n - 1, generated[n])]
BugMissing(recorded, generated) ==      \* all but the last
  [n \in 1..(Len(generated) - Len(recorded) - 1) |->
     PaperLine(Len(recorded) + n - 1, generated[Len(recorded) + n])]
Missing(recorded, generated) ==
  [n \in 1..(Len(generated) - Len(recorded)) |->
     PaperLine(Len(recorded) + n - 1, generated[Len(recorded) + n])]

-----------------------------------------------------------------------------
Goto(next) == pc' = next /\ UNCHANGED ended
End(how) == pc' = "idle" /\ ended' = how

(* What a cycle captures, in order: the books, a websocket each of the     *)
(* probes, and the reference feed; with prices of the market's own source, *)
(* the books again.  Only the websocket of the venue may bring nothing.    *)
Capture(source, snapshot) ==
  [source |-> source, snapshot |-> snapshot, required |-> source # "clob" \/ snapshot]
ReferenceCaptures ==
  CASE RtdsEnabled(feed) -> << Capture("rtds", FALSE), Capture("clob", TRUE) >>
    [] PythEnabled(feed) -> << Capture("pyth", TRUE) >>
    [] OTHER -> << >>
Captures ==
  << Capture("clob", TRUE) >> \o [n \in DOMAIN Probes |-> Capture(Probes[n], FALSE)]
  \o ReferenceCaptures

(* A step that reads and decides, and stores nothing. *)
Decides == UNCHANGED <<lines, torn, files, storageFailed, outsideVars>>

(* A configuration with errors is refused, a run id whose directory exists *)
(* too, as is a blocked location: nothing is left behind.  The directory   *)
(* comes with the first file.                                              *)
Start ==
  /\ pc = "idle" /\ files = {} /\ ended = "no"
  /\ ReferenceErrors(feed) = {}
  /\ Goto("config")
  /\ Decides /\ UNCHANGED <<cycle, captureVars, pending, clock>>

WriteFile(name, next) ==
  /\ \/ files' = files \cup {name} /\ next /\ UNCHANGED storageFailed
     \/ UNCHANGED files /\ storageFailed' = TRUE /\ End("failed")
  /\ UNCHANGED <<lines, torn, cycle, captureVars, pending, clock, outsideVars>>

WriteConfig ==
  /\ pc = "config"
  /\ WriteFile("config", Goto(IF kind = "fixture" THEN "fixture" ELSE "discover"))

(* discover_crypto_15m_markets, select_paper_markets and                   *)
(* persist_discovered_markets: a line per selected market.                 *)
MarketLines == [n \in 1..Cardinality(Assets) |-> Line(clock + n - 1, n, "discovery", "quiet")]
Discover ==
  /\ pc = "discover"
  /\ \E listing \in Listings :
       IF Selectable(Discovered(listing.pages, MaxPages), listing.now)
       THEN pending' = MarketLines /\ clock' = clock + Len(MarketLines) /\ Goto("store.markets")
       ELSE End("failed") /\ UNCHANGED <<pending, clock>>
  /\ Decides /\ UNCHANGED <<cycle, captureVars>>

(* append_json_line, unbuffered: a failure leaves nothing, half a line or  *)
(* the whole line, and ends the session with the error.  Recorded paper    *)
(* events are stamped when they are written.                               *)
Stored(line) == IF line.source = "paper" THEN [line EXCEPT !.mono = clock + @] ELSE line
StoreNext ==
  /\ pending # << >>
  /\ \/ /\ lines' = Append(lines, Stored(Head(pending)))
        /\ pending' = Tail(pending)
        /\ UNCHANGED <<torn, pc, ended, storageFailed>>
     \/ /\ \/ lines' = Append(lines, Stored(Head(pending))) /\ UNCHANGED torn
           \/ UNCHANGED lines /\ torn' \in BOOLEAN
        /\ pending' = << >> /\ storageFailed' = TRUE /\ End("failed")
  /\ clock' = clock + 1
  /\ UNCHANGED <<files, cycle, captureVars, outsideVars>>
Then(next) ==
  /\ pending = << >> /\ Goto(next)
  /\ cycle' = IF pc = "store.paper" THEN cycle + 1 ELSE cycle
  /\ Decides /\ UNCHANGED <<captureVars, pending, clock>>
AfterPaper == CASE kind = "open" -> "wait" [] kind = "bounded" -> "cycle" [] OTHER -> "final"
AppendLine ==
  \/ pc \in {"store.markets", "store.events", "store.paper", "store.fixture"} /\ StoreNext
  \/ pc = "store.markets" /\ Then("cycle")
  \/ pc = "store.events" /\ Then("record")
  \/ pc = "store.fixture" /\ Then("replay")
  \/ pc = "store.paper" /\ Then(AfterPaper)

(* The head of the cycle loop: a session without a limit goes on (here: up *)
(* to the bound MaxCycles, after which it waits for its signal).           *)
CycleHead ==
  /\ pc = "cycle"
  /\ \/ kind = "bounded" /\ cycle = MaxCycles /\ Goto("final") /\ UNCHANGED captureVars
     \/ /\ cycle < MaxCycles /\ Goto("capture")
        /\ at' = 1 /\ socket' = NoSocket /\ events' = 0 /\ UNCHANGED batch
  /\ Decides /\ UNCHANGED <<cycle, pending, clock>>

(* fetch_book and fetch_latest: one message, or the session ends. *)
Fetch ==
  /\ pc = "capture" /\ Captures[at].snapshot
  /\ \/ \E m \in Messages : batch' = << m >> /\ Goto("record")
     \/ End("failed") /\ UNCHANGED batch
  /\ Decides /\ UNCHANGED <<cycle, at, socket, events, pending, clock>>

(* A read timeout passes without a frame, and a PING is sent; or a frame   *)
(* arrives that holds no text.                                             *)
Quiet(s) == s.idle < 3
Idle(s) == [s EXCEPT !.idle = @ + 1, !.left = @ - 1]
Other(s) == [s EXCEPT !.idle = 0, !.left = @ - 1]

(* connect_stream and the handshake, before the deadline starts. *)
Connect ==
  /\ pc = "capture" /\ ~ Captures[at].snapshot /\ ~ socket.open
  /\ \/ socket' = [socket EXCEPT !.open = TRUE] /\ UNCHANGED <<pc, ended>>
     \/ End("failed") /\ UNCHANGED socket
  /\ Decides /\ UNCHANGED <<cycle, at, batch, events, pending, clock>>

(* connect_and_capture, a frame at a time: a text frame is kept, another   *)
(* resets the idle count (`left` bounds how many fit in the time); quiet   *)
(* timeouts are borne three times.  The limit, a close or the deadline end *)
(* it.                                                                     *)
ReadFrame ==
  /\ pc = "capture" /\ ~ Captures[at].snapshot /\ socket.open
  /\ \/ /\ socket.got < MaxMessages /\ socket.left > 0
        /\ \/ \E m \in Messages :
                /\ batch' = Append(batch, m)
                /\ socket' = [socket EXCEPT !.got = @ + 1, !.idle = 0]
           \/ socket' = Other(socket) /\ UNCHANGED batch
           \/ Quiet(socket) /\ socket' = Idle(socket) /\ UNCHANGED batch
        /\ UNCHANGED <<pc, ended>>
     \/ Goto("record") /\ UNCHANGED <<batch, socket>>
  /\ Decides /\ UNCHANGED <<cycle, at, events, pending, clock>>

(* read_frame: a length or payload that does not come in time, a frame too *)
(* long or of no known kind, a header after the fourth timeout: whatever   *)
(* was captured is dropped.                                                *)
ReadFails ==
  /\ pc = "capture" /\ ~ Captures[at].snapshot /\ socket.open
  /\ End("failed") /\ batch' = << >>
  /\ Decides /\ UNCHANGED <<cycle, at, socket, events, pending, clock>>

(* FeedRecorder::record_message: the raw message is stored, then its       *)
(* events, stamped from the receive time on.  A refused one, or a failure  *)
(* to store the raw message, ends the session.                             *)
EventLines(count, what) ==
  [n \in 1..count |-> Line(clock + n - 1, 1000 * (cycle + 1) + Len(lines) + n - 1,
                           Captures[at].source, IF n = 1 THEN what ELSE "quiet")]
RecordMessage ==
  LET new == Batch(Captures[at].source, Head(batch)) IN
  /\ pc = "record" /\ batch # << >>
  /\ batch' = Tail(batch)
  /\ \/ /\ ~ new.refused /\ Goto("store.events")
        /\ \E what \in {"trading", "quiet"} : pending' = EventLines(new.events, what)
        /\ events' = events + new.events
        /\ clock' = clock + 1
        /\ UNCHANGED storageFailed
     \/ /\ new.refused /\ End("failed")
        /\ UNCHANGED <<pending, events, clock, storageFailed>>
     \/ /\ storageFailed' = TRUE /\ End("failed")
        /\ UNCHANGED <<pending, events, clock>>
  /\ UNCHANGED <<lines, torn, files, cycle, at, socket, outsideVars>>

BugNothingHeard ==      \* tries again
  Goto("capture") /\ socket' = NoSocket /\ UNCHANGED <<at, batch, events>>
NothingHeard == End("failed") /\ UNCHANGED captureVars

(* The end of a capture: all but one must have produced an event. *)
CaptureDone ==
  LET last == at = Len(Captures) IN
  /\ pc = "record" /\ batch = << >>
  /\ IF Captures[at].required /\ events = 0 THEN NothingHeard
     ELSE /\ Goto(IF last THEN "replay" ELSE "capture")
          /\ at' = IF last THEN at ELSE at + 1
          /\ socket' = NoSocket
          /\ events' = 0
          /\ UNCHANGED batch
  /\ Decides /\ UNCHANGED <<cycle, pending, clock>>

(* The fixture writes made-up events with made-up stamps. *)
FixtureLines == [n \in 1..3 |-> Line(n, n, "fixture", IF n = 3 THEN "trading" ELSE "quiet")]
Fixture ==
  /\ pc = "fixture" /\ Goto("store.fixture") /\ pending' = FixtureLines
  /\ Decides /\ UNCHANGED <<cycle, captureVars, clock>>

(* The replay of a cycle, and what it finds missing from the file.  What   *)
(* is recorded must be how the generated events begin.                     *)
Replay ==
  /\ pc = "replay"
  /\ \E recorded \in {Recorded(lines)}, generated \in {Generated(lines)} :
       IF IsPrefix(recorded, generated)
       THEN Goto("store.paper") /\ pending' = Missing(recorded, generated)
       ELSE End("diverged") /\ UNCHANGED pending
  /\ Decides /\ UNCHANGED <<cycle, captureVars, clock>>

(* Between the cycles of a session without a limit. *)
Wait ==
  /\ pc = "wait" /\ Goto("cycle")
  /\ Decides /\ UNCHANGED <<cycle, captureVars, pending, clock>>

BugFinalCheck ==      \* outputs without the check
  /\ pc = "final" /\ Goto("persist")
  /\ Decides /\ UNCHANGED <<cycle, captureVars, pending, clock>>
FinalCheck ==
  /\ pc = "final"
  /\ IF Agree(lines) THEN Goto("persist") ELSE End("diverged")
  /\ Decides /\ UNCHANGED <<cycle, captureVars, pending, clock>>

(* persist_paper_outputs, the shadow outputs, write_runtime_artifacts and  *)
(* sync_session, one file after the other.                                 *)
Unwritten == {n \in DOMAIN Outputs : Outputs[n] \notin files}
Persist ==
  \/ /\ pc = "persist" /\ Unwritten # {}
     /\ WriteFile(Outputs[Min(Unwritten)], Goto("persist"))
  \/ /\ pc = "persist" /\ Unwritten = {}
     /\ WriteFile("config", End("ok"))         \* the sync may fail

SessionStep ==
  \/ WriteConfig \/ Discover \/ AppendLine \/ CycleHead
  \/ Fetch \/ Connect \/ ReadFrame \/ ReadFails \/ RecordMessage \/ CaptureDone
  \/ Fixture \/ Replay \/ Wait \/ FinalCheck \/ Persist

-----------------------------------------------------------------------------
(* The world outside.                                                      *)
Storing == {"store.markets", "store.events", "store.paper", "store.fixture"}
Die ==
  /\ End("crashed") /\ torn' \in {torn, torn \/ pc \in Storing}
  /\ pending' = << >>
  /\ UNCHANGED <<lines, files, cycle, captureVars, clock, storageFailed, feed, kind, stepped>>
Crash == pc # "idle" /\ Die /\ UNCHANGED signal

(* shutdown_signal() is polled while a capture awaits and between cycles.  *)
Listens == kind = "open" /\ pc \in {"capture", "wait"}

AfterSignal == "final"

(* SIGINT or SIGTERM: heard where a cycle awaits, lost once a handler is   *)
(* installed but not polled, and deadly before.                            *)
Signal ==
  /\ pc # "idle" /\ signal = "none"
  /\ IF Listens
     THEN /\ signal' = "heard" /\ Goto(AfterSignal) /\ batch' = << >>
          /\ UNCHANGED <<lines, torn, files, cycle, at, socket, events, pending, clock,
                         storageFailed, feed, kind, stepped>>
     ELSE IF kind = "open" /\ at # 0
     THEN /\ signal' = "lost"
          /\ UNCHANGED <<lines, torn, files, pc, cycle, captureVars, pending, clock,
                         storageFailed, ended, feed, kind, stepped>>
     ELSE Die /\ UNCHANGED signal

(* The wall clock behind monotonic_like_ns is set back: a little, or to    *)
(* where the session began.                                                *)
StepBack ==
  /\ pc # "idle" /\ stepped < MaxSteps
  /\ stepped' = stepped + 1
  /\ clock' \in {1, clock - 1} \ {0}
  /\ UNCHANGED <<lines, torn, files, pc, cycle, captureVars, pending, storageFailed, ended,
                 feed, kind, signal>>

Next == Start \/ SessionStep \/ Crash \/ Signal \/ StepBack

Spec == Init /\ [][Next]_vars
FairSpec == Spec /\ WF_vars(SessionStep)

-----------------------------------------------------------------------------
(* Properties                                                              *)

TypeOK ==
  /\ \A n \in DOMAIN lines : lines[n].mono \in Nat
  /\ torn \in BOOLEAN
  /\ files \subseteq {"config"} \cup Range(Outputs)
  /\ pc # "idle" => ended = "no"
  /\ socket.got \in 0..MaxMessages /\ socket.left \in 0..Deadline /\ socket.idle \in 0..3
  /\ Len(batch) <= MaxMessages
  /\ ended \in {"no", "ok", "failed", "diverged", "crashed"}

(* While the clock goes forward, the paper events in the file are how the  *)
(* events a replay generates begin, crash, failed write or shutdown: no    *)
(* event is recorded twice, out of order, or by a cycle that saw less of   *)
(* the past (append_new_recorded_paper_events, replay_ordering_key).       *)
RecordedIsPrefix == stepped = 0 => IsPrefix(Recorded(lines), Generated(lines))
RecordIsSound == TypeOK /\ RecordedIsPrefix

(* The report is written over a file that explains it: whenever it exists, *)
(* every output before it does, the replay command finds the session       *)
(* deterministic, even after the clock stepped back, and each cycle holds  *)
(* a price of the reference feed that is configured, if it is one that     *)
(* brings prices: none is switched off silently.                           *)
Prices == {n \in DOMAIN lines : lines[n].source \in {"rtds", "pyth"}}
FedAsConfigured ==
  kind # "fixture" /\ feed.provider \in {"pyth_proxy", "polymarket_rtds_chainlink"} =>
    Cardinality(Prices) >= cycle
ReportIsAudited ==
  LET last == Outputs[Len(Outputs)] IN
  last \in files =>
    /\ Range(Outputs) \subseteq files /\ ReplayVerdict(lines, torn) = "deterministic"
    /\ FedAsConfigured

(* Only a clock stepping back or a shutdown inside a capture makes a       *)
(* session find its own file divergent.                                    *)
DivergesOnlyWhenDisturbed == ended = "diverged" => stepped > 0 \/ signal = "heard"

(* Every session with a limit ends, whatever its feeds send or do not: the *)
(* deadline bounds each capture.  One without ends once its signal is      *)
(* heard.                                                                  *)
SessionEnds == (pc # "idle" /\ kind # "open") ~> (pc = "idle")
HeardSignalEnds == (signal = "heard") ~> (pc = "idle")
EndsInTime == SessionEnds /\ HeardSignalEnds
=============================================================================
