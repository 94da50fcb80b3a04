----------------------------- MODULE LogForward -----------------------------
(***************************************************************************)
(* Who reads the output of a service: the forwarding of it to a log target *)
(* (internals/overlord/logstate: a puller that reads the buffer, a         *)
(* gatherer that batches what the puller sends it, the client of the       *)
(* target, and the log manager that follows the plan), or a request for    *)
(* the logs (internals/daemon/api_logs.go, client/logs.go, "pebble logs"). *)
(* One service writes, through the formatter, to the buffer of RingBuffer. *)
(***************************************************************************)
EXTENDS RingBuffer

CONSTANTS Output,      \* what the service may write in one go: sequences of Text and End
          MaxBytes,    \* bound: how much is written in all
          MaxPlans,    \* bound: how often the plan changes
          MaxFailures, \* bound: how often a flush fails
          MaxEntries,  \* maxBufferedEntries, and MaxRequestEntries of the clients
          Room,        \* what is free of a parser's buffer when it reads
          Target,      \* the kinds of target to try
          LogCount,    \* what "-n" may be: -1 for all
          DefaultLogs  \* defaultNumLogs

\* A service's output is copied in pieces of at most 32 KiB (io.Copy, for the logWriter of
\* doExec's cmd.Stdout) to a ring of maxLogBytes = 100 KiB, so that Write never truncates
\* one of them; what ends a line is a newline, and neither the time nor the text holds one.
ASSUME ForwardAssumption ==
  /\ Reader = {"puller", "request"} /\ Gap = <<"gap", 0>>
  /\ MaxBytes \in Nat \ {0}
  /\ \A k \in 1 .. MaxBytes :
       <<"end", k>> \in Newline /\ <<"stamp", k>> \notin Newline /\ <<"text", k>> \notin Newline
  /\ Output \subseteq Seq({"text", "end"}) /\ \A p \in Output : Len(p) <= Size
  /\ Room \subseteq Nat \ {0} /\ LogCount \subseteq Int /\ DefaultLogs \in Nat
  /\ MaxEntries \in Nat \ {0} /\ MaxFailures \in Nat

VARIABLES format,    \* the formatter: between lines?, number of the line, still to write
          service,   \* "new", "started", or "known" to the log manager
          consumer,  \* who reads: one of Target, or "request"
          plan,      \* is there the target, does the service log to it, the labels
          parser,    \* reader -> its parser
          puller,    \* the puller: what it does, was it told to die, is it in the group
          gatherer,  \* the main loop: what it does, its counter, its timer, ...
          client,    \* the client of the target: its entries and the labels
          manager,   \* what the log manager is doing under its lock
          stop,      \* how far the gatherer's Stop got
          request,   \* the request for the logs
          batch,     \* what the target received last (history)
          failures   \* the number of flushes that failed

forwardVars == <<puller, gatherer, client, manager, stop, plan, batch, failures>>
vars == <<bufferVars, format, service, consumer, parser, forwardVars, request>>

Stamp(k) == <<"stamp", k>>
Text(k) == <<"text", k>>
End(k) == <<"end", k>>
IsStamp(c) == c[1] = "stamp"
EndsLine(c) == c[1] \in {"end", "gap"}

Labels == {1, 2}
NoLabels == 0

NewParser == [buf |-> <<>>, eof |-> FALSE, last |-> 0, entry |-> <<>>]

NoPuller == [pc |-> "off", dying |-> FALSE, known |-> FALSE]
NewGatherer == [pc |-> "select", dying |-> FALSE, cancelled |-> FALSE,
                written |-> 0, timer |-> FALSE, labels |-> <<>>]
NoRequest == [pc |-> "off", follow |-> FALSE, n |-> 0, fifo |-> <<>>, shown |-> <<>>,
              since |-> 0, end |-> 0]

Init ==
  /\ BufferInit
  /\ format = [fresh |-> TRUE, line |-> 1, rest |-> <<>>]
  /\ service = "new"
  /\ consumer \in Target \cup {"request"}
  /\ plan = [target |-> TRUE, logs |-> consumer # "request", labels |-> 1, changes |-> 0]
  /\ parser = [r \in Reader |-> NewParser]
  /\ puller = NoPuller
  /\ gatherer = NewGatherer
  /\ client = [entries |-> <<>>, labels |-> IF plan.logs THEN 1 ELSE NoLabels]
  /\ manager = "free"
  /\ stop = "none"
  /\ request = NoRequest
  /\ batch = <<>>
  /\ failures = 0

(***************************************************************************)
(* The service and its output.                                             *)
(***************************************************************************)
StartService ==
  /\ service = "new"
  /\ service' = "started"
  /\ UNCHANGED <<bufferVars, format, consumer, parser, forwardVars, request>>

\* The process writes p; the formatter is still busy until all of it is in the buffer
ServiceWrites(p) ==
  /\ service # "new"
  /\ format.rest = <<>>
  /\ ~signal
  /\ Len(written) + Len(p) + 1 <= MaxBytes
  /\ format' = [format EXCEPT !.rest = p]
  /\ UNCHANGED <<bufferVars, service, consumer, parser, forwardVars, request>>

\* Each line is preceded by its time and the name of the service
FormatStamp ==
  /\ format.rest # <<>>
  /\ format.fresh
  /\ WriteBytes(<<Stamp(format.line)>>)
  /\ format' = [format EXCEPT !.fresh = FALSE]
  /\ UNCHANGED <<service, consumer, parser, forwardVars, request>>

FormatText ==
  LET rest == format.rest
      Ends(i) == rest[i] = "end"
  IN /\ ~format.fresh
     /\ \E n \in 1 .. Len(rest) :
          /\ Ends(n) \/ n = Len(rest)
          /\ \A i \in 1 .. n - 1 : ~Ends(i)
          /\ WriteBytes([i \in 1 .. n |-> <<rest[i], format.line>>])
          /\ format' = [fresh |-> Ends(n),
                        line |-> format.line + (IF Ends(n) THEN 1 ELSE 0),
                        rest |-> SubSeq(rest, n + 1, Len(rest))]
     /\ UNCHANGED <<service, consumer, parser, forwardVars, request>>

SignalReaders ==
  /\ SignalIterators
  /\ UNCHANGED <<format, service, consumer, parser, forwardVars, request>>

(***************************************************************************)
(* Parser.Next, in steps: ParserReads as long as there is no whole line,   *)
(* then ParserSplits.  The text for a gap starts with the end of a line.   *)
(***************************************************************************)
HasLine(r) == \E i \in 1 .. Len(parser[r].buf) : EndsLine(parser[r].buf[i])

ParserReads(r) ==
  LET i == iter[r]
      Fed(cells, eof) == parser' = [parser EXCEPT ![r].buf = @ \o cells, ![r].eof = eof]
  IN /\ ~HasLine(r) /\ ~parser[r].eof
     /\ \/ ReadTrunc(r) /\ Fed(<<End(0), Gap>>, FALSE)
        \/ ReadOvertaken(r) /\ Fed(<<>>, TRUE)
        \/ ReadNothing(r) /\ Fed(<<>>, TRUE)
        \/ \E room \in Room :
             ReadBytes(r, room) /\ Fed(given'[r], iter'[r].index = writeIndex)

\* What the parser takes from its buffer: a line, or at the end of the data all of it
NextLine(r) ==
  LET buf == parser[r].buf
      ends == {i \in 1 .. Len(buf) : EndsLine(buf[i])}
  IN IF ends = {} THEN buf ELSE SubSeq(buf, 1, Min(ends))

\* found: whether Next returns true.  A line that has no stamp of its own gets the last
\* one; a stamp without a text is remembered until the text comes.
ParserSplits(r, found) ==
  LET line == NextLine(r)
      rest == SubSeq(parser[r].buf, Len(line) + 1, Len(parser[r].buf))
      stamped == line # <<>> /\ IsStamp(line[1])
      last == IF stamped THEN line[1][2] ELSE parser[r].last
      text == IF stamped THEN Tail(line) ELSE line
  IN /\ HasLine(r) \/ parser[r].eof
     /\ found = (text # <<>> /\ last # 0)
     /\ parser' = [parser EXCEPT ![r] =
                     [buf |-> rest,
                      eof |-> HasLine(r) /\ parser[r].eof,
                      last |-> last,
                      entry |-> IF found THEN [stamp |-> last, text |-> text] ELSE <<>>]]
     /\ UNCHANGED <<iter, given>>

\* Next skips a line that it can make nothing of and goes on, unless the data ended
Skips(r) == HasLine(r)

(***************************************************************************)
(* The puller: look for more, parse it, send each entry to the gatherer.   *)
(***************************************************************************)
PullerGoes(pc) == puller' = [puller EXCEPT !.pc = pc]
RestOfPuller ==
  UNCHANGED <<ringVars, format, service, consumer, gatherer, client, manager, stop, plan,
              batch, failures, request>>

PullerLooks ==
  /\ puller.pc = "look"
  /\ Look("puller")
  /\ PullerGoes(IF HasMore(iter'["puller"]) THEN "parse" ELSE "wait")
  /\ UNCHANGED parser
  /\ RestOfPuller

PullerWakes ==
  /\ puller.pc = "wait"
  /\ iter["puller"].next \/ puller.dying
  /\ Look("puller")
  /\ PullerGoes(IF HasMore(iter'["puller"]) THEN "parse"
                ELSE IF puller.dying THEN "end" ELSE "wait")
  /\ UNCHANGED parser
  /\ RestOfPuller

PullerParses ==
  /\ puller.pc = "parse"
  /\ \/ ParserReads("puller") /\ UNCHANGED puller
     \/ ParserSplits("puller", TRUE) /\ PullerGoes("send")
     \/ ParserSplits("puller", FALSE) /\ PullerGoes(IF Skips("puller") THEN "parse" ELSE "look")
  /\ RestOfPuller

\* A puller that is told to die drops the entry it has and all that it has read

PullerGivesUp ==
  /\ puller.pc = "send" /\ puller.dying
  /\ PullerGoes("end")
  /\ UNCHANGED <<iter, given, parser>>
  /\ RestOfPuller

PullerEnds ==
  /\ puller.pc = "end"
  /\ CloseIterator("puller")
  /\ PullerGoes("dead")
  /\ parser' = [parser EXCEPT !["puller"] = NewParser]
  /\ RestOfPuller

PullerAlive == puller.pc \notin {"off", "dead"}

(***************************************************************************)
(* The gatherer's main loop and the client of its target.                  *)
(***************************************************************************)
RestOfGatherer ==
  UNCHANGED <<bufferVars, format, service, consumer, stop, plan, request>>

\* Client.Add: a full client forgets its oldest entry
Added(entry) ==
  LET old == IF Len(client.entries) >= MaxEntries THEN Tail(client.entries)
                                                  ELSE client.entries
  IN [client EXCEPT !.entries =
        Append(old, [entry |-> entry, labels |-> client.labels, failed |-> FALSE])]

GathererReceives ==
  LET n == gatherer.written + 1
  IN /\ gatherer.pc = "select" /\ puller.pc = "send"
     /\ client' = Added(parser["puller"].entry)
     /\ parser' = [parser EXCEPT !["puller"].entry = <<>>]
     /\ PullerGoes("parse")
     /\ gatherer' = [gatherer EXCEPT
                       !.written = n,
                       !.pc = IF n >= MaxEntries THEN "flush" ELSE "select",
                       !.timer = n < MaxEntries]
     /\ UNCHANGED <<manager, batch, failures>>
     /\ RestOfGatherer

\* The timer, set since the first entry after the last flush, elapses
FlushTimerFires ==
  /\ gatherer.pc = "select" /\ gatherer.timer
  /\ gatherer' = [gatherer EXCEPT !.pc = "flush", !.timer = FALSE]
  /\ UNCHANGED <<puller, parser, client, manager, batch, failures>>
  /\ RestOfGatherer

\* The log manager sends new labels, or none: first flush what was collected with the old

\* Mutant: the labels are set without a flush.
GathererTakesLabelsOnly(next) ==
  /\ gatherer.pc = "select"
  /\ manager = "label" \/ manager = "unlabel"
  /\ client' = [client EXCEPT !.labels = IF manager = "label" THEN plan.labels ELSE NoLabels]
  /\ manager' = next
  /\ UNCHANGED <<gatherer, puller, parser, batch, failures>>
  /\ RestOfGatherer

GathererTakesLabels(next) ==
  /\ gatherer.pc = "select"
  /\ manager = "label" \/ manager = "unlabel"
  /\ gatherer' = [gatherer EXCEPT !.pc = "flush", !.timer = FALSE,
                    !.labels = <<IF manager = "label" THEN plan.labels ELSE NoLabels>>]
  /\ manager' = next
  /\ UNCHANGED <<puller, parser, client, batch, failures>>
  /\ RestOfGatherer

\* The last flush has a context, and so a time limit, of its own
GathererStops ==
  /\ gatherer.pc = "select" /\ gatherer.dying
  /\ gatherer' = [gatherer EXCEPT !.pc = "final", !.timer = FALSE]
  /\ UNCHANGED <<puller, parser, client, manager, batch, failures>>
  /\ RestOfGatherer

\* What follows a flush: the labels that were waiting for it, or the end of the loop
AfterFlush(c) ==
  /\ gatherer' = [gatherer EXCEPT !.pc = IF @ = "final" THEN "dead" ELSE "select",
                                  !.written = 0, !.labels = <<>>]
  /\ client' = IF gatherer.labels = <<>> THEN c
               ELSE [c EXCEPT !.labels = gatherer.labels[1]]
  /\ UNCHANGED <<puller, parser, manager>>
  /\ RestOfGatherer

Flushing == gatherer.pc \in {"flush", "final"}
Delivered(n) == [i \in 1 .. n |-> [item |-> client.entries[i], labels |-> client.labels]]
Kept(n) == [i \in 1 .. Len(client.entries) - n |->
              [client.entries[n + i] EXCEPT !.failed = TRUE]]

\* All is sent, and forgotten; nothing to send needs no connection
FlushSucceeds ==
  /\ Flushing
  /\ gatherer.pc = "flush" /\ gatherer.cancelled => client.entries = <<>>
  /\ batch' = IF client.entries = <<>> THEN batch ELSE Delivered(Len(client.entries))
  /\ AfterFlush([client EXCEPT !.entries = <<>>])
  /\ UNCHANGED failures

\* The target refuses the entries (4xx, but not 429): they are forgotten
FlushRefused ==
  /\ Flushing /\ client.entries # <<>>
  /\ failures < MaxFailures
  /\ failures' = failures + 1
  /\ AfterFlush([client EXCEPT !.entries = <<>>])
  /\ UNCHANGED batch

\* No connection, no answer in time, the context was cancelled, or an answer that asks for
\* patience.  The target got sent entries before; the client forgets the first gone.
FlushFails(sent, gone) ==
  /\ Flushing /\ client.entries # <<>>
  /\ gatherer.cancelled \/ failures < MaxFailures
  /\ failures' = IF failures < MaxFailures THEN failures + 1 ELSE failures
  /\ batch' = IF sent = 0 THEN batch ELSE Delivered(sent)
  /\ AfterFlush([client EXCEPT !.entries = Kept(gone)])

LokiFlushes ==
  consumer = "loki" /\ (FlushSucceeds \/ FlushRefused \/ FlushFails(0, 0))

OpenTelemetryFlushes ==
  consumer = "opentelemetry" /\ (FlushSucceeds \/ FlushRefused \/ FlushFails(0, 0))

\* What was written to the connection before it broke stays in the client too
SyslogStreamFlushes ==
  /\ consumer = "tcp"
  /\ \/ FlushSucceeds
     \/ \E n \in 0 .. Len(client.entries) - 1 : FlushFails(n, 0)

\* Each entry is a datagram: those that went out before the failure are forgotten
SyslogDatagramsFlush ==
  /\ consumer = "udp"
  /\ \/ FlushSucceeds
     \/ \E n \in 0 .. Len(client.entries) - 1 : FlushFails(n, n)

(***************************************************************************)
(* The log manager: the plan changes, the service starts, the daemon stops.*)
(***************************************************************************)
RestOfManager == UNCHANGED <<ringVars, format, consumer, client, batch, failures, request>>

\* What PlanChanged does with the gatherer of a target that stays
Updates(logs) ==
  IF puller.known /\ ~logs THEN "remove" ELSE IF logs THEN "label" ELSE "free"

PlanChanged(target, logs, labels) ==
  /\ manager = "free" /\ stop = "none"
  /\ plan.changes < MaxPlans /\ plan.target /\ consumer # "request"
  /\ target \/ ~logs
  /\ logs \/ labels = plan.labels
  /\ plan' = [target |-> target, logs |-> logs, labels |-> labels,
              changes |-> plan.changes + 1]
  /\ IF target
       THEN /\ manager' = Updates(logs)
            /\ puller' = [puller EXCEPT !.dying = @ \/ Updates(logs) = "remove"]
            /\ UNCHANGED stop
       ELSE /\ stop' = "begin"
            /\ UNCHANGED <<manager, puller>>
  /\ UNCHANGED <<iter, given, service, parser, gatherer>>
  /\ RestOfManager

\* pullerGroup.remove waits for the puller's end
PullerRemoved ==
  /\ manager = "remove" /\ puller.pc = "dead"
  /\ puller' = NoPuller
  /\ manager' = "unlabel"
  /\ UNCHANGED <<iter, given, service, parser, gatherer, stop, plan>>
  /\ RestOfManager

SendsLabels ==
  \/ manager = "unlabel" /\ GathererTakesLabels("free")
  \/ manager = "label" /\ GathererTakesLabels(IF service = "known" THEN "add" ELSE "free")

\* pullerGroup.Add: an old puller is shut down first, the new one starts at the oldest byte
NewPuller ==
  /\ OpenTail("puller", FALSE)
  /\ puller' = [pc |-> "look", dying |-> FALSE, known |-> TRUE]
  /\ parser' = [parser EXCEPT !["puller"] = NewParser]

AddPuller ==
  /\ manager = "add"
  /\ IF PullerAlive
       THEN /\ ~puller.dying
            /\ puller' = [puller EXCEPT !.dying = TRUE]
            /\ UNCHANGED <<iter, given, parser, manager>>
       ELSE NewPuller /\ manager' = "free"
  /\ UNCHANGED <<service, gatherer, stop, plan>>
  /\ RestOfManager

\* ServiceStarted, after the process was started
ServiceKnown ==
  /\ manager = "free" /\ service = "started" /\ consumer # "request"
  /\ service' = "known"
  /\ IF plan.target /\ plan.logs /\ stop = "none" THEN NewPuller
     ELSE UNCHANGED <<iter, given, puller, parser>>
  /\ UNCHANGED <<gatherer, manager, stop, plan>>
  /\ RestOfManager

(***************************************************************************)
(* logGatherer.Stop, of the log manager or in the background for a target  *)
(* that is no longer in the plan: timers end a flush, then the pullers,    *)
(* then the main loop, unless each ends before.                            *)
(***************************************************************************)
StopManager ==
  /\ manager = "free" /\ stop = "none" /\ consumer # "request"
  /\ manager' = "stop"
  /\ stop' = "begin"
  /\ UNCHANGED <<iter, given, service, parser, puller, gatherer, plan>>
  /\ RestOfManager

StopCancelsFlush ==
  /\ stop = "begin"
  /\ stop' = "cancelled"
  /\ gatherer' = [gatherer EXCEPT !.cancelled = TRUE]
  /\ UNCHANGED <<iter, given, service, parser, puller, manager, plan>>
  /\ RestOfManager

StopKillsPullers ==
  /\ stop = "cancelled"
  /\ stop' = "killed"
  /\ puller' = [puller EXCEPT !.dying = TRUE]
  /\ UNCHANGED <<iter, given, service, parser, gatherer, manager, plan>>
  /\ RestOfManager

\* All pullers have ended, or the third timer has elapsed
StopKillsLoop ==
  /\ stop \in {"begin", "cancelled", "killed"}
  /\ PullerAlive => stop = "killed"
  /\ stop' = "last"
  /\ gatherer' = [gatherer EXCEPT !.dying = TRUE]
  /\ UNCHANGED <<iter, given, service, parser, puller, manager, plan>>
  /\ RestOfManager

StopReturns ==
  /\ stop = "last" /\ gatherer.pc = "dead" /\ ~PullerAlive
  /\ stop' = "done"
  /\ manager' = IF manager = "stop" THEN "free" ELSE manager
  /\ UNCHANGED <<iter, given, service, parser, puller, gatherer, plan>>
  /\ RestOfManager

(***************************************************************************)
(* A request for the logs of the service: a goroutine reads the buffer and *)
(* hands each entry to the handler, which keeps the last n of them or      *)
(* passes them on to the client.                                           *)
(***************************************************************************)
RestOfRequest == UNCHANGED <<ringVars, format, service, consumer, forwardVars>>
RequestGoes(pc) == request' = [request EXCEPT !.pc = pc]

\* "pebble logs [-n n] [-f]": the client leaves out an n of 0, and the daemon then takes
\* what it has for no n
Effective(n, follow) == IF n # 0 THEN n ELSE IF follow THEN 0 ELSE DefaultLogs

AskForLogs(n, follow) ==
  LET count == Effective(n, follow)
  IN /\ consumer = "request" /\ request.pc = "off"
     /\ service # "new"
     /\ IF count >= 0 THEN OpenHead("request", count, TRUE) ELSE OpenTail("request", TRUE)
     /\ request' = [NoRequest EXCEPT !.pc = "fetch", !.follow = follow, !.n = count,
                       !.since = format.line, !.end = writeIndex]
     /\ UNCHANGED parser
     /\ RestOfRequest

\* streamLogs: the parser may still have an entry; only then is the iterator asked, and
\* without waiting
StreamFetches ==
  /\ request.pc \in {"fetch", "again"}
  /\ \/ ParserReads("request") /\ UNCHANGED request
     \/ ParserSplits("request", TRUE) /\ RequestGoes("entry")
     \/ /\ ParserSplits("request", FALSE)
        /\ RequestGoes(IF Skips("request") THEN request.pc
                       ELSE IF request.pc = "fetch" THEN "more" ELSE "nothing")
  /\ RestOfRequest

StreamLooks ==
  /\ request.pc = "more"
  /\ Look("request")
  /\ RequestGoes(IF HasMore(iter'["request"]) THEN "again" ELSE "nothing")
  /\ UNCHANGED parser
  /\ RestOfRequest

\* The handler gets an entry.  One that was written after the request came in ends a
\* request that does not follow.
LogArrives ==
  LET entry == parser["request"].entry
      late == ~request.follow /\ entry.stamp > request.since
      fifo == IF Len(request.fifo) = request.n THEN Tail(request.fifo) ELSE request.fifo
  IN /\ request.pc = "entry"
     /\ request' =
          IF late THEN [request EXCEPT !.pc = "end", !.shown = @ \o request.fifo, !.fifo = <<>>]
          ELSE IF request.n > 0
               THEN [request EXCEPT !.pc = "fetch", !.fifo = Append(fifo, entry)]
               ELSE [request EXCEPT !.pc = "fetch", !.shown = Append(@, entry)]
     /\ parser' = [parser EXCEPT !["request"].entry = <<>>]
     /\ UNCHANGED <<iter, given>>
     /\ RestOfRequest

\* The handler learns that there is nothing more for now: it shows what it kept
NoMoreLogs ==
  /\ request.pc = "nothing"
  /\ request' = [request EXCEPT !.shown = @ \o request.fifo, !.fifo = <<>>,
                                !.n = IF request.follow THEN 0 ELSE @,
                                !.pc = IF request.follow THEN "wait" ELSE "end"]
  /\ UNCHANGED <<iter, given, parser>>
  /\ RestOfRequest

StreamNotified ==
  /\ request.pc = "wait"
  /\ iter["request"].notify
  /\ iter' = [iter EXCEPT !["request"].notify = FALSE]
  /\ RequestGoes("fetch")
  /\ UNCHANGED <<given, parser>>
  /\ RestOfRequest

\* The client goes away, or the handler is done
StreamEnds ==
  /\ request.pc = "end" \/ (request.pc = "wait" /\ request.follow)
  /\ CloseIterator("request")
  /\ RequestGoes("done")
  /\ UNCHANGED parser
  /\ RestOfRequest

(***************************************************************************)
(* The system.                                                             *)
(***************************************************************************)
Writes == FormatStamp \/ FormatText \/ SignalReaders
Pulls == PullerLooks \/ PullerWakes \/ PullerParses \/ PullerGivesUp \/ PullerEnds
FlushReturns ==
  LokiFlushes \/ OpenTelemetryFlushes \/ SyslogStreamFlushes \/ SyslogDatagramsFlush
Gathers ==
  GathererReceives \/ FlushTimerFires \/ SendsLabels \/ FlushReturns
Manages == PullerRemoved \/ AddPuller
Stops == StopCancelsFlush \/ StopKillsPullers \/ StopKillsLoop \/ StopReturns
Streams == StreamFetches \/ StreamLooks \/ LogArrives \/ NoMoreLogs \/ StreamNotified

Next ==
  \/ StartService
  \/ \E p \in Output : ServiceWrites(p)
  \/ Writes
  \/ Pulls
  \/ Gathers
  \/ GathererStops
  \/ \E target, logs \in BOOLEAN, labels \in Labels : PlanChanged(target, logs, labels)
  \/ ServiceKnown
  \/ Manages
  \/ StopManager
  \/ Stops
  \/ \E n \in LogCount, follow \in BOOLEAN : AskForLogs(n, follow)
  \/ Streams
  \/ StreamEnds

Spec == Init /\ [][Next]_vars

(***************************************************************************)
(* Properties.                                                             *)
(***************************************************************************)
Entries(l) == \A i \in 1 .. Len(l) : l[i].stamp \in Nat /\ l[i].text # <<>>

TypeOK ==
  /\ format.fresh \in BOOLEAN /\ format.line \in Nat \ {0}
  /\ service \in {"new", "started", "known"}
  /\ puller.pc \in {"off", "look", "wait", "parse", "send", "end", "dead"}
  /\ gatherer.pc \in {"select", "flush", "final", "dead"}
  /\ gatherer.timer \in BOOLEAN
  /\ gatherer.written \in 0 .. MaxEntries - 1 \/ Flushing
  /\ Len(client.entries) <= MaxEntries
  /\ client.labels \in Labels \cup {NoLabels}
  /\ manager \in {"free", "remove", "unlabel", "label", "add", "stop"}
  /\ stop \in {"none", "begin", "cancelled", "killed", "last", "done"}
  /\ request.pc \in {"off", "fetch", "more", "again", "entry", "nothing", "wait", "end", "done"}
  /\ Entries(request.fifo) /\ Entries(request.shown)
  /\ failures \in 0 .. MaxFailures

\* The ring's own invariant (see RingBuffer), and that a counter of the gatherer never
\* promises more entries than the client holds: what was counted since the last flush is
\* still there to be sent (logGatherer.loop, Client.Add).
Sound == TypeOK /\ RingHoldsTail
BufferSound == Sound /\ (~Flushing => gatherer.written <= Len(client.entries))

\* An entry is sent with the labels that its service had when it was collected (the flush
\* before SetLabels in logGatherer.loop): a change of the labels in the plan does not
\* reach back, unless a flush of the entry had failed before.
OwnLabels ==
  \A i \in 1 .. Len(batch) :
    batch[i].labels = batch[i].item.labels \/ batch[i].item.failed

\* No part of the entry is of another line than the one whose time it has
TimeOfLine(e) == \A i \in 1 .. Len(e.text) :
                   e.text[i][2] # 0 => e.text[i][2] = e.stamp

\* The entries that a request without -f shows when nobody writes meanwhile
Lines == {k \in 1 .. format.line : \E p \in 1 .. Len(written) : written[p] = Stamp(k)}
HasText(k) == \E p \in 1 .. Len(written) : written[p][2] = k /\ ~IsStamp(written[p])
Whole == {k \in Lines : HasText(k)
            /\ \A p \in 1 .. Len(written) : written[p] = Stamp(k) => p > readIndex}
Shown == [i \in 1 .. Len(request.shown) |-> request.shown[i].stamp]

\* "pebble logs -n n" shows the last n lines that are wholly in the buffer, in their order
\* and each with its own time (HeadIterator, the FIFO of logsResponse, Parser).
ShowsLastLines ==
  request.pc = "end" /\ ~request.follow /\ writeIndex = request.end /\ request.n > 0 =>
    LET last == {k \in Whole : Cardinality({j \in Whole : j >= k}) <= request.n}
    IN /\ Len(request.shown) = Cardinality(last)
       /\ \A i, j \in DOMAIN Shown : i < j => Shown[i] < Shown[j]
       /\ \A i \in DOMAIN Shown : Shown[i] \in last /\ TimeOfLine(request.shown[i])

\* Nobody who follows the log sleeps through a write: a puller or a request with -f that
\* waits has read everything, or its token is there or about to be sent (Write signals after
\* it gave the lock back, Next and streamLogs look again before they wait).
Sleeps(r) == CASE r = "puller" -> puller.pc = "wait" /\ ~puller.dying /\ ~iter[r].next
               [] r = "request" -> request.pc = "wait" /\ ~iter[r].notify
NobodySleepsThroughWrites ==
  \A r \in Reader : Sleeps(r) /\ HasMore(Checked(iter[r])) => signal

\* Whoever holds the log manager's lock, or stops a gatherer, gets on (the timeouts of
\* logGatherer.Stop, the Dying case of each select): PlanChanged waits for the end of a
\* puller and for the main loop, the puller for the main loop, the main loop for the
\* target, and Stop for all of them.
HolderMoves ==
  /\ manager \notin {"free", "stop"} => ENABLED (Pulls \/ Gathers \/ Manages)
  /\ stop \notin {"none", "done"} => ENABLED (Stops \/ GathererStops \/ FlushReturns \/ Pulls)

\* What the buffer holds is what is read from it.
LogsSound == BufferSound /\ ShowsLastLines

\* Nobody who has something to do is stuck.
NobodyStuck == NobodySleepsThroughWrites /\ HolderMoves
=============================================================================
