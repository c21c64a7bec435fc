----------------------------- MODULE StreamScanner -----------------------------
(***************************************************************************)
(* One streamed answer: StreamScannerHandler of relay/helper, its three    *)
(* goroutines (scanner, data handler, ping) and the goroutine of the       *)
(* request, together with the end of StreamHandler in channel/openai,      *)
(* which bills what was handled and closes the stream for the client.      *)
(* The goroutines share two channels, a mutex and the context.  Chunks go  *)
(* through in order, so a channel is the number of chunks in it; resetChan *)
(* only restarts the idle timer and is part of IdleTimeout.                *)
(***************************************************************************)
EXTENDS Naturals

CONSTANTS
    MaxSent,   \* bound: lines the upstream sends at most, [DONE] not counted
    DataSize,  \* dataChanSize
    StopSize,  \* stopChanSize
    Events     \* a subset of AllEvents

AllEvents == {"gone",     \* the client goes away
              "idle",     \* no line for streamTimeout
              "fail",     \* the callback stops the stream, a ping fails
              "panic",    \* the callback panics
              "late"}     \* a goroutine outlives shutdownWaitTimeout

ASSUME StreamAssumption ==
    /\ MaxSent \in Nat
    /\ DataSize \in Nat \ {0}
    /\ StopSize \in Nat \ {0}
    /\ Events \subseteq AllEvents

VARIABLES
    avail,     \* lines the upstream has sent
    end,       \* how the upstream ended: open, done, eof or err
    ctxDone,   \* the request's context is cancelled
    bodyOpen,  \* resp.Body is open
    scanner,   \* where the scanner is
    scanned,   \* lines it has read
    blank,     \* those of them that carry no data
    queued,    \* chunks in dataChan
    closed,    \* dataChan is closed
    stop,      \* tokens in stopChan
    data,      \* where the data handler is
    handled,   \* chunks handled and written to the client
    stopped,   \* the data handler gave up before dataChan was empty
    ping,      \* where the ping goroutine is
    mutex,     \* who holds writeMutex
    endReason, \* StreamStatus.reason
    main,      \* where the request's goroutine is
    joined,    \* wg.Wait ended before shutdownWaitTimeout
    settled,   \* chunks in the usage and text given to settlement
    failed     \* HandleStream returned an error

sender == <<avail, end>>
request == <<main, joined, settled, failed>>
scanVars == <<avail, end, ctxDone, bodyOpen, scanner, scanned, blank, queued,
              closed, stop, data, handled, stopped, ping, mutex, endReason,
              main, joined, settled, failed>>

ScanInit ==
    /\ avail = 0
    /\ end = "open"
    /\ ctxDone = FALSE
    /\ bodyOpen = TRUE
    /\ scanner = "scan"
    /\ scanned = 0
    /\ blank = 0
    /\ queued = 0
    /\ closed = FALSE
    /\ stop = 0
    /\ data = "recv"
    /\ handled = 0
    /\ stopped = FALSE
    /\ ping = "wait"
    /\ mutex = "free"
    /\ endReason = "none"
    /\ main = "wait"
    /\ joined = FALSE
    /\ settled = 0
    /\ failed = FALSE

(* SetEndReason: the first one counts.                                     *)
SetEndReason(r) == endReason' = IF endReason = "none" THEN r ELSE endReason

(* safeSendBool: a full channel drops the token.                           *)
SafeSend == stop' = IF stop < StopSize THEN stop + 1 ELSE stop

TakeStop == stop > 0 /\ stop' = stop - 1

(* IsPartialStreamEnd.                                                     *)
IsPartialStreamEnd ==
    endReason \in {"client_gone", "scanner_err", "timeout", "ping_fail"}

-----------------------------------------------------------------------------
(***************************************************************************)
(* The upstream and the client.                                            *)
(***************************************************************************)

UpstreamSends ==
    /\ end = "open"
    /\ \/ avail < MaxSent /\ avail' = avail + 1 /\ UNCHANGED end
       \/ end' \in {"done", "eof", "err"} /\ UNCHANGED avail
    /\ UNCHANGED <<ctxDone, bodyOpen, scanner, scanned, queued, blank,
                   closed, stop, data, handled, stopped, ping, mutex,
                   endReason, request>>

ClientGoes ==
    /\ "gone" \in Events
    /\ ~ ctxDone
    /\ ctxDone' = TRUE
    /\ UNCHANGED <<sender, bodyOpen, scanner, scanned, queued, blank,
                   closed, stop, data, handled, stopped, ping, mutex,
                   endReason, request>>

-----------------------------------------------------------------------------
(***************************************************************************)
(* The scanner goroutine.                                                  *)
(***************************************************************************)

(* scanner.Scan returns the next line, or the line [DONE].                 *)
ScanLine ==
    /\ scanner = "scan"
    /\ \/ scanned < avail /\ scanner' = "line" /\ scanned' = scanned + 1
       \/ /\ scanned = avail
          /\ end = "done"
          /\ scanner' = "last"
          /\ UNCHANGED scanned
    /\ UNCHANGED <<sender, ctxDone, bodyOpen, queued, blank, closed, stop,
                   data, handled, stopped, ping, mutex, endReason, request>>

(* scanner.Scan returns false: the upstream has ended, or the body cannot  *)
(* be read any more because it was closed or the context is cancelled.     *)
ScanEnds ==
    /\ scanner = "scan"
    /\ \/ ctxDone /\ SetEndReason("eof")
       \/ scanned = avail /\ end = "eof" /\ SetEndReason("eof")
       \/ /\ ~ ctxDone
          /\ (scanned = avail /\ end = "err") \/ ~ bodyOpen
          /\ SetEndReason("scanner_err")
    /\ scanner' = "exit"
    /\ UNCHANGED <<sender, ctxDone, bodyOpen, scanned, queued, blank,
                   closed, stop, data, handled, stopped, ping, mutex,
                   request>>

(* Mutant of ScannerStops: the send to dataChan ignores the context.       *)
SendIgnoresContext ==
    /\ scanner \in {"line", "last", "send"}
    /\ \/ TakeStop /\ UNCHANGED endReason
       \/ /\ scanner # "send"
          /\ ctxDone
          /\ SetEndReason("client_gone")
          /\ UNCHANGED stop
    /\ scanner' = "exit"
    /\ UNCHANGED <<sender, ctxDone, bodyOpen, scanned, blank, queued, closed,
                   data, handled, stopped, ping, mutex, request>>

(* With a line in hand, a stop token or the context ends the scanner, be   *)
(* it before the line is looked at or while dataChan is full.              *)
ScannerStops ==
    /\ scanner \in {"line", "last", "send"}
    /\ \/ TakeStop /\ UNCHANGED endReason
       \/ ctxDone /\ SetEndReason("client_gone") /\ UNCHANGED stop
    /\ scanner' = "exit"
    /\ UNCHANGED <<sender, ctxDone, bodyOpen, scanned, queued, blank,
                   closed, data, handled, stopped, ping, mutex, request>>

(* The select has nothing: [DONE] ends the scanner, a line without data is *)
(* skipped, a chunk goes on.                                               *)
ScannerGoesOn ==
    /\ stop = 0
    /\ ~ ctxDone
    /\ \/ scanner = "line" /\ scanner' = "send" /\ UNCHANGED <<endReason, blank>>
       \/ /\ scanner = "line"
          /\ scanner' = "scan"
          /\ blank' = blank + 1
          /\ UNCHANGED endReason
       \/ /\ scanner = "last"
          /\ scanner' = "exit"
          /\ SetEndReason("done")
          /\ UNCHANGED blank
    /\ UNCHANGED <<sender, ctxDone, bodyOpen, scanned, queued, 
                   closed, stop, data, handled, stopped, ping, mutex,
                   request>>

SendChunk ==
    /\ scanner = "send"
    /\ queued < DataSize
    /\ queued' = queued + 1
    /\ scanner' = "scan"
    /\ UNCHANGED <<sender, ctxDone, bodyOpen, scanned, blank, closed,
                   stop, data, handled, stopped, ping, mutex, endReason,
                   request>>

(* close(dataChan), wg.Done, safeSendBool.                                 *)
ScannerExits ==
    /\ scanner = "exit"
    /\ closed' = TRUE
    /\ SafeSend
    /\ scanner' = "exited"
    /\ UNCHANGED <<sender, ctxDone, blank, bodyOpen, scanned, queued,
                   data, handled, stopped, ping, mutex, endReason, request>>

-----------------------------------------------------------------------------
(***************************************************************************)
(* The data handler goroutine.  It does not look at stopChan.              *)
(***************************************************************************)

(* Mutant of Receive: the data handler obeys stop tokens.                  *)
ReceiveOrStop ==
    /\ data = "recv"
    /\ \/ queued > 0 /\ queued' = queued - 1 /\ data' = "lock" /\ UNCHANGED stop
       \/ queued = 0 /\ closed /\ data' = "exit" /\ UNCHANGED <<queued, stop>>
       \/ TakeStop /\ data' = "exit" /\ UNCHANGED queued
    /\ UNCHANGED <<sender, ctxDone, bodyOpen, scanner, scanned, blank,
                   closed, handled, stopped, ping, mutex, endReason, request>>

(* The range over dataChan: a chunk, or the end of a closed channel.       *)
Receive ==
    /\ data = "recv"
    /\ \/ queued > 0 /\ queued' = queued - 1 /\ data' = "lock"
       \/ queued = 0 /\ closed /\ data' = "exit" /\ UNCHANGED queued
    /\ UNCHANGED <<sender, ctxDone, bodyOpen, scanner, scanned, blank,
                   closed, stop, handled, stopped, ping, mutex, endReason,
                   request>>

DataLocks ==
    /\ data = "lock"
    /\ mutex = "free"
    /\ mutex' = "data"
    /\ data' = "write"
    /\ UNCHANGED <<sender, ctxDone, bodyOpen, scanner, scanned, queued,
                   blank, closed, stop, handled, stopped, ping, endReason,
                   request>>

(* The callback accounts for the chunk and writes it to the client.        *)
HandleChunk ==
    /\ data = "write"
    /\ handled' = handled + 1
    /\ mutex' = "free"
    /\ data' = "recv"
    /\ UNCHANGED <<sender, ctxDone, bodyOpen, scanner, scanned, queued,
                   blank, closed, stop, stopped, ping, endReason, request>>

(* The callback's write fails: sr.Stop.                                    *)
HandlerStops ==
    /\ "fail" \in Events
    /\ data = "write"
    /\ SetEndReason("handler_stop")
    /\ stopped' = TRUE
    /\ mutex' = "free"
    /\ data' = "exit"
    /\ UNCHANGED <<sender, ctxDone, bodyOpen, scanner, scanned, queued,
                   blank, closed, stop, handled, ping, request>>

(* The callback panics; the recovery leaves writeMutex locked.             *)
HandlerPanics ==
    /\ "panic" \in Events
    /\ data = "write"
    /\ SetEndReason("error")
    /\ stopped' = TRUE
    /\ data' = "exit"
    /\ UNCHANGED <<sender, ctxDone, bodyOpen, scanner, scanned, queued,
                   blank, closed, stop, handled, ping, mutex, request>>

(* wg.Done, safeSendBool.                                                  *)
DataExits ==
    /\ data = "exit"
    /\ SafeSend
    /\ data' = "exited"
    /\ UNCHANGED <<sender, ctxDone, bodyOpen, scanner, scanned, queued,
                   blank, closed, handled, stopped, ping, mutex, endReason,
                   request>>

-----------------------------------------------------------------------------
(***************************************************************************)
(* The ping goroutine.  Its ticker stops when StreamScannerHandler returns. *)
(***************************************************************************)

PingTicks ==
    /\ ping = "wait"
    /\ main \in {"wait", "signal", "join"}
    /\ ping' = "lock"
    /\ UNCHANGED <<sender, ctxDone, bodyOpen, scanner, scanned, queued,
                   blank, closed, stop, data, handled, stopped, mutex,
                   endReason, request>>

(* Mutant of PingLocks: no writeMutex.                                     *)
PingDoesNotLock ==
    /\ ping = "lock"
    /\ ping' = IF ctxDone THEN "exited" ELSE "write"
    /\ UNCHANGED <<sender, ctxDone, bodyOpen, scanner, scanned, queued,
                   blank, closed, stop, data, handled, stopped, mutex,
                   endReason, request>>

PingLocks ==
    /\ ping = "lock"
    /\ mutex = "free"
    /\ IF ctxDone
       THEN ping' = "exited" /\ UNCHANGED mutex
       ELSE ping' = "write" /\ mutex' = "ping"
    /\ UNCHANGED <<sender, ctxDone, bodyOpen, scanner, scanned, queued,
                   blank, closed, stop, data, handled, stopped, endReason,
                   request>>

PingWrites ==
    /\ ping = "write"
    /\ mutex' = "free"
    /\ \/ ping' = "wait" /\ UNCHANGED <<stop, endReason>>
       \/ /\ "fail" \in Events
          /\ SetEndReason("ping_fail")
          /\ SafeSend
          /\ ping' = "exited"
    /\ UNCHANGED <<sender, ctxDone, bodyOpen, scanner, scanned, queued,
                   blank, closed, data, handled, stopped, request>>

PingStops ==
    /\ ping = "wait"
    /\ TakeStop \/ (ctxDone /\ UNCHANGED stop)
    /\ ping' = "exited"
    /\ UNCHANGED <<sender, ctxDone, bodyOpen, scanner, scanned, queued,
                   blank, closed, data, handled, stopped, mutex, endReason,
                   request>>

-----------------------------------------------------------------------------
(***************************************************************************)
(* The request's goroutine.                                                *)
(***************************************************************************)

MainStops ==
    /\ main = "wait"
    /\ \/ TakeStop /\ UNCHANGED endReason
       \/ ctxDone /\ SetEndReason("client_gone") /\ UNCHANGED stop
    /\ main' = "signal"
    /\ UNCHANGED <<sender, ctxDone, bodyOpen, scanner, scanned, queued,
                   blank, closed, data, handled, stopped, ping, mutex,
                   joined, settled, failed>>

(* The idle timer, which every line that is read restarts.                 *)
IdleTimeout ==
    /\ "idle" \in Events
    /\ main = "wait"
    /\ \/ scanner = "scan" /\ scanned = avail
       \/ scanner = "send" /\ queued = DataSize
       \/ scanner = "exited"
    /\ SetEndReason("timeout")
    /\ main' = "signal"
    /\ UNCHANGED <<sender, ctxDone, bodyOpen, scanner, scanned, queued,
                   blank, closed, stop, data, handled, stopped, ping, mutex,
                   joined, settled, failed>>

Signal ==
    /\ main = "signal"
    /\ SafeSend
    /\ main' = "join"
    /\ UNCHANGED <<sender, ctxDone, bodyOpen, scanner, scanned, queued,
                   blank, closed, data, handled, stopped, ping, mutex,
                   endReason, joined, settled, failed>>

(* StreamScannerHandler returns: the body is closed, and StreamHandler     *)
(* takes the usage and the text the callback has gathered so far.          *)
LeaveScanner ==
    /\ main = "join"
    /\ main' = "tail"
    /\ bodyOpen' = FALSE
    /\ settled' = handled
    /\ UNCHANGED <<sender, ctxDone, scanner, scanned, queued, blank,
                   closed, stop, data, handled, stopped, ping, mutex,
                   endReason, failed>>

AllExited == scanner = "exited" /\ data = "exited" /\ ping = "exited"

(* wg.Wait ends.                                                           *)
Join ==
    /\ AllExited
    /\ LeaveScanner
    /\ joined' = TRUE

(* Mutant of ShutdownTimeout: a plain wg.Wait.                             *)
ShutdownWaits == FALSE /\ LeaveScanner /\ UNCHANGED joined

(* shutdownWaitTimeout passes while a goroutine still runs.                *)
ShutdownTimeout ==
    /\ "late" \in Events
    /\ ~ AllExited
    /\ LeaveScanner
    /\ UNCHANGED joined

(* StreamHandler writes [DONE] unless the stream ended early, in which     *)
(* case it reports ErrStreamInterrupted, which HandleStream returns.       *)
Finish ==
    /\ main = "tail"
    /\ main' = "finished"
    /\ failed' = IsPartialStreamEnd
    /\ UNCHANGED <<sender, ctxDone, bodyOpen, scanner, scanned, queued,
                   blank, closed, stop, data, handled, stopped, ping, mutex,
                   endReason, joined, settled>>

(* The HTTP handler returns; net/http cancels the request's context.       *)
RequestEnds ==
    /\ main = "finished"
    /\ main' = "ended"
    /\ ctxDone' = TRUE
    /\ UNCHANGED <<sender, bodyOpen, scanner, scanned, queued, blank,
                   closed, stop, data, handled, stopped, ping, mutex,
                   endReason, joined, settled, failed>>

-----------------------------------------------------------------------------

Scanner == ScanLine \/ ScanEnds \/ ScannerStops \/ ScannerGoesOn
              \/ SendChunk \/ ScannerExits

DataHandler == Receive \/ DataLocks \/ HandleChunk \/ HandlerStops
                  \/ HandlerPanics \/ DataExits

Ping == PingLocks \/ PingWrites \/ PingStops

Main == MainStops \/ IdleTimeout \/ Signal \/ Join \/ ShutdownTimeout
           \/ Finish \/ RequestEnds

ScanNext == UpstreamSends \/ ClientGoes \/ Scanner \/ DataHandler
           \/ PingTicks \/ Ping \/ Main

ScanSpec == ScanInit /\ [][ScanNext]_scanVars

(* The goroutines are scheduled, select serves a channel that stays ready, *)
(* and the two timers fire.  A write to the client may block for ever, and *)
(* neither the upstream nor the client need do anything.                   *)
FairScanSpec ==
    /\ ScanSpec
    /\ WF_scanVars(Scanner)
    /\ WF_scanVars(Receive \/ DataLocks \/ DataExits)
    /\ WF_scanVars(PingLocks \/ PingStops)
    /\ WF_scanVars(MainStops \/ Signal \/ Join \/ RequestEnds)
    /\ WF_scanVars(IdleTimeout)
    /\ WF_scanVars(ShutdownTimeout)

(* Writes to the client end, one way or another.                           *)
ClientReads ==
    /\ WF_scanVars(HandleChunk \/ HandlerStops \/ HandlerPanics)
    /\ WF_scanVars(PingWrites)
    /\ WF_scanVars(Finish)

-----------------------------------------------------------------------------

(* Types of the channels, the goroutines and the stream's status.          *)
ScanTypeOK ==
    /\ avail \in 0 .. MaxSent
    /\ end \in {"open", "done", "eof", "err"}
    /\ ctxDone \in BOOLEAN
    /\ bodyOpen \in BOOLEAN
    /\ scanner \in {"scan", "line", "last", "send", "exit", "exited"}
    /\ scanned \in 0 .. avail
    /\ blank \in Nat
    /\ queued \in 0 .. DataSize
    /\ closed \in BOOLEAN
    /\ stop \in 0 .. StopSize
    /\ data \in {"recv", "lock", "write", "exit", "exited"}
    /\ handled \in Nat
    /\ stopped \in BOOLEAN
    /\ ping \in {"wait", "lock", "write", "exited"}
    /\ mutex \in {"free", "data", "ping"}
    /\ endReason \in {"none", "done", "eof", "scanner_err", "client_gone",
                   "handler_stop", "error", "ping_fail", "timeout"}
    /\ main \in {"wait", "signal", "join", "tail", "finished", "ended"}
    /\ joined \in BOOLEAN
    /\ settled \in Nat
    /\ failed \in BOOLEAN

(* A stream that ends by [DONE] is complete: once the goroutines have been *)
(* joined, every line with data was handled and billed, although the stop  *)
(* token is sent while chunks are still in dataChan.                       *)
DoneIsComplete ==
    joined /\ endReason = "done" /\ ~ stopped => settled + blank = avail

(* The response has one writer at a time: the callback and the ping        *)
(* exclude each other, and when the goroutines were joined nobody but the  *)
(* request's goroutine writes any more, so [DONE] is the last line.        *)
OneWriter ==
    /\ ~ (data = "write" /\ ping = "write")
    /\ joined => data # "write" /\ ping # "write" /\ handled = settled

(* Every call of StreamScannerHandler returns, even when the client does   *)
(* not read, the upstream is silent, or a goroutine does not end.          *)
EveryStreamReturns == <>(main \in {"tail", "finished", "ended"})

(* If writes end, so do all goroutines of a stream: none stays behind in   *)
(* scanner.Scan, on a full dataChan or waiting for a token another one     *)
(* took.  Only a callback that panics, whose recovery leaves writeMutex    *)
(* locked, keeps the ping goroutine waiting for the mutex.                 *)
AllGoroutinesEnd ==
    ClientReads => <>(/\ scanner = "exited"
                      /\ data = "exited"
                      /\ ping = "exited" \/ mutex = "data")

(* The stop that the callback asks for reaches the request's goroutine.    *)
StopReachesMain == ClientReads => (stopped ~> main # "wait")

(* What is billed is all that is ever sent: settlement is enqueued after   *)
(* the stream completes.                                                   *)
BilledAfterStream == main \in {"tail", "finished", "ended"} => handled = settled

-----------------------------------------------------------------------------
(***************************************************************************)
(* The strengthening of DoneIsComplete and OneWriter.                      *)
(***************************************************************************)

InHand(b) == IF b THEN 1 ELSE 0

(* writeMutex is held by whoever writes.                                   *)
WriterHoldsMutex ==
    /\ data = "write" => mutex = "data"
    /\ ping = "write" => mutex = "ping"

(* Every line that was read is skipped, handled, in dataChan or in the     *)
(* hands of one of the two goroutines, until one of them gives up.         *)
NoLineLost ==
    /\ scanner \in {"scan", "line", "last", "send"} /\ ~ stopped =>
          scanned = blank + handled + queued
                       + InHand(scanner \in {"line", "send"})
                       + InHand(data \in {"lock", "write"})
    /\ scanner = "last" => scanned = avail /\ end = "done"

(* After [DONE] all lines have passed the scanner.                         *)
DoneIsLastLine ==
    endReason = "done" =>
        /\ scanner \in {"exit", "exited"}
        /\ end = "done"
        /\ ~ stopped => avail = blank + handled + queued
                                    + InHand(data \in {"lock", "write"})

(* The data handler ends on an empty, closed channel unless it gives up.   *)
HandlerDrains ==
    /\ closed <=> scanner = "exited"
    /\ data \in {"exit", "exited"} /\ ~ stopped => closed /\ queued = 0

(* Who was joined has ended.                                               *)
JoinedHaveEnded ==
    joined =>
        /\ AllExited
        /\ main \in {"tail", "finished", "ended"}
        /\ settled = handled

(* The inductive invariant of a stream.                                    *)
StreamInv ==
    /\ ScanTypeOK
    /\ WriterHoldsMutex
    /\ NoLineLost
    /\ DoneIsLastLine
    /\ HandlerDrains
    /\ JoinedHaveEnded

=============================================================================
