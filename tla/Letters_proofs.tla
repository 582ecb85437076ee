--------------------------- MODULE Letters_proofs ---------------------------
(***************************************************************************)
(* Letters, for any number of handlers, retries, copies of messages and    *)
(* faults.                                                                 *)
(*                                                                         *)
(* As long as no handlers overlap and no worker dies (Quiet): a refused    *)
(* letter is neither printed nor taken up again, the file is where the row *)
(* says it is, and a despatched letter whose callback was played is        *)
(* recorded.  As long as no message is lost either, nothing the printer    *)
(* did is forgotten, although its answers may be lost and tasks played     *)
(* twice.  As long as, besides, nothing is lost or played twice between    *)
(* the API and the printer and the database takes what the printer         *)
(* answered (Orderly): a cancelled letter stays unprinted, and the row     *)
(* says what the printer did.                                              *)
(***************************************************************************)
EXTENDS Letters, TLAPS

Status == NotificationStatuses \cup {Absent}
Tasks == ApiTasks \cup {"upload", "cancel", "none"}
Pcs == {"idle", "persisted", "read", "invalid_moved", "updated", "moved",
        "failed_moved", "accepted", "duplicate"}
Handler == [task : Tasks, pc : Pcs, tries : 0..MaxRetries, seen : Status]

Typed ==
  /\ queue \in [Messages -> Nat] /\ handler \in [Slots -> Handler]
  /\ status \in Status

Busy(s) == handler[s].pc # "idle"

\* Tasks of template preview and its answers are of templated letters.
Fits(task) ==
  /\ task \in {"get_pdf", "create_pdf", "billable_units", "too_long"}
       => letter.kind = "templated"
  /\ task = "too_long" => ~letter.fit

\* What a handler read is still so, and what it is about to write is right.
HandlerOk(s) ==
  /\ \A u \in Slots : Busy(u) => u = s
  /\ status # Absent /\ Fits(handler[s].task)
  /\ handler[s].pc = "read" => handler[s].seen = status
  /\ handler[s].pc = "persisted" => letter.kind = "uploaded"
  /\ handler[s].pc \in {"accepted", "duplicate"} => status = "created"
  /\ handler[s].pc = "invalid_moved" => status = "pending-virus-check"
  /\ At(s, "process_sanitised", "updated") => "error" \notin pdf /\ handler[s].seen = status
  /\ handler[s].pc = "failed_moved" => dvla = "none"

HandlersOk == \A s \in Slots : Busy(s) => HandlerOk(s)

QueueOk ==
  /\ \A m \in Messages : queue[m] > 0 => status # Absent /\ Fits(m[1])

\* The original of a letter that may be printed is gone, or about to be deleted.
FilesOk ==
  /\ status = Absent => pdf = {}
  /\ pdf \cap {"scan", "error"} # {} => dvla = "none"
  /\ pdf \cap {"scan", "error", "sanitise"} # {} => letter.kind = "precompiled"
  /\ "live" \in pdf => /\ "error" \notin pdf
                       /\ letter.kind = "templated" => letter.fit
  /\ {"live", "scan"} \subseteq pdf =>
       \E s \in Slots : At(s, "process_sanitised", "moved")
  /\ "error" \in pdf /\ status = "pending-virus-check" =>
       \E s \in Slots : At(s, "scan_error", "failed_moved")

\* A letter goes to the printer from `created' only, and never when it is too long.
PrinterOk ==
  /\ dvla # "none" => /\ status \notin {Absent, "pending-virus-check"}
                      /\ letter.kind = "templated" => letter.fit
  /\ status \in {"virus-scan-failed", "validation-failed"} => dvla # "accepted"
  /\ status = "created" /\ ~units => letter.kind = "templated"

Sound == HandlersOk /\ QueueOk /\ FilesOk /\ PrinterOk

Quiet == faults \cap {"overlap", "worker"} = {}

RefusalInv == Typed /\ (Quiet => Sound)

\* What a step from a refused letter may not do.
NotTakenUp ==
  status \in {"virus-scan-failed", "validation-failed"} =>
    /\ dvla' = dvla
    /\ status' \notin {"created", "pending-virus-check", "sending"}

-----------------------------------------------------------------------------
(* Types.                                                                  *)

LEMMA TaskMessages ==
  ASSUME LettersAssumption, NEW t \in ApiTasks \cup ExternalTasks
  PROVE  <<t, 0>> \in Messages
BY DEF LettersAssumption, Messages

LEMMA PutType ==
  ASSUME LettersAssumption, NEW q \in [Messages -> Nat], NEW t, NEW k,
         <<t, k>> \in Messages
  PROVE  /\ Put(q, t, k) \in [Messages -> Nat]
         /\ \A m \in Messages : Put(q, t, k)[m] > 0 => q[m] > 0 \/ m = <<t, k>>
BY DEF Put

LEMMA TakeType ==
  ASSUME NEW q \in [Messages -> Nat], NEW n \in Messages, q[n] > 0
  PROVE  /\ Take(q, n) \in [Messages -> Nat]
         /\ \A m \in Messages : Take(q, n)[m] > 0 => q[m] > 0
BY DEF Take

LEMMA Idle == LettersAssumption => IdleHandler \in Handler /\ IdleHandler.pc = "idle"
BY DEF LettersAssumption, IdleHandler, Handler, Tasks, Pcs, Status

LEMMA SendType ==
  ASSUME LettersAssumption, Typed, NEW t \in ApiTasks \cup ExternalTasks, Send(t)
  PROVE  queue' \in [Messages -> Nat]
BY TaskMessages, PutType DEF Send, Typed

LEMMA DoneType ==
  ASSUME LettersAssumption, Typed, NEW s \in Slots, Done(s)
  PROVE  handler' \in [Slots -> Handler]
BY Idle DEF Done, Typed

LEMMA GotoType ==
  ASSUME Typed, NEW s \in Slots, NEW pc \in Pcs, Goto(s, pc)
  PROVE  handler' \in [Slots -> Handler]
<1>1. [handler[s] EXCEPT !.pc = pc] \in Handler
  BY DEF Typed, Handler
<1> QED
  BY <1>1 DEF Goto, Typed

LEMMA SeeingType ==
  ASSUME Typed, NEW s \in Slots, NEW pc \in Pcs, NEW st \in Status, GotoSeeing(s, pc, st)
  PROVE  handler' \in [Slots -> Handler]
<1>1. [handler[s] EXCEPT !.pc = pc, !.seen = st] \in Handler
  BY DEF Typed, Handler
<1> QED
  BY <1>1 DEF GotoSeeing, Typed

LEMMA StatusFacts ==
  /\ {"cancelled", "created", "sending", "delivered", "technical-failure",
      "pending-virus-check", "validation-failed", "virus-scan-failed",
      "returned-letter"} \subseteq Status
  /\ UpdatableStatuses \subseteq Status \ {Absent}
  /\ \A t \in {"cancelled", "created", "sending", "delivered", "technical-failure",
               "pending-virus-check", "validation-failed", "virus-scan-failed",
               "returned-letter"} : t # Absent
BY DEF Status, NotificationStatuses, UpdatableStatuses, Absent

LEMMA RetryType ==
  ASSUME LettersAssumption, Typed, NEW s \in Slots, NEW t \in ApiTasks,
         RetryOrGiveUp(s, t)
  PROVE  queue' \in [Messages -> Nat] /\ status' \in Status
<1>1. handler[s].tries \in 0..MaxRetries /\ MaxRetries \in Nat
  BY DEF Typed, Handler, LettersAssumption
<1>2. CASE handler[s].tries < MaxRetries
  <2>1. <<t, handler[s].tries + 1>> \in Messages
    BY <1>1, <1>2 DEF Messages
  <2> QED
    BY <1>2, <2>1, PutType DEF RetryOrGiveUp, Typed, Row
<1>3. CASE ~(handler[s].tries < MaxRetries)
  BY <1>3, StatusFacts DEF RetryOrGiveUp, UpdateStatusById, Write, Row, Typed
<1> QED
  BY <1>2, <1>3

\* Tasks and places of the model.
LEMMA TaskNames ==
  /\ {"get_pdf", "billable_units", "too_long", "sanitise_letter", "process_sanitised",
      "virus_found", "scan_error", "deliver_letter", "letter_callback"} = ApiTasks
  /\ {"antivirus", "create_pdf", "sanitise_pdf"} = ExternalTasks
BY DEF ApiTasks, ExternalTasks

LEMMA RequestType ==
  ASSUME LettersAssumption, Typed, Requests
  PROVE  Typed'
<1>1. CASE PostLetter
  <2>1. status' \in Status /\ UNCHANGED handler
    BY <1>1, StatusFacts DEF PostLetter
  <2>2. queue' \in [Messages -> Nat]
    <3>1. Put(queue, "get_pdf", 0) \in [Messages -> Nat]
      BY TaskMessages, TaskNames, PutType DEF Typed
    <3>2. Put(Put(queue, "get_pdf", 0), "letter_callback", 0) \in [Messages -> Nat]
      BY <3>1, TaskMessages, TaskNames, PutType
    <3> QED
      BY <1>1, <3>1, <3>2 DEF PostLetter, Typed
  <2> QED
    BY <2>1, <2>2 DEF Typed
<1>2. CASE PostPrecompiledLetter
  BY <1>2, SendType, TaskNames, StatusFacts DEF PostPrecompiledLetter, Typed
<1>3. CASE CancelLetterJob
  BY <1>3, StatusFacts DEF CancelLetterJob, Typed
<1>4. ASSUME NEW s \in Slots, SendUploadedLetter(s) PROVE Typed'
  <2> DEFINE h == [IdleHandler EXCEPT !.task = "upload", !.pc = "persisted"]
  <2>1. h \in Handler
    BY Idle DEF Handler, Tasks, Pcs
  <2>2. handler' = [handler EXCEPT ![s] = h] /\ status' = "created" /\ queue' = queue
    BY <1>4 DEF SendUploadedLetter
  <2> HIDE DEF h
  <2> QED
    BY <2>1, <2>2, StatusFacts DEF Typed
<1>5. ASSUME NEW s \in Slots, CancelLetter(s) PROVE Typed'
  <2> DEFINE h == [task |-> "cancel", pc |-> "read", tries |-> 0, seen |-> status]
  <2>1. h \in Handler
    BY DEF Handler, Tasks, Pcs, Typed, LettersAssumption
  <2>2. handler' = [handler EXCEPT ![s] = h] /\ status' = status /\ queue' = queue
    BY <1>5 DEF CancelLetter, Row
  <2> HIDE DEF h
  <2> QED
    BY <2>1, <2>2 DEF Typed
<1> QED
  BY <1>1, <1>2, <1>3, <1>4, <1>5 DEF Requests

LEMMA BeginType ==
  ASSUME LettersAssumption, Typed, NEW s \in Slots, NEW m \in Messages, Begin(s, m)
  PROVE  Typed'
<1> DEFINE h == [task |-> m[1], pc |-> "read", tries |-> m[2], seen |-> status]
<1>1. h \in Handler
  BY DEF Handler, Tasks, Pcs, Typed, Messages, Begin
<1>2. handler' = [handler EXCEPT ![s] = h] /\ status' = status
  BY DEF Begin, Row
<1>3. queue' \in [Messages -> Nat]
  BY TakeType DEF Begin, Typed
<1> HIDE DEF h
<1> QED
  BY <1>1, <1>2, <1>3 DEF Typed

LEMMA FaultType ==
  ASSUME LettersAssumption, Typed, Faults
  PROVE  Typed'
<1>1. CASE ReplayLetterInError
  BY <1>1, SendType, TaskNames DEF ReplayLetterInError, Typed, Row
<1>2. ASSUME NEW s \in Slots, Crash(s) PROVE Typed'
  BY <1>2, DoneType DEF Crash, Typed, Row
<1>3. ASSUME NEW m \in Messages, Redeliver(m) PROVE Typed'
  <2>1. m = <<m[1], m[2]>>
    BY DEF Messages
  <2>2. queue' \in [Messages -> Nat]
    BY <1>3, <2>1, PutType DEF Redeliver, Typed
  <2> QED
    BY <1>3, <2>2 DEF Redeliver, Typed, Row
<1>4. ASSUME NEW m \in Messages, Lose(m) PROVE Typed'
  BY <1>4, TakeType DEF Lose, Typed, Row
<1> QED
  BY <1>1, <1>2, <1>3, <1>4 DEF Faults

LEMMA AppType ==
  ASSUME LettersAssumption, Typed, OtherApps \/ Scheduled \/ DvlaPrints \/ ReturnLetter
  PROVE  Typed'
<1>1. \A m \in Messages, t \in ApiTasks \cup ExternalTasks :
        queue[m] > 0 => /\ Take(queue, m) \in [Messages -> Nat]
                        /\ Put(Take(queue, m), t, 0) \in [Messages -> Nat]
  BY TaskMessages, PutType, TakeType DEF Typed
<1>2. CASE CreatePdf
  BY <1>1, <1>2, TaskNames DEF CreatePdf, Typed, Row
<1>3. CASE ScanFile
  BY <1>1, <1>3, TaskNames DEF ScanFile, Typed, Row
<1>4. CASE SanitisePdf
  BY <1>1, <1>4, TaskNames DEF SanitisePdf, Typed, Row
<1>5. CASE Collate
  BY <1>5, SendType, TaskNames DEF Collate, Typed, Row
<1>6. CASE ReplayCreatedLetter
  BY <1>6, SendType, TaskNames DEF ReplayCreatedLetter, Typed, Row
<1>7. CASE CheckPendingVirusCheck
  BY <1>7, SendType, TaskNames DEF CheckPendingVirusCheck, Typed, Row
<1>8. CASE DvlaPrints
  BY <1>8, SendType, TaskNames DEF DvlaPrints, Typed, Row
<1>9. CASE ReturnLetter
  BY <1>9, StatusFacts DEF ReturnLetter, Typed
<1> QED
  BY <1>2, <1>3, <1>4, <1>5, <1>6, <1>7, <1>8, <1>9 DEF OtherApps, Scheduled

LEMMA StepType ==
  ASSUME LettersAssumption, Typed, NEW s \in Slots, Step(s)
  PROVE  Typed'
<1>1. CASE MoveUploadedPdf(s) \/ NotDeliverable(s) \/ ProcessSanitisedAgain(s)
           \/ DeleteOriginal(s) \/ RecordDespatch(s) \/ UpdateBillableUnits(s)
  BY <1>1, DoneType DEF MoveUploadedPdf, NotDeliverable, ProcessSanitisedAgain,
     DeleteOriginal, RecordDespatch, UpdateBillableUnits, Row, Typed
<1>2. CASE WriteCancelled(s) \/ PdfNotFound(s) \/ SendLetterFails(s)
           \/ UpdateValidationFailed(s) \/ MarkSending(s) \/ MarkSendingFails(s)
  BY <1>2, DoneType, StatusFacts DEF WriteCancelled, PdfNotFound, SendLetterFails,
     UpdateValidationFailed, MarkSending, MarkSendingFails, UpdateLetterToSending,
     UpdateStatusById, Write,
     Row, Typed
<1>3. CASE MarkInvalid(s) \/ MarkFailed(s, "virus_found", "virus-scan-failed")
           \/ MarkFailed(s, "scan_error", "technical-failure")
  BY <1>3, DoneType, StatusFacts DEF MarkInvalid, MarkFailed, UpdateLetterPdfStatus, Typed
<1>4. CASE GetPdf(s)
  BY <1>4, DoneType, SendType, RetryType, TaskNames DEF GetPdf, Row, Typed
<1>5. CASE SanitiseLetter(s)
  BY <1>5, DoneType, SendType, RetryType, TaskNames DEF SanitiseLetter, Row, Typed
<1>6. CASE ProcessSanitisedFails(s) \/ SendLetterRetry(s)
  BY <1>6, DoneType, RetryType, TaskNames DEF ProcessSanitisedFails, SendLetterRetry, Typed
<1>7. \A pc \in Pcs : Goto(s, pc) => handler' \in [Slots -> Handler]
  BY GotoType
<1>8. CASE MarkSanitised(s)
  <2>1. /\ GotoSeeing(s, "updated", status') /\ queue' = queue
        /\ status' \in {"delivered", "created"}
    BY <1>8 DEF MarkSanitised, UpdateLetterPdfStatus
  <2> QED
    BY <2>1, SeeingType, StatusFacts DEF Pcs, Typed
<1>9. CASE MoveInvalidLetter(s) \/ MoveSanitised(s)
  <2>1. /\ queue' = queue /\ (status' = status \/ status' = "technical-failure")
        /\ Goto(s, "invalid_moved") \/ Goto(s, "moved") \/ Done(s)
    BY <1>9 DEF MoveInvalidLetter, MoveSanitised, UpdateStatusById, Write, Row
  <2> QED
    BY <1>7, <2>1, DoneType, StatusFacts DEF Pcs, Typed
<1>10. CASE MoveFailedPdf(s, "virus_found", "failure") \/ MoveFailedPdf(s, "scan_error",
"error")
           \/ SendLetter(s)
  <2>1. /\ queue' = queue /\ status' = status
        /\ \/ Goto(s, "failed_moved") \/ Done(s)
           \/ Goto(s, "accepted") \/ Goto(s, "duplicate")
    BY <1>10 DEF MoveFailedPdf, SendLetter, Row
  <2> QED
    BY <1>7, <2>1, DoneType DEF Pcs, Typed
<1>11. CASE LetterCallback(s)
  <2>1. /\ queue' = queue /\ status' \in {status, "technical-failure", "delivered"}
        /\ Goto(s, "updated") \/ Done(s)
    BY <1>11 DEF LetterCallback, Write, Row
  <2> QED
    BY <1>7, <2>1, DoneType, StatusFacts DEF Pcs, Typed
<1> QED
  BY <1>1, <1>2, <1>3, <1>4, <1>5, <1>6, <1>8, <1>9, <1>10, <1>11 DEF Step

LEMMA TypedHolds ==
  ASSUME LettersAssumption, Typed, [Next]_vars
  PROVE  Typed'
<1>1. CASE UNCHANGED vars
  BY <1>1 DEF vars, Typed
<1> QED
  BY <1>1, RequestType, FaultType, StepType, BeginType, AppType DEF Next

-----------------------------------------------------------------------------
(* Messages and handlers.                                                  *)

\* The letter that messages are about.
SameLetter == UNCHANGED letter /\ status # Absent /\ status' # Absent

LEMMA PutFits ==
  ASSUME LettersAssumption, Typed, QueueOk, SameLetter, NEW t, NEW k,
         <<t, k>> \in Messages, Fits(t), queue' = Put(queue, t, k)
  PROVE  QueueOk'
<1>1. \A m \in Messages : queue'[m] > 0 => queue[m] > 0 \/ m[1] = t
  BY PutType DEF Typed
<1> QED
  BY <1>1 DEF QueueOk, SameLetter, Fits

LEMMA SendFits ==
  ASSUME LettersAssumption, Typed, QueueOk, SameLetter,
         NEW t \in ApiTasks \cup ExternalTasks, Fits(t), Send(t)
  PROVE  QueueOk'
BY PutFits, TaskMessages DEF Send

LEMMA TakeFits ==
  ASSUME Typed, QueueOk, SameLetter, NEW m \in Messages, queue[m] > 0,
         queue' = Take(queue, m)
  PROVE  QueueOk'
<1>1. \A n \in Messages : queue'[n] > 0 => queue[n] > 0
  BY TakeType DEF Typed
<1> QED
  BY <1>1 DEF QueueOk, SameLetter, Fits

LEMMA PassFits ==
  ASSUME LettersAssumption, Typed, QueueOk, SameLetter, NEW m \in Messages, queue[m] > 0,
         NEW t \in ApiTasks \cup ExternalTasks, Fits(t),
         queue' = Put(Take(queue, m), t, 0)
  PROVE  QueueOk'
<1> DEFINE rest == Take(queue, m)
<1>1. rest \in [Messages -> Nat] /\ \A n \in Messages : rest[n] > 0 => queue[n] > 0
  BY TakeType DEF Typed
<1>2. queue' = Put(rest, t, 0) /\ <<t, 0>> \in Messages
  BY TaskMessages
<1> HIDE DEF rest
<1>3. \A n \in Messages : queue'[n] > 0 => rest[n] > 0 \/ n = <<t, 0>>
  BY <1>1, <1>2, PutType
<1> QED
  BY <1>1, <1>3 DEF QueueOk, SameLetter, Fits

LEMMA KeptFits ==
  ASSUME QueueOk, SameLetter, queue' = queue
  PROVE  QueueOk'
BY DEF QueueOk, SameLetter, Fits

\* A task is tried again, or its letter is given up.
LEMMA RetryFits ==
  ASSUME LettersAssumption, Typed, QueueOk, UNCHANGED letter, status # Absent,
         NEW s \in Slots, NEW t \in ApiTasks, RetryOrGiveUp(s, t), Fits(t)
  PROVE  /\ QueueOk' /\ status' # Absent
         /\ UNCHANGED Row \/ (status' = "technical-failure" /\ UNCHANGED units)
<1>1. handler[s].tries \in 0..MaxRetries /\ MaxRetries \in Nat
  BY DEF Typed, Handler, LettersAssumption
<1>2. CASE handler[s].tries < MaxRetries
  <2>1. <<t, handler[s].tries + 1>> \in Messages
    BY <1>1, <1>2 DEF Messages
  <2>2. queue' = Put(queue, t, handler[s].tries + 1) /\ UNCHANGED Row
    BY <1>2 DEF RetryOrGiveUp
  <2>3. SameLetter
    BY <2>2 DEF SameLetter, Row
  <2> QED
    BY <2>1, <2>2, <2>3, PutFits DEF Row
<1>3. CASE ~(handler[s].tries < MaxRetries)
  <2>1. queue' = queue /\ (UNCHANGED Row \/ (status' = "technical-failure" /\ UNCHANGED units))
    BY <1>3 DEF RetryOrGiveUp, UpdateStatusById, Write
  <2>2. SameLetter
    BY <2>1, StatusFacts DEF SameLetter, Row
  <2> QED
    BY <2>1, <2>2, KeptFits DEF SameLetter
<1> QED
  BY <1>2, <1>3

\* When the one handler at work is done, none is at work.
LEMMA DoneOk ==
  ASSUME LettersAssumption, Typed, NEW s \in Slots, Busy(s), HandlerOk(s), Done(s)
  PROVE  /\ HandlersOk' /\ \A u \in Slots : handler'[u].pc = "idle"
         /\ \A u \in Slots \ {s} : handler[u].pc = "idle"
<1>1. \A u \in Slots : handler'[u].pc = "idle"
  BY Idle DEF Done, Typed, HandlerOk, Busy
<1> QED
  BY <1>1 DEF HandlersOk, Busy, HandlerOk

LEMMA GotoOk ==
  ASSUME Typed, NEW s \in Slots, NEW pc \in Pcs \ {"idle"}, Busy(s), HandlerOk(s),
         Goto(s, pc)
  PROVE  /\ handler'[s].pc = pc /\ handler'[s].task = handler[s].task
         /\ handler'[s].seen = handler[s].seen
         /\ \A u \in Slots \ {s} : handler'[u] = handler[u] /\ handler[u].pc = "idle"
         /\ \A u \in Slots : Busy(u)' => u = s
<1>1. handler'[s] = [handler[s] EXCEPT !.pc = pc]
  BY DEF Goto, Typed
<1>2. handler[s] \in Handler
  BY DEF Typed
<1>3. \A u \in Slots \ {s} : handler'[u] = handler[u] /\ handler[u].pc = "idle"
  BY DEF Goto, Typed, HandlerOk, Busy
<1>4. /\ handler'[s].pc = pc /\ handler'[s].task = handler[s].task
      /\ handler'[s].seen = handler[s].seen
  BY <1>1, <1>2 DEF Handler
<1> QED
  BY <1>3, <1>4 DEF Busy

LEMMA SeeingOk ==
  ASSUME Typed, NEW s \in Slots, NEW pc \in Pcs \ {"idle"}, NEW st, Busy(s), HandlerOk(s),
         GotoSeeing(s, pc, st)
  PROVE  /\ handler'[s].pc = pc /\ handler'[s].task = handler[s].task
         /\ handler'[s].seen = st
         /\ \A u \in Slots \ {s} : handler'[u] = handler[u] /\ handler[u].pc = "idle"
         /\ \A u \in Slots : Busy(u)' => u = s
<1>1. handler'[s] = [handler[s] EXCEPT !.pc = pc, !.seen = st]
  BY DEF GotoSeeing, Typed
<1>2. handler[s] \in Handler
  BY DEF Typed
<1>3. \A u \in Slots \ {s} : handler'[u] = handler[u] /\ handler[u].pc = "idle"
  BY DEF GotoSeeing, Typed, HandlerOk, Busy
<1>4. /\ handler'[s].pc = pc /\ handler'[s].task = handler[s].task
      /\ handler'[s].seen = st
  BY <1>1, <1>2 DEF Handler
<1> QED
  BY <1>3, <1>4 DEF Busy

\* What starts alone finds no handler at work.
LEMMA AloneIdle ==
  ASSUME Quiet', Alone \/ \E s \in Slots : MayStart(s)
  PROVE  \A u \in Slots : handler[u].pc = "idle"
BY DEF Quiet, Alone, MayStart, Working, Fault

LEMMA IdleOk ==
  ASSUME \A u \in Slots : handler[u].pc = "idle", UNCHANGED handler
  PROVE  HandlersOk'
BY DEF HandlersOk, Busy

LEMMA FaultsGrow == [Next]_vars => faults \subseteq faults'
<1>1. ASSUME NEW k, Fault(k) PROVE faults \subseteq faults'
  BY <1>1 DEF Fault
<1>2. ASSUME Alone PROVE faults \subseteq faults'
  BY <1>1, <1>2 DEF Alone
<1>3. Requests => faults \subseteq faults'
  BY <1>1, <1>2 DEF Requests, PostLetter, PostPrecompiledLetter, CancelLetterJob,
     SendUploadedLetter, CancelLetter, MayStart
<1>4. Faults => faults \subseteq faults'
  BY <1>1 DEF Faults, ReplayLetterInError, Crash, Redeliver, Lose
<1>5. ASSUME NEW s \in Slots, Step(s) PROVE faults \subseteq faults'
  <2>1. CASE SendLetterRetry(s) \/ MarkSendingFails(s)
    BY <1>1, <2>1 DEF SendLetterRetry, MarkSendingFails
  <2>2. CASE ~SendLetterRetry(s) /\ ~MarkSendingFails(s)
    BY <1>5, <2>2 DEF Step, MoveUploadedPdf, WriteCancelled, GetPdf, UpdateBillableUnits,
       UpdateValidationFailed, SanitiseLetter, ProcessSanitisedAgain,
       ProcessSanitisedFails, MoveInvalidLetter, MarkInvalid, MarkSanitised,
       MoveSanitised, DeleteOriginal, MoveFailedPdf, MarkFailed, NotDeliverable,
       PdfNotFound, SendLetter, SendLetterFails, MarkSending, MarkSendingFails,
       LetterCallback,
       RecordDespatch
  <2> QED
    BY <2>1, <2>2
<1>6. ASSUME NEW s \in Slots, NEW m \in Messages, Begin(s, m)
      PROVE  faults \subseteq faults'
  BY <1>2, <1>6 DEF Begin, MayStart
<1>7. OtherApps => faults \subseteq faults'
  BY <1>1 DEF OtherApps, CreatePdf, ScanFile, SanitisePdf
<1>8. Scheduled \/ DvlaPrints \/ ReturnLetter => faults \subseteq faults'
  BY <1>1 DEF Scheduled, Collate, ReplayCreatedLetter, CheckPendingVirusCheck, InTime,
     DvlaPrints, ReturnLetter
<1> QED
  BY <1>3, <1>4, <1>5, <1>6, <1>7, <1>8 DEF Next, vars

LEMMA QuietBefore == [Next]_vars /\ Quiet' => Quiet
BY FaultsGrow DEF Quiet

-----------------------------------------------------------------------------
(* Steps.                                                                  *)

\* A request: a new letter, or a cancelled one.
LEMMA RequestSound ==
  ASSUME LettersAssumption, Typed, Sound, Quiet', Requests
  PROVE  Sound' /\ NotTakenUp
<1>1. ASSUME status = Absent
      PROVE  /\ \A u \in Slots : handler[u].pc = "idle"
             /\ \A m \in Messages : ~(queue[m] > 0)
             /\ pdf = {} /\ dvla = "none"
  BY <1>1 DEF Sound, HandlersOk, HandlerOk, Busy, QueueOk, FilesOk, PrinterOk
<1>2. CASE PostLetter
  <2>1. /\ status = Absent /\ letter'.kind = "templated" /\ UNCHANGED <<handler, pdf, dvla>>
        /\ status' \in {"sending", "delivered", "created"}
    BY <1>2 DEF PostLetter, Order, Outside
  <2>2. Put(queue, "get_pdf", 0) \in [Messages -> Nat] /\ <<"get_pdf", 0>> \in Messages
        /\ <<"letter_callback", 0>> \in Messages
    BY TaskMessages, TaskNames, PutType DEF Typed
  <2>3. \A m \in Messages : queue'[m] > 0 => m[1] \in {"get_pdf", "letter_callback"}
    <3>1. \A m \in Messages : Put(queue, "get_pdf", 0)[m] > 0 => m[1] = "get_pdf"
      BY <1>1, <2>1, <2>2, PutType DEF Typed
    <3>2. \A m \in Messages : Put(Put(queue, "get_pdf", 0), "letter_callback", 0)[m] > 0
            => m[1] \in {"get_pdf", "letter_callback"}
      BY <2>2, <3>1, PutType
    <3>3. queue' \in {queue, Put(queue, "get_pdf", 0),
                      Put(Put(queue, "get_pdf", 0), "letter_callback", 0)}
      BY <1>2 DEF PostLetter
    <3> QED
      BY <1>1, <2>1, <3>1, <3>2, <3>3
  <2>4. QueueOk'
    BY <2>1, <2>3, StatusFacts DEF QueueOk, Fits
  <2>5. HandlersOk'
    BY <1>1, <2>1, IdleOk
  <2>6. FilesOk' /\ PrinterOk'
    BY <1>1, <2>1, StatusFacts DEF FilesOk, PrinterOk
  <2> QED
    BY <2>1, <2>4, <2>5, <2>6, StatusFacts DEF Sound, NotTakenUp, Absent
<1>3. CASE PostPrecompiledLetter
  <2>1. /\ status = Absent /\ letter'.kind = "precompiled" /\ UNCHANGED <<handler, dvla>>
        /\ status' = "pending-virus-check" /\ pdf' = {"scan"}
        /\ Send("antivirus") \/ UNCHANGED queue
    BY <1>3 DEF PostPrecompiledLetter, Order, Outside
  <2>2. \A m \in Messages : queue'[m] > 0 => m[1] = "antivirus"
    <3>1. <<"antivirus", 0>> \in Messages
      BY TaskMessages, TaskNames
    <3>2. CASE Send("antivirus")
      BY <1>1, <2>1, <3>1, <3>2, PutType DEF Send, Typed
    <3> QED
      BY <1>1, <2>1, <3>2
  <2>3. QueueOk'
    BY <2>1, <2>2, StatusFacts DEF QueueOk, Fits
  <2>4. HandlersOk'
    BY <1>1, <2>1, IdleOk
  <2>5. FilesOk' /\ PrinterOk'
    BY <1>1, <2>1, StatusFacts DEF FilesOk, PrinterOk
  <2> QED
    BY <2>1, <2>3, <2>4, <2>5, StatusFacts DEF Sound, NotTakenUp, Absent
<1>4. CASE CancelLetterJob
  <2>1. /\ UNCHANGED <<letter, pdf, queue, handler, dvla>> /\ status' = "cancelled"
        /\ \A u \in Slots : handler[u].pc = "idle"
        /\ status \in {"created", "technical-failure", "validation-failed"}
    BY <1>4, AloneIdle DEF CancelLetterJob, Outside
  <2>2. QueueOk'
    BY <2>1, KeptFits, StatusFacts DEF Sound, SameLetter
  <2>3. FilesOk' /\ PrinterOk'
    BY <2>1, StatusFacts DEF Sound, FilesOk, PrinterOk, At, Taken
  <2> QED
    BY <2>1, <2>2, <2>3, IdleOk DEF Sound, NotTakenUp
<1>5. ASSUME NEW s \in Slots, SendUploadedLetter(s) PROVE Sound' /\ NotTakenUp
  <2> DEFINE h == [IdleHandler EXCEPT !.task = "upload", !.pc = "persisted"]
  <2>1. /\ status = Absent /\ letter'.kind = "uploaded" /\ UNCHANGED <<queue, dvla>>
        /\ status' = "created" /\ units' = TRUE /\ pdf' = {"transient"}
        /\ handler' = [handler EXCEPT ![s] = h]
    BY <1>5 DEF SendUploadedLetter, Order, Outside
  <2>2. h.task = "upload" /\ h.pc = "persisted"
    BY DEF IdleHandler
  <2> HIDE DEF h
  <2>3. handler'[s] = h /\ \A u \in Slots \ {s} : handler'[u].pc = "idle"
    BY <1>1, <2>1 DEF Typed
  <2>4. HandlersOk'
    BY <2>1, <2>2, <2>3, StatusFacts DEF HandlersOk, HandlerOk, Busy, Fits, At, Taken
  <2>5. QueueOk' /\ FilesOk' /\ PrinterOk'
    BY <1>1, <2>1, StatusFacts DEF QueueOk, FilesOk, PrinterOk
  <2> QED
    BY <2>1, <2>4, <2>5, StatusFacts DEF Sound, NotTakenUp, Absent
<1>6. ASSUME NEW s \in Slots, CancelLetter(s) PROVE Sound' /\ NotTakenUp
  <2> DEFINE h == [task |-> "cancel", pc |-> "read", tries |-> 0, seen |-> status]
  <2>1. /\ UNCHANGED <<letter, Row, pdf, queue, dvla>> /\ status # Absent
        /\ \A u \in Slots : handler[u].pc = "idle"
        /\ handler' = [handler EXCEPT ![s] = h]
    BY <1>6, AloneIdle, StatusFacts DEF CancelLetter, CanBeCancelled, Outside
  <2>2. h.task = "cancel" /\ h.pc = "read" /\ h.seen = status
    OBVIOUS
  <2> HIDE DEF h
  <2>3. handler'[s] = h /\ \A u \in Slots \ {s} : handler'[u].pc = "idle"
    BY <2>1 DEF Typed
  <2>4. HandlersOk'
    BY <2>1, <2>2, <2>3, StatusFacts DEF HandlersOk, HandlerOk, Busy, Fits, At, Taken, Row
  <2>5. QueueOk' /\ FilesOk' /\ PrinterOk'
    BY <2>1, KeptFits DEF Sound, SameLetter, FilesOk, PrinterOk, At, Taken, Row
  <2> QED
    BY <2>1, <2>4, <2>5, StatusFacts DEF Sound, NotTakenUp, Row
<1> QED
  BY <1>2, <1>3, <1>4, <1>5, <1>6 DEF Requests

LEMMA BeginSound ==
  ASSUME LettersAssumption, Typed, Sound, Quiet',
         NEW s \in Slots, NEW m \in Messages, Begin(s, m)
  PROVE  Sound' /\ NotTakenUp
<1> DEFINE h == [task |-> m[1], pc |-> "read", tries |-> m[2], seen |-> status]
<1>1. /\ UNCHANGED <<letter, Row, pdf, dvla>> /\ status # Absent /\ Fits(m[1])
      /\ \A u \in Slots : handler[u].pc = "idle" /\ queue[m] > 0
      /\ handler' = [handler EXCEPT ![s] = h] /\ queue' = Take(queue, m)
  BY AloneIdle DEF Begin, Outside, Sound, QueueOk
<1>2. h.task = m[1] /\ h.pc = "read" /\ h.seen = status
  OBVIOUS
<1> HIDE DEF h
<1>3. handler'[s] = h /\ \A u \in Slots \ {s} : handler'[u].pc = "idle"
  BY <1>1 DEF Typed
<1>4. HandlersOk'
  BY <1>1, <1>2, <1>3, StatusFacts DEF HandlersOk, HandlerOk, Busy, Fits, At, Taken, Row
<1>5. QueueOk'
  BY <1>1, TakeFits DEF Sound, SameLetter, Row
<1>6. FilesOk' /\ PrinterOk'
  BY <1>1 DEF Sound, FilesOk, PrinterOk, At, Taken, Row
<1> QED
  BY <1>1, <1>4, <1>5, <1>6 DEF Sound, NotTakenUp, Row

\* What only queues or loses a message.
LEMMA OnlyQueue ==
  ASSUME Sound, QueueOk', UNCHANGED <<letter, Row, pdf, handler, dvla>>
  PROVE  Sound' /\ NotTakenUp
BY DEF Sound, HandlersOk, HandlerOk, Busy, Fits, FilesOk, PrinterOk, At, Taken, Row,
   NotTakenUp

LEMMA FaultSound ==
  ASSUME LettersAssumption, Typed, Sound, Quiet', Faults
  PROVE  Sound' /\ NotTakenUp
<1>1. CASE ReplayLetterInError
  <2>1. /\ UNCHANGED <<letter, Row, handler, dvla>> /\ Send("antivirus")
        /\ "error" \in pdf /\ pdf' = (pdf \ {"error"}) \cup {"scan"}
    BY <1>1 DEF ReplayLetterInError, Move, Outside
  <2>2. SameLetter
    BY <2>1 DEF Sound, FilesOk, SameLetter, Row
  <2>3. QueueOk'
    BY <2>1, <2>2, SendFits, TaskNames DEF Sound, Fits
  <2>4. HandlersOk'
    BY <2>1 DEF Sound, HandlersOk, HandlerOk, Busy, Fits, At, Taken, Row
  <2>5. FilesOk' /\ PrinterOk'
    BY <2>1, <2>2 DEF Sound, FilesOk, PrinterOk, SameLetter, Row
  <2> QED
    BY <2>1, <2>3, <2>4, <2>5 DEF Sound, NotTakenUp, Row
<1>2. ASSUME NEW s \in Slots, Crash(s) PROVE FALSE
  BY <1>2 DEF Crash, Fault, Quiet
<1>3. ASSUME NEW m \in Messages, Redeliver(m) PROVE Sound' /\ NotTakenUp
  <2>1. /\ UNCHANGED <<letter, Row, pdf, handler, dvla>>
        /\ queue' = Put(queue, m[1], m[2]) /\ <<m[1], m[2]>> \in Messages
        /\ queue[m] > 0
    BY <1>3 DEF Redeliver, Messages, Outside
  <2>2. SameLetter /\ Fits(m[1])
    BY <2>1 DEF Sound, QueueOk, SameLetter, Row
  <2>3. QueueOk'
    BY <2>1, <2>2, PutFits DEF Sound
  <2> QED
    BY <2>1, <2>3, OnlyQueue
<1>4. ASSUME NEW m \in Messages, Lose(m) PROVE Sound' /\ NotTakenUp
  <2>1. /\ UNCHANGED <<letter, Row, pdf, handler, dvla>>
        /\ queue' = Take(queue, m) /\ queue[m] > 0
    BY <1>4 DEF Lose, Outside
  <2>2. SameLetter
    BY <2>1 DEF Sound, QueueOk, SameLetter, Row
  <2>3. QueueOk'
    BY <2>1, <2>2, TakeFits DEF Sound
  <2> QED
    BY <2>1, <2>3, OnlyQueue
<1> QED
  BY <1>1, <1>2, <1>3, <1>4 DEF Faults

\* The other apps and the print provider.
LEMMA AppSound ==
  ASSUME LettersAssumption, Typed, Sound, OtherApps \/ DvlaPrints \/ ReturnLetter
  PROVE  Sound' /\ NotTakenUp
<1>1. \A m \in Messages : queue[m] > 0 => status # Absent /\ Fits(m[1])
  BY DEF Sound, QueueOk
<1>2. CASE CreatePdf
  <2>1. PICK m \in Messages :
          /\ m[1] = "create_pdf" /\ queue[m] > 0
          /\ \/ /\ letter.fit /\ queue' = Put(Take(queue, m), "billable_units", 0)
                /\ pdf' = pdf \cup {IF letter.test THEN "test" ELSE "live"}
             \/ /\ ~letter.fit /\ queue' = Put(Take(queue, m), "too_long", 0)
                /\ pdf' = pdf
    BY <1>2 DEF CreatePdf
  <2>2. UNCHANGED <<letter, Row, handler, dvla>>
    BY <1>2 DEF CreatePdf, Outside
  <2>3. letter.kind = "templated" /\ SameLetter
    BY <1>1, <2>1, <2>2 DEF Fits, SameLetter, Row
  <2>4. Fits("billable_units") /\ (~letter.fit => Fits("too_long"))
    BY <2>3 DEF Fits
  <2>5. QueueOk'
    BY <2>1, <2>3, <2>4, PassFits, TaskNames DEF Sound
  <2>6. pdf \cap {"scan", "error", "sanitise"} = {}
    BY <2>3 DEF Sound, FilesOk
  <2>7. HandlersOk'
    BY <2>1, <2>2, <2>6 DEF Sound, HandlersOk, HandlerOk, Busy, Fits, At, Taken, Row
  <2>8. FilesOk' /\ PrinterOk'
    BY <2>1, <2>2, <2>3, <2>6 DEF Sound, FilesOk, PrinterOk, SameLetter, Row
  <2> QED
    BY <2>2, <2>5, <2>7, <2>8 DEF Sound, NotTakenUp, Row
<1>3. CASE ScanFile
  <2>1. UNCHANGED <<letter, Row, pdf, handler, dvla>>
    BY <1>3 DEF ScanFile, Outside
  <2>2. PICK m \in Messages :
          /\ queue[m] > 0
          /\ \/ queue' = Take(queue, m)
             \/ \E t \in {"virus_found", "sanitise_letter", "scan_error"} :
                  queue' = Put(Take(queue, m), t, 0)
    BY <1>3 DEF ScanFile
  <2>3. SameLetter
    BY <1>1, <2>1, <2>2 DEF SameLetter, Row
  <2>4. \A t \in {"virus_found", "sanitise_letter", "scan_error"} :
          Fits(t) /\ t \in ApiTasks
    BY TaskNames DEF Fits
  <2>5. QueueOk'
    BY <2>2, <2>3, <2>4, TakeFits, PassFits DEF Sound
  <2> QED
    BY <2>1, <2>5, OnlyQueue
<1>4. CASE SanitisePdf
  <2>1. UNCHANGED <<letter, Row, handler, dvla>>
    BY <1>4 DEF SanitisePdf, Outside
  <2>2. PICK m \in Messages :
          /\ queue[m] > 0
          /\ \/ /\ "scan" \in pdf /\ pdf' \in {pdf, pdf \cup {"sanitise"}}
                /\ queue' = Put(Take(queue, m), "process_sanitised", 0)
             \/ queue' = Take(queue, m) /\ pdf' = pdf
    BY <1>4 DEF SanitisePdf
  <2>3. SameLetter
    BY <1>1, <2>1, <2>2 DEF SameLetter, Row
  <2>4. Fits("process_sanitised")
    BY DEF Fits
  <2>5. QueueOk'
    BY <2>2, <2>3, <2>4, TakeFits, PassFits, TaskNames DEF Sound
  <2>6. HandlersOk'
    BY <2>1, <2>2 DEF Sound, HandlersOk, HandlerOk, Busy, Fits, At, Taken, Row
  <2>7. FilesOk' /\ PrinterOk'
    BY <2>1, <2>2, <2>3 DEF Sound, FilesOk, PrinterOk, SameLetter, At, Taken, Row
  <2> QED
    BY <2>1, <2>5, <2>6, <2>7 DEF Sound, NotTakenUp, Row
<1>5. CASE DvlaPrints
  <2>1. /\ UNCHANGED <<letter, Row, pdf, handler>> /\ Send("letter_callback")
        /\ dvla = "accepted" /\ dvla' \in {"despatched", "rejected"}
    BY <1>5 DEF DvlaPrints
  <2>2. SameLetter
    BY <2>1 DEF Sound, PrinterOk, SameLetter, Row
  <2>3. QueueOk'
    BY <2>1, <2>2, SendFits, TaskNames DEF Sound, Fits
  <2>4. HandlersOk'
    BY <2>1 DEF Sound, HandlersOk, HandlerOk, Busy, Fits, At, Taken, Row
  <2>5. FilesOk' /\ PrinterOk' /\ NotTakenUp
    BY <2>1 DEF Sound, FilesOk, PrinterOk, NotTakenUp, At, Taken, Row
  <2> QED
    BY <2>3, <2>4, <2>5 DEF Sound
<1>6. CASE ReturnLetter
  <2>1. /\ UNCHANGED <<letter, units, pdf, queue, handler, dvla>>
        /\ dvla = "despatched" /\ status' = "returned-letter"
        /\ \A u \in Slots : handler[u].pc = "idle"
    BY <1>6 DEF ReturnLetter, Working, Outside
  <2>2. SameLetter
    BY <2>1, StatusFacts DEF Sound, PrinterOk, SameLetter
  <2>3. QueueOk' /\ HandlersOk'
    BY <2>1, <2>2, KeptFits, IdleOk DEF Sound
  <2>4. FilesOk' /\ PrinterOk' /\ NotTakenUp
    BY <2>1, <2>2 DEF Sound, FilesOk, PrinterOk, NotTakenUp, SameLetter, At, Taken
  <2> QED
    BY <2>3, <2>4 DEF Sound
<1> QED
  BY <1>2, <1>3, <1>4, <1>5, <1>6 DEF OtherApps

\* The beat schedule only queues.
LEMMA ScheduledSound ==
  ASSUME LettersAssumption, Typed, Sound, Scheduled
  PROVE  Sound' /\ NotTakenUp
<1>1. UNCHANGED <<letter, Row, pdf, handler, dvla>>
  BY DEF Scheduled, Collate, ReplayCreatedLetter, CheckPendingVirusCheck, Outside
<1>2. PICK t \in {"deliver_letter", "get_pdf", "antivirus"} :
        /\ Send(t) \/ queue' = queue
        /\ status # Absent
        /\ t = "get_pdf" => status = "created" /\ ~units
  BY StatusFacts DEF Scheduled, Collate, ToBePrinted, ReplayCreatedLetter,
     MissingFromBucket,
     CheckPendingVirusCheck, PendingVirusCheck
<1>3. SameLetter
  BY <1>1, <1>2 DEF SameLetter, Row
<1>4. Fits(t)
  BY <1>2 DEF Sound, PrinterOk, Fits
<1>5. QueueOk'
  BY <1>2, <1>3, <1>4, SendFits, KeptFits, TaskNames DEF Sound
<1> QED
  BY <1>1, <1>5, OnlyQueue

-----------------------------------------------------------------------------
(* The steps of handlers.                                                  *)

\* Only the handler at work accounts for files that are being moved.
LEMMA OneHandler ==
  ASSUME FilesOk, NEW s \in Slots, Busy(s), HandlerOk(s)
  PROVE  /\ {"live", "scan"} \subseteq pdf => At(s, "process_sanitised", "moved")
         /\ "error" \in pdf /\ status = "pending-virus-check"
              => At(s, "scan_error", "failed_moved")
BY DEF FilesOk, HandlerOk, Busy, At, Taken

\* A handler that is done and left the row alone, or gave the letter up.
LEMMA DoneSound ==
  ASSUME LettersAssumption, Typed, Sound, NEW s \in Slots, Busy(s), HandlerOk(s), Done(s),
         UNCHANGED <<letter, pdf, dvla>>, QueueOk',
         handler[s].pc \in {"read", "updated"},
         \/ status' = status /\ (units' = units \/ units' = TRUE)
         \/ status' \in {"cancelled", "technical-failure"}
  PROVE  Sound' /\ NotTakenUp
<1>1. HandlersOk'
  BY DoneOk
<1>2. ~({"live",
"scan"} \subseteq pdf) /\ ~("error" \in pdf /\ status = "pending-virus-check")
  BY OneHandler DEF Sound, At, Taken
<1>3. status # Absent /\ status' # Absent
  BY StatusFacts DEF HandlerOk
<1>4. FilesOk'
  BY <1>2, <1>3 DEF Sound, FilesOk
<1>5. PrinterOk'
  BY <1>3 DEF Sound, PrinterOk
<1> QED
  BY <1>1, <1>4, <1>5 DEF Sound, NotTakenUp

\* A handler that is at work is the only one.
LEMMA AtWork ==
  ASSUME Sound, NEW s \in Slots, handler[s].pc # "idle"
  PROVE  Busy(s) /\ HandlerOk(s) /\ status # Absent
BY DEF Sound, HandlersOk, HandlerOk, Busy

\* Steps after which the handler is done, with the status kept or the letter given up.
LEMMA SettledSound ==
  ASSUME LettersAssumption, Typed, Sound, NEW s \in Slots,
         \/ WriteCancelled(s) \/ GetPdf(s) \/ UpdateBillableUnits(s) \/ SanitiseLetter(s)
         \/ ProcessSanitisedAgain(s) \/ ProcessSanitisedFails(s) \/ NotDeliverable(s)
         \/ PdfNotFound(s) \/ SendLetterFails(s) \/ RecordDespatch(s)
  PROVE  Sound' /\ NotTakenUp
<1>1. /\ handler[s].pc \in {"read", "updated"} /\ Done(s) /\ UNCHANGED <<letter, pdf, dvla>>
  BY DEF WriteCancelled, GetPdf, UpdateBillableUnits, SanitiseLetter,
     ProcessSanitisedAgain, ProcessSanitisedFails, NotDeliverable, PdfNotFound,
     SendLetterFails, RecordDespatch, At, Taken, Deliverable, Outside
<1>2. Busy(s) /\ HandlerOk(s) /\ status # Absent
  BY <1>1, AtWork
<1>3. ASSUME UNCHANGED queue,
             \/ status' = status /\ (units' = units \/ units' = TRUE)
             \/ status' \in {"cancelled", "technical-failure"}
      PROVE  Sound' /\ NotTakenUp
  <2>1. QueueOk'
    BY <1>1, <1>2, <1>3, KeptFits, StatusFacts DEF Sound, SameLetter
  <2> QED
    BY <1>1, <1>2, <1>3, <2>1, DoneSound
<1>4. ASSUME NEW t \in ApiTasks, Fits(t), RetryOrGiveUp(s, t) PROVE Sound' /\ NotTakenUp
  <2>1. /\ QueueOk'
        /\ UNCHANGED Row \/ (status' = "technical-failure" /\ UNCHANGED units)
    BY <1>1, <1>2, <1>4, RetryFits DEF Sound
  <2> QED
    BY <1>1, <1>2, <2>1, DoneSound DEF Row
<1>5. ASSUME NEW t \in ExternalTasks, Fits(t), Send(t), UNCHANGED Row
      PROVE  Sound' /\ NotTakenUp
  <2>1. QueueOk'
    BY <1>1, <1>2, <1>5, SendFits DEF Sound, SameLetter, Row
  <2> QED
    BY <1>1, <1>2, <1>5, <2>1, DoneSound DEF Row
<1>6. CASE WriteCancelled(s) \/ PdfNotFound(s) \/ SendLetterFails(s)
  BY <1>3, <1>6 DEF WriteCancelled, PdfNotFound, SendLetterFails, UpdateStatusById, Write,
     Row
<1>7. CASE UpdateBillableUnits(s) \/ ProcessSanitisedAgain(s) \/ NotDeliverable(s)
           \/ RecordDespatch(s)
  BY <1>3, <1>7 DEF UpdateBillableUnits, ProcessSanitisedAgain, NotDeliverable,
     RecordDespatch, Row
<1>8. CASE GetPdf(s)
  <2>1. Fits("get_pdf") /\ Fits("create_pdf")
    BY <1>2, <1>8 DEF GetPdf, At, Taken, HandlerOk, Fits
  <2> QED
    BY <1>4, <1>5, <1>8, <2>1, TaskNames DEF GetPdf
<1>9. CASE SanitiseLetter(s)
  <2>1. Fits("sanitise_letter") /\ Fits("sanitise_pdf")
    BY DEF Fits
  <2> QED
    BY <1>3, <1>4, <1>5, <1>9, <2>1, TaskNames DEF SanitiseLetter, Row
<1>10. CASE ProcessSanitisedFails(s)
  <2>1. Fits("process_sanitised")
    BY DEF Fits
  <2> QED
    BY <1>4, <1>10, <2>1, TaskNames DEF ProcessSanitisedFails
<1> QED
  BY <1>6, <1>7, <1>8, <1>9, <1>10

\* process_sanitised_letter.
LEMMA SanitisedSound ==
  ASSUME LettersAssumption, Typed, Sound, NEW s \in Slots,
         \/ MoveInvalidLetter(s) \/ MarkInvalid(s) \/ MarkSanitised(s) \/ MoveSanitised(s)
         \/ DeleteOriginal(s)
  PROVE  Sound' /\ NotTakenUp
<1>1. /\ handler[s].task = "process_sanitised" /\ handler[s].pc # "idle"
      /\ UNCHANGED <<letter, queue, dvla>>
  BY DEF MoveInvalidLetter, MarkInvalid, MarkSanitised, MoveSanitised, DeleteOriginal, At,
     Taken,
     Outside
<1>2. Busy(s) /\ HandlerOk(s) /\ status # Absent
  BY <1>1, AtWork
<1>3. /\ {"live", "scan"} \subseteq pdf => handler[s].pc = "moved"
      /\ ~("error" \in pdf /\ status = "pending-virus-check")
  BY <1>1, <1>2, OneHandler DEF Sound, At, Taken
<1>4. status' # Absent => QueueOk'
  BY <1>1, <1>2, KeptFits DEF Sound, SameLetter
<1>5. Done(s) => HandlersOk'
  BY <1>2, DoneOk
<1>6. ASSUME NEW pc \in {"invalid_moved", "moved"}, Goto(s, pc),
             status' # Absent,
             pc = "invalid_moved" => status' = "pending-virus-check"
      PROVE  HandlersOk' /\ At(s, "process_sanitised", pc)'
  <2>1. /\ handler'[s].pc = pc /\ handler'[s].task = "process_sanitised"
        /\ \A u \in Slots : Busy(u)' => u = s
    BY <1>1, <1>2, <1>6, GotoOk DEF Pcs
  <2> QED
    BY <1>6, <2>1 DEF HandlersOk, HandlerOk, Fits, At, Taken
<1>7. CASE MoveInvalidLetter(s)
  <2>1. status = "pending-virus-check"
    BY <1>2, <1>7 DEF MoveInvalidLetter, StillPending, At, Taken, HandlerOk
  <2>2. CASE Move("scan", "invalid") /\ Goto(s, "invalid_moved") /\ UNCHANGED Row
    BY <1>1, <1>3, <1>4, <1>6, <2>1, <2>2, StatusFacts
       DEF Sound, FilesOk, PrinterOk, NotTakenUp, Move, Row
  <2>3. CASE Done(s) /\ UNCHANGED pdf /\ UpdateStatusById(s, "technical-failure")
    <3>1. QueueOk'
      BY <1>2, <1>4, <2>3, StatusFacts DEF UpdateStatusById, Write, Row
    <3> QED
      BY <1>1, <1>2, <1>7, <2>3, <3>1, DoneSound
         DEF MoveInvalidLetter, At, Taken, UpdateStatusById, Write, Row
  <2> QED
    BY <1>7, <2>2, <2>3 DEF MoveInvalidLetter
<1>8. CASE MarkInvalid(s)
  <2>1. /\ status = "pending-virus-check" /\ status' = "validation-failed"
        /\ UNCHANGED pdf /\ Done(s) /\ handler[s].pc = "invalid_moved"
    BY <1>2, <1>8 DEF MarkInvalid, UpdateLetterPdfStatus, At, Taken, HandlerOk
  <2> QED
    BY <1>1, <1>3, <1>4, <1>5, <2>1, StatusFacts DEF Sound, FilesOk, PrinterOk, NotTakenUp
<1>9. CASE MarkSanitised(s)
  <2>1. /\ status = "pending-virus-check" /\ status' \in {"delivered", "created"} /\ units'
        /\ UNCHANGED pdf /\ GotoSeeing(s, "updated", status') /\ handler[s].pc = "read"
    BY <1>2, <1>9 DEF MarkSanitised, StillPending, UpdateLetterPdfStatus, At, Taken,
       HandlerOk
  <2>2. /\ handler'[s].pc = "updated" /\ handler'[s].task = "process_sanitised"
        /\ handler'[s].seen = status' /\ \A u \in Slots : Busy(u)' => u = s
    BY <1>1, <1>2, <2>1, SeeingOk DEF Pcs
  <2>3. HandlersOk'
    BY <1>3, <2>1, <2>2, StatusFacts DEF HandlersOk, HandlerOk, Fits, At, Taken
  <2> QED
    BY <1>1, <1>3, <1>4, <2>1, <2>3, StatusFacts DEF Sound, FilesOk, PrinterOk, NotTakenUp
<1>10. CASE MoveSanitised(s)
  <2>1. "error" \notin pdf /\ handler[s].pc = "updated"
    BY <1>2, <1>10 DEF MoveSanitised, At, Taken, HandlerOk
  <2>2. ASSUME NEW to \in {"test", "live"}, Move("sanitise", to), Goto(s, "moved"),
               UNCHANGED Row
        PROVE  Sound' /\ NotTakenUp
    <3>1. letter.kind = "precompiled" /\ "error" \notin pdf'
      BY <2>1, <2>2 DEF Sound, FilesOk, Move
    <3>2. HandlersOk' /\ At(s, "process_sanitised", "moved")'
      BY <1>2, <1>6, <2>2 DEF Row
    <3>3. FilesOk'
      BY <1>1, <1>2, <2>2, <3>1, <3>2 DEF Sound, FilesOk, Move, Row
    <3> QED
      BY <1>1, <1>2, <1>4, <2>2, <3>2, <3>3 DEF Sound, PrinterOk, NotTakenUp, Row
  <2>3. ASSUME Done(s), UNCHANGED pdf,
               UpdateStatusById(s, "technical-failure")
        PROVE  Sound' /\ NotTakenUp
    <3>1. QueueOk'
      BY <1>2, <1>4, <2>3, StatusFacts DEF UpdateStatusById, Write, Row
    <3> QED
      BY <1>1, <1>2, <2>1, <2>3, <3>1, DoneSound DEF UpdateStatusById, Write, Row
  <2> QED
    BY <1>10, <2>2, <2>3 DEF MoveSanitised
<1>11. CASE DeleteOriginal(s)
  BY <1>1, <1>2, <1>3, <1>4, <1>5, <1>11
     DEF DeleteOriginal, Sound, FilesOk, PrinterOk, NotTakenUp, Row
<1> QED
  BY <1>7, <1>8, <1>9, <1>10, <1>11

\* process_virus_scan_failed, process_virus_scan_error and the length of templated
\* letters: the verdicts.
LEMMA VerdictSound ==
  ASSUME LettersAssumption, Typed, Sound, NEW s \in Slots,
         \/ UpdateValidationFailed(s)
         \/ MoveFailedPdf(s, "virus_found", "failure")
         \/ MarkFailed(s, "virus_found", "virus-scan-failed")
         \/ MoveFailedPdf(s, "scan_error", "error")
         \/ MarkFailed(s, "scan_error", "technical-failure")
  PROVE  Sound' /\ NotTakenUp
<1>1. handler[s].pc # "idle" /\ UNCHANGED <<letter, queue, dvla>>
  BY DEF UpdateValidationFailed, MoveFailedPdf, MarkFailed, At, Taken, Outside
<1>2. Busy(s) /\ HandlerOk(s) /\ status # Absent
  BY <1>1, AtWork
<1>3. /\ {"live", "scan"} \subseteq pdf => At(s, "process_sanitised", "moved")
      /\ "error" \in pdf /\ status = "pending-virus-check"
           => At(s, "scan_error", "failed_moved")
  BY <1>2, OneHandler DEF Sound
<1>4. status' # Absent => QueueOk'
  BY <1>1, <1>2, KeptFits DEF Sound, SameLetter
<1>5. Done(s) => HandlersOk'
  BY <1>2, DoneOk
<1>6. CASE UpdateValidationFailed(s)
  <2>1. /\ handler[s].task = "too_long" /\ letter.kind = "templated" /\ ~letter.fit
        /\ Done(s) /\ UNCHANGED pdf /\ status' = "validation-failed"
    BY <1>2, <1>6 DEF UpdateValidationFailed, Write, At, Taken, HandlerOk, Fits
  <2>2. dvla = "none"
    BY <2>1 DEF Sound, PrinterOk
  <2> QED
    BY <1>1, <1>2, <1>3, <1>4, <1>5, <2>1, <2>2, StatusFacts
       DEF Sound, FilesOk, PrinterOk, NotTakenUp, At, Taken
<1>7. ASSUME NEW t \in {"virus_found", "scan_error"}, NEW f \in {"failure", "error"},
             MoveFailedPdf(s, t, f), f = "error" => t = "scan_error"
      PROVE  Sound' /\ NotTakenUp
  <2>1. At(s, t, "read") /\ UNCHANGED Row
    BY <1>7 DEF MoveFailedPdf
  <2>2. ~({"live", "scan"} \subseteq pdf) /\ ~("error" \in pdf /\ status = "pending-virus-check")
    BY <1>3, <2>1 DEF At, Taken
  <2>3. CASE Move("scan", f) /\ Goto(s, "failed_moved")
    <3>1. dvla = "none" /\ letter.kind = "precompiled"
      BY <2>3 DEF Sound, FilesOk, Move
    <3>2. /\ handler'[s].pc = "failed_moved" /\ handler'[s].task = t
          /\ \A u \in Slots : Busy(u)' => u = s
      BY <1>2, <2>1, <2>3, GotoOk DEF Pcs, At, Taken
    <3>3. HandlersOk'
      BY <1>1, <1>2, <2>1, <3>1, <3>2 DEF HandlersOk, HandlerOk, Fits, At, Taken, Row
    <3>4. FilesOk'
      BY <1>1, <1>2, <1>7, <2>1, <2>2, <2>3, <3>1, <3>2 DEF Sound, FilesOk, Move, At,
         Taken, Row
    <3> QED
      BY <1>1, <1>2, <1>4, <2>1, <3>3, <3>4 DEF Sound, PrinterOk, NotTakenUp, Row
  <2>4. CASE Done(s) /\ UNCHANGED pdf
    BY <1>1, <1>2, <1>4, <2>1, <2>4, DoneSound DEF At, Taken, Row
  <2> QED
    BY <1>7, <2>3, <2>4 DEF MoveFailedPdf
<1>8. ASSUME NEW t \in {"virus_found", "scan_error"},
             NEW new \in {"virus-scan-failed", "technical-failure"}, MarkFailed(s, t, new)
      PROVE  Sound' /\ NotTakenUp
  <2>1. At(s, t, "failed_moved") /\ status' = new /\ Done(s) /\ UNCHANGED pdf
    BY <1>8 DEF MarkFailed, UpdateLetterPdfStatus
  <2>2. dvla = "none" /\ ~({"live", "scan"} \subseteq pdf)
    BY <1>2, <1>3, <2>1 DEF HandlerOk, At, Taken
  <2> QED
    BY <1>1, <1>4, <1>5, <2>1, <2>2, StatusFacts DEF Sound, FilesOk, PrinterOk, NotTakenUp
<1> QED
  BY <1>6, <1>7, <1>8

\* deliver_letter and process_letter_callback_data.
LEMMA PrintSound ==
  ASSUME LettersAssumption, Typed, Sound, NEW s \in Slots,
         \/ MoveUploadedPdf(s) \/ SendLetter(s) \/ SendLetterRetry(s) \/ MarkSending(s)
         \/ MarkSendingFails(s) \/ LetterCallback(s)
  PROVE  Sound' /\ NotTakenUp
<1>1. handler[s].pc # "idle" /\ UNCHANGED letter
  BY DEF MoveUploadedPdf, SendLetter, SendLetterRetry, MarkSending, MarkSendingFails,
     LetterCallback, At, Taken,
     Deliverable
<1>2. Busy(s) /\ HandlerOk(s) /\ status # Absent
  BY <1>1, AtWork
<1>3. /\ {"live", "scan"} \subseteq pdf => At(s, "process_sanitised", "moved")
      /\ "error" \in pdf /\ status = "pending-virus-check"
           => At(s, "scan_error", "failed_moved")
  BY <1>2, OneHandler DEF Sound
<1>4. status' # Absent /\ UNCHANGED queue => QueueOk'
  BY <1>1, <1>2, KeptFits DEF Sound, SameLetter
<1>5. Done(s) => HandlersOk'
  BY <1>2, DoneOk
<1>6. CASE MoveUploadedPdf(s)
  <2>1. /\ letter.kind = "uploaded" /\ UNCHANGED <<Row, queue, dvla>> /\ Done(s)
        /\ pdf' = (pdf \ {"transient"}) \cup {"live"}
    BY <1>2, <1>6 DEF MoveUploadedPdf, Move, At, Taken, HandlerOk, Outside
  <2> QED
    BY <1>1, <1>2, <1>4, <1>5, <2>1 DEF Sound, FilesOk, PrinterOk, NotTakenUp, Row
<1>7. ASSUME Deliverable(s), "live" \in pdf
      PROVE  /\ status = "created" /\ pdf \cap {"scan", "error"} = {}
             /\ letter.kind = "templated" => letter.fit
  BY <1>2, <1>3, <1>7 DEF Deliverable, Sendable, At, Taken, HandlerOk, Sound, FilesOk
<1>8. CASE SendLetter(s)
  <2>1. /\ UNCHANGED <<Row, queue, pdf>> /\ Deliverable(s) /\ "live" \in pdf
        /\ Goto(s, "accepted") \/ Goto(s, "duplicate")
        /\ dvla' \in {"accepted", dvla}
    BY <1>8 DEF SendLetter
  <2>2. /\ handler'[s].pc \in {"accepted", "duplicate"}
        /\ handler'[s].task = "deliver_letter"
        /\ \A u \in Slots : Busy(u)' => u = s
    BY <1>2, <2>1, GotoOk DEF Pcs, Deliverable, At, Taken
  <2>3. HandlersOk'
    BY <1>1, <1>2, <1>7, <2>1, <2>2 DEF HandlersOk, HandlerOk, Fits, At, Taken, Row
  <2>4. FilesOk' /\ PrinterOk'
    BY <1>1, <1>2, <1>7, <2>1, StatusFacts DEF Sound, FilesOk, PrinterOk, Row
  <2> QED
    BY <1>2, <1>4, <1>7, <2>1, <2>3, <2>4 DEF Sound, NotTakenUp, Row
<1>9. CASE SendLetterRetry(s)
  <2>1. /\ UNCHANGED pdf /\ Done(s) /\ Deliverable(s) /\ "live" \in pdf
        /\ RetryOrGiveUp(s, "deliver_letter")
    BY <1>9 DEF SendLetterRetry
  <2>2. Fits("deliver_letter")
    BY DEF Fits
  <2>3. /\ QueueOk' /\ status' # Absent
        /\ UNCHANGED Row \/ (status' = "technical-failure" /\ UNCHANGED units)
    BY <1>1, <1>2, <2>1, <2>2, RetryFits, TaskNames DEF Sound
  <2>4. FilesOk' /\ PrinterOk'
    BY <1>1, <1>2, <1>7, <2>1, <2>3, StatusFacts DEF Sound, FilesOk, PrinterOk, Row
  <2> QED
    BY <1>5, <1>7, <2>1, <2>3, <2>4 DEF Sound, NotTakenUp
<1>10. CASE MarkSending(s)
  <2>1. /\ status = "created" /\ status' = "sending" /\ UNCHANGED <<pdf, queue, dvla>>
        /\ Done(s) /\ handler[s].pc \in {"accepted", "duplicate"}
    BY <1>2, <1>10 DEF MarkSending, MarkSendingFails, UpdateLetterToSending, Write, At,
       Taken, HandlerOk, Outside
  <2> QED
    BY <1>1, <1>3, <1>4, <1>5, <2>1, StatusFacts
       DEF Sound, FilesOk, PrinterOk, NotTakenUp, At, Taken
<1>12. CASE MarkSendingFails(s)
  <2>1. /\ status = "created" /\ status' \in {status, "technical-failure"}
        /\ UNCHANGED <<units, pdf, queue, dvla>>
        /\ Done(s) /\ handler[s].pc \in {"accepted", "duplicate"}
    BY <1>2, <1>12 DEF MarkSendingFails, UpdateStatusById, Write, At, Taken, HandlerOk, Row,
       Outside
  <2> QED
    BY <1>1, <1>3, <1>4, <1>5, <2>1, StatusFacts
       DEF Sound, FilesOk, PrinterOk, NotTakenUp, At, Taken
<1>11. CASE LetterCallback(s)
  <2>1. /\ UNCHANGED <<pdf, queue, dvla>> /\ handler[s].pc = "read"
        /\ handler[s].task = "letter_callback"
        /\ \/ UNCHANGED Row /\ Done(s)
           \/ status' \in {"technical-failure", "delivered"} /\ UNCHANGED units
              /\ (Done(s) \/ Goto(s, "updated"))
    BY <1>11 DEF LetterCallback, Write, At, Taken, Outside
  <2>2. Goto(s, "updated") /\ status' # Absent => HandlersOk'
    <3> SUFFICES ASSUME Goto(s, "updated"), status' # Absent PROVE HandlersOk'
      OBVIOUS
    <3>1. /\ handler'[s].pc = "updated" /\ handler'[s].task = "letter_callback"
          /\ \A u \in Slots : Busy(u)' => u = s
      BY <1>2, <2>1, GotoOk DEF Pcs
    <3> QED
      BY <3>1 DEF HandlersOk, HandlerOk, Fits, At, Taken
  <2>3. FilesOk' /\ PrinterOk'
    BY <1>1, <1>2, <1>3, <2>1, StatusFacts DEF Sound, FilesOk, PrinterOk, At, Taken, Row
  <2> QED
    BY <1>2, <1>4, <1>5, <2>1, <2>2, <2>3, StatusFacts DEF Sound, NotTakenUp, Row
<1> QED
  BY <1>6, <1>8, <1>9, <1>10, <1>11, <1>12

LEMMA StepSound ==
  ASSUME LettersAssumption, Typed, Sound, NEW s \in Slots, Step(s)
  PROVE  Sound' /\ NotTakenUp
BY SettledSound, SanitisedSound, VerdictSound, PrintSound DEF Step

-----------------------------------------------------------------------------
(* The theorem.                                                            *)

LEMMA InitRefusal == LettersAssumption /\ Init => RefusalInv
<1> SUFFICES ASSUME LettersAssumption, Init PROVE RefusalInv
  OBVIOUS
<1>1. Typed
  BY Idle, StatusFacts DEF Init, Typed, Status
<1>2. HandlersOk /\ QueueOk
  BY Idle DEF Init, HandlersOk, Busy, QueueOk
<1>3. FilesOk /\ PrinterOk
  BY DEF Init, FilesOk, PrinterOk, Absent, NoLetter
<1> QED
  BY <1>1, <1>2, <1>3 DEF RefusalInv, Sound

LEMMA NextRefusal ==
  ASSUME LettersAssumption, RefusalInv, [Next]_vars
  PROVE  RefusalInv' /\ (Quiet' => NotTakenUp)
<1>1. Typed /\ Typed'
  BY TypedHolds DEF RefusalInv
<1>2. ASSUME Quiet' PROVE Sound' /\ NotTakenUp
  <2>1. Sound
    BY <1>2, QuietBefore DEF RefusalInv
  <2>2. CASE UNCHANGED vars
    BY <2>1, <2>2 DEF vars, Sound, HandlersOk, HandlerOk, Busy, Fits, QueueOk, FilesOk,
       PrinterOk, At, Taken, NotTakenUp, Row, Outside
  <2> QED
    BY <1>1, <1>2, <2>1, <2>2, RequestSound, FaultSound, BeginSound, StepSound, AppSound,
       ScheduledSound DEF Next
<1> QED
  BY <1>1, <1>2 DEF RefusalInv

\* As long as no handlers overlap and no worker dies, a letter refused by the virus
\* scan or the validation is not printed and not put back to created,
\* pending-virus-check or sending (deliver_letter, process_sanitised_letter, the
\* callbacks of the print provider), with any number of retries, copies and losses.
THEOREM RefusedStays == Spec => RefusedForGood
<1>1. [Next]_vars /\ RefusalInv =>
        (/\ faults' \cap {"overlap", "worker"} = {}
         /\ status \in {"virus-scan-failed", "validation-failed"}
         => /\ dvla' = dvla
            /\ status' \notin {"created", "pending-virus-check", "sending"})
  BY LettersAssumption, NextRefusal DEF Quiet, NotTakenUp
<1>2. RefusalInv /\ [Next]_vars => RefusalInv'
  BY LettersAssumption, NextRefusal
<1>3. Init => RefusalInv
  BY LettersAssumption, InitRefusal
<1> QED
  BY <1>1, <1>2, <1>3, PTL DEF Spec, RefusedForGood

-----------------------------------------------------------------------------
(* Where the file of a letter is.                                          *)

\* A message or a handler of one of the tasks.
Outstanding(tasks) ==
  Queued(tasks) \/ \E s \in Slots : Busy(s) /\ handler[s].task \in tasks

\* The PDF of a templated letter is stored before its units are counted.
Stored == letter.test \/ "live" \in pdf

TemplatedOk ==
  letter.kind = "templated" =>
    /\ units => Stored
    /\ Outstanding({"billable_units"}) => Stored

UploadedOk ==
  letter.kind = "uploaded" =>
    /\ status = "created" => \/ "live" \in pdf
                             \/ \E s \in Slots : At(s, "upload", "persisted")

\* The original of a precompiled letter, with the sanitised copy of a valid one,
\* is in one place, until a copy to print has been made of it.
OriginalOk ==
  /\ "sanitise" \in pdf => letter.fit
  /\ "scan" \in pdf => \/ pdf \subseteq {"scan", "sanitise"}
                       \/ \E s \in Slots : At(s, "process_sanitised", "moved")
  /\ "error" \in pdf => pdf \subseteq {"error", "sanitise"}

\* The verdict is where the file is.
VerdictOk ==
  /\ status = "virus-scan-failed" => pdf \ {"sanitise"} = {"failure"}
  /\ status = "validation-failed" => pdf = {"invalid"}
  /\ status = "pending-virus-check" =>
       \/ "scan" \in pdf
       \/ \E s \in Slots : handler[s].pc \in {"invalid_moved", "failed_moved"}
  /\ status = "created" /\ ~letter.test =>
       \/ "live" \in pdf
       \/ \E s \in Slots : At(s, "process_sanitised", "updated")

\* What a handler of a precompiled letter did before it commits.
MoverOk(s) ==
  /\ handler[s].pc = "invalid_moved" => pdf = {"invalid"}
  /\ At(s, "virus_found", "failed_moved") => pdf \ {"sanitise"} = {"failure"}
  /\ handler[s].task = "process_sanitised" /\ handler[s].pc \in {"updated", "moved"}
       => status \in {"created", "delivered"}

PrecompiledOk ==
  letter.kind = "precompiled" =>
    OriginalOk /\ VerdictOk /\ \A s \in Slots : MoverOk(s)

\* The steps of a handler that has moved a file are of a precompiled letter.
MovedOk(s) ==
  handler[s].pc \in {"invalid_moved", "failed_moved", "moved"}
    \/ At(s, "process_sanitised", "updated") => letter.kind = "precompiled"

PlacesOk ==
  /\ status = Absent => ~units
  /\ status # Absent => letter.kind \in {"templated", "precompiled", "uploaded"}
  /\ status \in {"pending-virus-check", "virus-scan-failed"} => letter.kind = "precompiled"
  /\ TemplatedOk /\ UploadedOk /\ PrecompiledOk
  /\ \A s \in Slots : MovedOk(s)

-----------------------------------------------------------------------------
(* What the printer did.                                                   *)

\* The printer's answers are about letters it took, and of letters of test keys
\* one answer is made up.
CallbackOk ==
  /\ letter.test => dvla = "none"
  /\ dvla \in {"none", "accepted"} /\ ~letter.test => ~Outstanding({"letter_callback"})
  /\ dvla = "accepted" => status \notin {"delivered", "returned-letter"}
  /\ dvla = "despatched" /\ status = "delivered" =>
       despatch \/ \E s \in Slots : At(s, "letter_callback", "updated")

Chain == {"get_pdf", "create_pdf", "billable_units"}

\* At most one task at a time makes the PDF of a templated letter.
NoChain(q) == \A m \in Messages : m[1] \in Chain => ~(q[m] > 0)

OneChain(q) ==
  /\ \A m, n \in Messages :
       m[1] \in Chain /\ n[1] \in Chain /\ q[m] > 0 /\ q[n] > 0 => m = n
  /\ \A m \in Messages : m[1] \in Chain => q[m] <= 1

ChainOk ==
  /\ OneChain(queue)
  /\ \A s \in Slots : Busy(s) /\ handler[s].task \in Chain => NoChain(queue)
  /\ letter.kind = "templated" /\ (units \/ dvla # "none") => ~Outstanding(Chain)

\* The row while nothing is lost between the API and the printer.
PrintOk ==
  /\ status = "created" /\ Outstanding({"deliver_letter"}) => units
  /\ status = "created" /\ dvla # "none" =>
       \E s \in Slots : Taken(s)
  /\ status \in {"technical-failure", "validation-failed", "virus-scan-failed", "cancelled"}
       => dvla \in {"none", "rejected"}
  /\ letter.test /\ letter.kind = "templated"
       => status \notin {"created", "pending-virus-check", "cancelled"}
  /\ \A s \in Slots : /\ Taken(s) => dvla # "none"
                      /\ At(s, "process_sanitised", "updated") => dvla = "none"
  /\ letter.test /\ Outstanding({"letter_callback"}) => letter.kind = "templated"
  /\ \A s \in Slots : Busy(s) /\ handler[s].task = "cancel" =>
       status \in {"created", "pending-virus-check"}

Orderly ==
  faults \cap {"overlap", "worker", "answer lost", "redelivery", "slow", "database"} = {}

\* The answer of the printer is recorded or on its way.
OnItsWay ==
  \/ status = "sending" /\ Outstanding({"letter_callback"})
  \/ /\ \E s \in Slots : Taken(s)
     /\ Queued({"letter_callback"})

RecordOk ==
  /\ dvla = "accepted" =>
       status = "sending" \/ \E s \in Slots : Taken(s)
  /\ \A s \in Slots : At(s, "letter_callback", "updated") => status = "delivered"
  /\ dvla = "despatched" => status \in {"delivered", "returned-letter"} \/ OnItsWay
  /\ dvla = "rejected" => status \in {"technical-failure", "cancelled"} \/ OnItsWay

-----------------------------------------------------------------------------
(* What is outstanding after a step.                                       *)

\* A handler that is at work is the only one, and so it is after its step.
LEMMA StepTasks ==
  ASSUME LettersAssumption, Typed, Sound, NEW s \in Slots, Step(s)
  PROVE  /\ Busy(s) /\ HandlerOk(s) /\ status # Absent
         /\ \A u \in Slots : Busy(u)' => u = s /\ handler'[u].task = handler[u].task
<1>1. handler[s].pc # "idle"
  BY DEF Step, MoveUploadedPdf, WriteCancelled, GetPdf, UpdateBillableUnits,
     UpdateValidationFailed, SanitiseLetter, ProcessSanitisedAgain, ProcessSanitisedFails,
     MoveInvalidLetter, MarkInvalid, MarkSanitised, MoveSanitised, DeleteOriginal,
     MoveFailedPdf, MarkFailed, NotDeliverable, PdfNotFound, SendLetter, SendLetterRetry,
     SendLetterFails, MarkSending, MarkSendingFails, LetterCallback, RecordDespatch,
     Deliverable, At, Taken
<1>2. Busy(s) /\ HandlerOk(s) /\ status # Absent
  BY <1>1, AtWork
<1>3. \/ Done(s)
      \/ \E pc \in Pcs \ {"idle"} : Goto(s, pc) \/ \E st : GotoSeeing(s, pc, st)
  BY DEF Step, MoveUploadedPdf, WriteCancelled, GetPdf, UpdateBillableUnits,
     UpdateValidationFailed, SanitiseLetter, ProcessSanitisedAgain, ProcessSanitisedFails,
     MoveInvalidLetter, MarkInvalid, MarkSanitised, MoveSanitised, DeleteOriginal,
     MoveFailedPdf, MarkFailed, NotDeliverable, PdfNotFound, SendLetter, SendLetterRetry,
     SendLetterFails, MarkSending, MarkSendingFails, LetterCallback, RecordDespatch, Pcs
<1>4. CASE Done(s)
  BY <1>2, <1>3, <1>4, DoneOk DEF Busy
<1>5. ASSUME NEW pc \in Pcs \ {"idle"}, Goto(s, pc)
      PROVE  \A u \in Slots : Busy(u)' => u = s /\ handler'[u].task = handler[u].task
  BY <1>2, <1>5, GotoOk
<1>6. ASSUME NEW pc \in Pcs \ {"idle"}, NEW st, GotoSeeing(s, pc, st)
      PROVE  \A u \in Slots : Busy(u)' => u = s /\ handler'[u].task = handler[u].task
  BY <1>2, <1>6, SeeingOk
<1> QED
  BY <1>2, <1>3, <1>4, <1>5, <1>6

\* What a step queues is for its own task, or for another app.
LEMMA StepQueues ==
  ASSUME LettersAssumption, Typed, NEW s \in Slots, Step(s)
  PROVE  \A m \in Messages : queue'[m] > 0 =>
           queue[m] > 0 \/ m[1] = handler[s].task \/ m[1] \in ExternalTasks
<1>1. handler[s].tries \in 0..MaxRetries /\ MaxRetries \in Nat
  BY DEF Typed, Handler, LettersAssumption
<1>2. ASSUME NEW t \in ApiTasks, RetryOrGiveUp(s, t), handler[s].task = t
      PROVE  \A m \in Messages : queue'[m] > 0 => queue[m] > 0 \/ m[1] = handler[s].task
  <2>1. CASE handler[s].tries < MaxRetries
    <3>1. <<t, handler[s].tries + 1>> \in Messages
      BY <1>1, <2>1 DEF Messages
    <3>2. \A m \in Messages : queue'[m] > 0 =>
            queue[m] > 0 \/ m = <<t, handler[s].tries + 1>>
      BY <1>2, <2>1, <3>1, PutType DEF RetryOrGiveUp, Typed
    <3> QED
      BY <1>2, <3>2
  <2>2. CASE ~(handler[s].tries < MaxRetries)
    BY <1>2, <2>2 DEF RetryOrGiveUp
  <2> QED
    BY <2>1, <2>2
<1>3. ASSUME NEW t \in ExternalTasks, Send(t)
      PROVE  \A m \in Messages : queue'[m] > 0 => queue[m] > 0 \/ m[1] \in ExternalTasks
  <2>1. <<t, 0>> \in Messages
    BY TaskMessages
  <2>2. \A m \in Messages : queue'[m] > 0 => queue[m] > 0 \/ m = <<t, 0>>
    BY <1>3, <2>1, PutType DEF Send, Typed
  <2> QED
    BY <2>2
<1>4. CASE GetPdf(s) \/ SanitiseLetter(s) \/ ProcessSanitisedFails(s) \/ SendLetterRetry(s)
  <2>1. \/ \E t \in ApiTasks : RetryOrGiveUp(s, t) /\ handler[s].task = t
        \/ \E t \in ExternalTasks : Send(t)
        \/ queue' = queue
    BY <1>4, TaskNames DEF GetPdf, SanitiseLetter, ProcessSanitisedFails, SendLetterRetry,
       Deliverable, At, Taken
  <2> QED
    BY <1>2, <1>3, <2>1
<1>5. CASE ~(GetPdf(s) \/ SanitiseLetter(s) \/ ProcessSanitisedFails(s) \/ SendLetterRetry(s))
  <2>1. queue' = queue
    BY <1>5 DEF Step, MoveUploadedPdf, WriteCancelled, UpdateBillableUnits,
       UpdateValidationFailed, ProcessSanitisedAgain,
       MoveInvalidLetter, MarkInvalid, MarkSanitised, MoveSanitised, DeleteOriginal,
       MoveFailedPdf, MarkFailed, NotDeliverable, PdfNotFound, SendLetter,
       SendLetterFails, MarkSending, MarkSendingFails, LetterCallback, RecordDespatch
  <2> QED
    BY <2>1
<1> QED
  BY <1>4, <1>5

LEMMA StepOut ==
  ASSUME LettersAssumption, Typed, Sound, NEW s \in Slots, Step(s), NEW t \in ApiTasks
  PROVE  Outstanding({t})' => Outstanding({t})
<1>1. /\ \A u \in Slots : Busy(u)' => u = s /\ handler'[u].task = handler[u].task
      /\ Busy(s)
  BY StepTasks
<1>2. \A m \in Messages : queue'[m] > 0 =>
           queue[m] > 0 \/ m[1] = handler[s].task \/ m[1] \in ExternalTasks
  BY StepQueues
<1>3. t \notin ExternalTasks
  BY DEF ApiTasks, ExternalTasks
<1> QED
  BY <1>1, <1>2, <1>3 DEF Outstanding, Queued

\* A worker takes a message: what was queued is at work.
LEMMA BeginFacts ==
  ASSUME LettersAssumption, Typed, Sound, Quiet', NEW s \in Slots, NEW m \in Messages,
         Begin(s, m)
  PROVE  /\ \A u \in Slots : ~Busy(u)
         /\ \A u \in Slots : Busy(u)' => u = s
         /\ handler'[s].task = m[1] /\ handler'[s].pc = "read"
         /\ \A u \in Slots \ {s} : handler'[u] = handler[u]
         /\ \A n \in Messages : queue'[n] > 0 => queue[n] > 0
         /\ queue[m] > 0 /\ UNCHANGED <<letter, Row, pdf, Outside>>
         /\ queue' = Take(queue, m)
         /\ status # Absent /\ Fits(m[1]) /\ m[1] \in ApiTasks
<1> DEFINE h == [task |-> m[1], pc |-> "read", tries |-> m[2], seen |-> status]
<1>1. /\ \A u \in Slots : handler[u].pc = "idle" /\ queue[m] > 0
      /\ handler' = [handler EXCEPT ![s] = h] /\ queue' = Take(queue, m)
      /\ status # Absent /\ Fits(m[1]) /\ m[1] \in ApiTasks
      /\ UNCHANGED <<letter, Row, pdf, Outside>>
  BY AloneIdle DEF Begin, Sound, QueueOk
<1>2. h.task = m[1] /\ h.pc = "read"
  OBVIOUS
<1> HIDE DEF h
<1>3. handler'[s] = h /\ \A u \in Slots \ {s} : handler'[u] = handler[u]
  BY <1>1 DEF Typed
<1>4. \A n \in Messages : queue'[n] > 0 => queue[n] > 0
  BY <1>1, TakeType DEF Typed
<1> QED
  BY <1>1, <1>2, <1>3, <1>4 DEF Busy

LEMMA BeginOut ==
  ASSUME LettersAssumption, Typed, Sound, Quiet', NEW s \in Slots, NEW m \in Messages,
         Begin(s, m), NEW t \in ApiTasks
  PROVE  Outstanding({t})' => Outstanding({t})
<1>1. /\ \A u \in Slots : Busy(u)' => u = s
      /\ handler'[s].task = m[1] /\ queue[m] > 0
      /\ \A n \in Messages : queue'[n] > 0 => queue[n] > 0
  BY BeginFacts
<1> QED
  BY <1>1 DEF Outstanding, Queued

\* What only queues tasks of a set.
LEMMA QueueOut ==
  ASSUME UNCHANGED handler, NEW T, NEW t, t \notin T,
         \A m \in Messages : queue'[m] > 0 => queue[m] > 0 \/ m[1] \in T
  PROVE  Outstanding({t})' => Outstanding({t})
BY DEF Outstanding, Queued, Busy

LEMMA SendQueues ==
  ASSUME LettersAssumption, Typed, NEW t \in ApiTasks \cup ExternalTasks, Send(t)
  PROVE  \A m \in Messages : queue'[m] > 0 => queue[m] > 0 \/ m[1] = t
<1>1. <<t, 0>> \in Messages
  BY TaskMessages
<1>2. \A m \in Messages : queue'[m] > 0 => queue[m] > 0 \/ m = <<t, 0>>
  BY <1>1, PutType DEF Send, Typed
<1> QED
  BY <1>2

LEMMA TakeQueues ==
  ASSUME Typed, NEW m \in Messages, queue[m] > 0, queue' = Take(queue, m)
  PROVE  \A n \in Messages : queue'[n] > 0 => queue[n] > 0
BY TakeType DEF Typed

LEMMA PassQueues ==
  ASSUME LettersAssumption, Typed, NEW m \in Messages, queue[m] > 0,
         NEW t \in ApiTasks \cup ExternalTasks, queue' = Put(Take(queue, m), t, 0)
  PROVE  \A n \in Messages : queue'[n] > 0 => queue[n] > 0 \/ n[1] = t
<1> DEFINE rest == Take(queue, m)
<1>1. rest \in [Messages -> Nat] /\ \A n \in Messages : rest[n] > 0 => queue[n] > 0
  BY TakeType DEF Typed
<1>2. queue' = Put(rest, t, 0) /\ <<t, 0>> \in Messages
  BY TaskMessages
<1> HIDE DEF rest
<1>3. \A n \in Messages : queue'[n] > 0 => rest[n] > 0 \/ n = <<t, 0>>
  BY <1>1, <1>2, PutType
<1> QED
  BY <1>1, <1>3

-----------------------------------------------------------------------------
(* Where the file is: steps that move no file.                             *)

\* A handler that is not between the move of a file and a commit.
Plain(s) ==
  /\ handler[s].pc \notin {"persisted", "invalid_moved", "failed_moved", "moved"}
  /\ ~At(s, "process_sanitised", "updated")

LEMMA RowOnly ==
  ASSUME PlacesOk, status # Absent, UNCHANGED <<letter, pdf>>,
         \A u \in Slots : handler'[u] = handler[u] \/ (Plain(u) /\ Plain(u)'),
         \/ status' = status
         \/ /\ status' \in {"cancelled", "technical-failure", "delivered", "sending",
                            "returned-letter"}
            /\ \A u \in Slots : Plain(u),
         units' => units \/ Stored \/ letter.kind # "templated",
         Outstanding({"billable_units"})' => Outstanding({"billable_units"})
  PROVE  PlacesOk'
<1>1. \A u \in Slots :
        /\ handler'[u].pc \in {"persisted", "invalid_moved", "failed_moved", "moved"}
             <=> handler[u].pc \in {"persisted", "invalid_moved", "failed_moved", "moved"}
        /\ \A t : (At(u, t, "updated")' /\ t = "process_sanitised") <=>
                  (At(u, t, "updated") /\ t = "process_sanitised")
  BY DEF Plain, At, Taken
<1>2. TemplatedOk'
  BY DEF PlacesOk, TemplatedOk, Stored
<1>3. UploadedOk'
  BY DEF PlacesOk, UploadedOk, Plain, At, Taken
<1>4. OriginalOk => OriginalOk'
  BY DEF OriginalOk, Plain, At, Taken
<1>5. VerdictOk => VerdictOk'
  BY DEF VerdictOk, Plain, At, Taken
<1>6. (\A u \in Slots : MoverOk(u)) => \A u \in Slots : MoverOk(u)'
  BY DEF MoverOk, Plain, At, Taken
<1>7. \A u \in Slots : MovedOk(u)'
  BY DEF PlacesOk, MovedOk, Plain, At, Taken
<1>8. status' # Absent
  BY StatusFacts
<1> QED
  BY <1>2, <1>3, <1>4, <1>5, <1>6, <1>7, <1>8 DEF PlacesOk, PrecompiledOk

\* A step of a handler that moves no file.
LEMMA StepRowOnly ==
  ASSUME LettersAssumption, Typed, Sound, PlacesOk, NEW s \in Slots, Step(s), Plain(s),
         Plain(s)', UNCHANGED <<letter, pdf>>,
         status' \in {status, "cancelled", "technical-failure", "delivered", "sending"},
         units' => units \/ Stored \/ letter.kind # "templated"
  PROVE  PlacesOk'
<1>1. /\ Busy(s) /\ HandlerOk(s) /\ status # Absent
      /\ \A u \in Slots : Busy(u)' => u = s
  BY StepTasks
<1>2. \A u \in Slots \ {s} : Plain(u) /\ Plain(u)'
  BY <1>1 DEF HandlerOk, Plain, Busy, At, Taken
<1>3. Outstanding({"billable_units"})' => Outstanding({"billable_units"})
  BY StepOut, TaskNames
<1> QED
  BY <1>1, <1>2, <1>3, RowOnly

LEMMA IdlePlain ==
  ASSUME LettersAssumption, NEW u \in Slots,
         handler[u].pc \in {"idle", "read", "accepted", "duplicate"}
  PROVE  Plain(u)
BY DEF Plain, At, Taken

LEMMA DonePlain ==
  ASSUME LettersAssumption, Typed, Sound, NEW s \in Slots, Busy(s), Done(s)
  PROVE  \A u \in Slots : ~Busy(u)' /\ Plain(u)'
<1>1. HandlerOk(s)
  BY AtWork DEF Busy
<1>2. \A u \in Slots : handler'[u].pc = "idle"
  BY <1>1, DoneOk
<1> QED
  BY <1>2 DEF Plain, Busy, At, Taken

\* Tasks that change the row alone.
LEMMA RowStepPlaces ==
  ASSUME LettersAssumption, Typed, Sound, PlacesOk, NEW s \in Slots,
         \/ WriteCancelled(s) \/ GetPdf(s) \/ UpdateBillableUnits(s) \/ SanitiseLetter(s)
         \/ ProcessSanitisedAgain(s) \/ ProcessSanitisedFails(s) \/ NotDeliverable(s)
         \/ PdfNotFound(s) \/ SendLetter(s) \/ SendLetterRetry(s) \/ SendLetterFails(s)
         \/ MarkSending(s) \/ MarkSendingFails(s) \/ LetterCallback(s) \/ RecordDespatch(s)
  PROVE  PlacesOk'
<1>1. Step(s) /\ UNCHANGED <<letter, pdf>>
  BY DEF Step, WriteCancelled, GetPdf, UpdateBillableUnits, SanitiseLetter,
     ProcessSanitisedAgain, ProcessSanitisedFails, NotDeliverable, PdfNotFound, SendLetter,
     SendLetterRetry, SendLetterFails, MarkSending, MarkSendingFails, LetterCallback,
     RecordDespatch
<1>2. Plain(s) /\ Busy(s)
  BY DEF WriteCancelled, GetPdf, UpdateBillableUnits, SanitiseLetter,
     ProcessSanitisedAgain, ProcessSanitisedFails, NotDeliverable, PdfNotFound, SendLetter,
     SendLetterRetry, SendLetterFails, MarkSending, MarkSendingFails, LetterCallback,
     RecordDespatch,
     Deliverable, At, Taken, Plain, Busy
<1>3. /\ status' \in {status, "cancelled", "technical-failure", "delivered", "sending"}
      /\ ~UpdateBillableUnits(s) => units' = units
  BY DEF WriteCancelled, GetPdf, UpdateBillableUnits, SanitiseLetter,
     ProcessSanitisedAgain, ProcessSanitisedFails, NotDeliverable, PdfNotFound, SendLetter,
     SendLetterRetry, SendLetterFails, MarkSending, MarkSendingFails, LetterCallback,
     RecordDespatch,
     UpdateStatusById, Write, RetryOrGiveUp, UpdateLetterToSending, Row
<1>4. units' => units \/ Stored \/ letter.kind # "templated"
  <2>1. CASE UpdateBillableUnits(s)
    <3>1. Outstanding({"billable_units"})
      BY <1>2, <2>1 DEF UpdateBillableUnits, Outstanding, At, Taken
    <3> QED
      BY <3>1 DEF PlacesOk, TemplatedOk
  <2> QED
    BY <1>3, <2>1
<1>5. /\ Done(s) => Plain(s)'
      /\ Goto(s, "accepted") \/ Goto(s, "duplicate") => Plain(s)'
      /\ Goto(s, "updated") /\ handler[s].task = "letter_callback" => Plain(s)'
  <2>1. HandlerOk(s)
    BY <1>2, AtWork DEF Busy
  <2>2. \A pc \in Pcs \ {"idle"} : Goto(s, pc) =>
          handler'[s].pc = pc /\ handler'[s].task = handler[s].task
    BY <1>2, <2>1, GotoOk
  <2> QED
    BY <1>2, <2>2, DonePlain DEF Plain, At, Taken, Pcs
<1>6. Plain(s)'
  BY <1>5 DEF WriteCancelled, GetPdf, UpdateBillableUnits, SanitiseLetter,
     ProcessSanitisedAgain, ProcessSanitisedFails, NotDeliverable, PdfNotFound, SendLetter,
     SendLetterRetry, SendLetterFails, MarkSending, MarkSendingFails, LetterCallback,
     RecordDespatch, At, Taken
<1> QED
  BY <1>1, <1>2, <1>3, <1>4, <1>6, StepRowOnly

\* Steps outside the handlers that move no file.
LEMMA QuietPlaces ==
  ASSUME LettersAssumption, Typed, Sound, PlacesOk,
         UNCHANGED <<letter, pdf, units, handler>>,
         status # Absent,
         status' = status \/ (status' = "returned-letter" /\ ~Working),
         NEW T, "billable_units" \notin T,
         \A m \in Messages : queue'[m] > 0 => queue[m] > 0 \/ m[1] \in T
  PROVE  PlacesOk'
<1>1. Outstanding({"billable_units"})' => Outstanding({"billable_units"})
  BY QueueOut
<1>2. ~Working => \A u \in Slots : Plain(u)
  BY DEF Working, Plain, At, Taken
<1> QED
  BY <1>1, <1>2, RowOnly

LEMMA OutsidePlaces ==
  ASSUME LettersAssumption, Typed, Sound, PlacesOk, Quiet',
         \/ ScanFile \/ Scheduled \/ DvlaPrints \/ ReturnLetter
         \/ \E m \in Messages : Redeliver(m) \/ Lose(m)
  PROVE  PlacesOk'
<1>1. UNCHANGED <<letter, pdf, units, handler>>
  BY DEF ScanFile, Scheduled, Collate, ReplayCreatedLetter, CheckPendingVirusCheck,
     DvlaPrints, ReturnLetter, Redeliver, Lose, Row
<1>2. status' = status \/ (status' = "returned-letter" /\ ~Working)
  BY DEF ScanFile, Scheduled, Collate, ReplayCreatedLetter, CheckPendingVirusCheck,
     DvlaPrints, ReturnLetter, Redeliver, Lose, Row
<1>3. \A m \in Messages : queue[m] > 0 => status # Absent
  BY DEF Sound, QueueOk
<1>4. CASE ScanFile
  <2>1. PICK m \in Messages :
          /\ queue[m] > 0
          /\ \/ queue' = Take(queue, m)
             \/ \E t \in {"virus_found", "sanitise_letter", "scan_error"} :
                  queue' = Put(Take(queue, m), t, 0)
    BY <1>4 DEF ScanFile
  <2>2. \A n \in Messages : queue'[n] > 0 =>
          queue[n] > 0 \/ n[1] \in {"virus_found", "sanitise_letter", "scan_error"}
    BY <2>1, TakeQueues, PassQueues, TaskNames
  <2> QED
    BY <1>1, <1>2, <1>3, <2>1, <2>2, QuietPlaces
<1>5. CASE Scheduled
  <2>1. PICK t \in {"deliver_letter", "get_pdf", "antivirus"} : Send(t) \/ queue' = queue
    BY <1>5 DEF Scheduled, Collate, ReplayCreatedLetter, CheckPendingVirusCheck
  <2>2. status # Absent
    BY <1>5, StatusFacts DEF Scheduled, Collate, ToBePrinted, ReplayCreatedLetter,
       MissingFromBucket, CheckPendingVirusCheck, PendingVirusCheck
  <2>3. \A n \in Messages : queue'[n] > 0 => queue[n] > 0 \/ n[1] \in {t}
    BY <2>1, SendQueues, TaskNames
  <2> QED
    BY <1>1, <1>2, <2>2, <2>3, QuietPlaces
<1>6. CASE DvlaPrints
  <2>1. Send("letter_callback") /\ status # Absent
    BY <1>6 DEF DvlaPrints, Sound, PrinterOk
  <2>2. \A n \in Messages : queue'[n] > 0 => queue[n] > 0 \/ n[1] \in {"letter_callback"}
    BY <2>1, SendQueues, TaskNames
  <2> QED
    BY <1>1, <1>2, <2>1, <2>2, QuietPlaces
<1>7. CASE ReturnLetter
  <2>1. queue' = queue /\ status # Absent
    BY <1>7 DEF ReturnLetter, Sound, PrinterOk
  <2> QED
    BY <1>1, <1>2, <2>1, QuietPlaces
<1>8. ASSUME NEW m \in Messages, Redeliver(m) PROVE PlacesOk'
  <2>1. m = <<m[1], m[2]>> /\ queue[m] > 0 /\ queue' = Put(queue, m[1], m[2])
    BY <1>8 DEF Messages, Redeliver
  <2>2. \A n \in Messages : queue'[n] > 0 => queue[n] > 0
    BY <2>1, PutType DEF Typed
  <2> QED
    BY <1>1, <1>2, <1>3, <2>1, <2>2, QuietPlaces
<1>9. ASSUME NEW m \in Messages, Lose(m) PROVE PlacesOk'
  <2>1. queue[m] > 0 /\ queue' = Take(queue, m)
    BY <1>9 DEF Lose
  <2>2. \A n \in Messages : queue'[n] > 0 => queue[n] > 0
    BY <2>1, TakeQueues
  <2> QED
    BY <1>1, <1>2, <1>3, <2>1, <2>2, QuietPlaces
<1> QED
  BY <1>4, <1>5, <1>6, <1>7, <1>8, <1>9

-----------------------------------------------------------------------------
(* Where the file is: requests, and steps that move a file.                *)

LEMMA RequestPlaces ==
  ASSUME LettersAssumption, Typed, Sound, PlacesOk, Quiet', Requests
  PROVE  PlacesOk'
<1>1. ASSUME status = Absent
      PROVE  /\ \A u \in Slots : ~Busy(u) /\ Plain(u)
             /\ \A m \in Messages : ~(queue[m] > 0)
             /\ pdf = {}
  BY <1>1 DEF Sound, HandlersOk, HandlerOk, Busy, QueueOk, FilesOk, Plain, At, Taken
<1>2. CASE PostLetter
  <2>1. /\ status = Absent /\ letter'.kind = "templated" /\ UNCHANGED <<handler, pdf, units>>
        /\ status' \in {"sending", "delivered", "created"} /\ pdf = {}
    BY <1>1, <1>2 DEF PostLetter, Order, Outside
  <2>2. Put(queue, "get_pdf", 0) \in [Messages -> Nat] /\ <<"get_pdf", 0>> \in Messages
        /\ <<"letter_callback", 0>> \in Messages
    BY TaskMessages, TaskNames, PutType DEF Typed
  <2>3. \A m \in Messages : queue'[m] > 0 => m[1] \in {"get_pdf", "letter_callback"}
    <3>1. \A m \in Messages : Put(queue, "get_pdf", 0)[m] > 0 => m[1] = "get_pdf"
      BY <1>1, <2>1, <2>2, PutType DEF Typed
    <3>2. \A m \in Messages : Put(Put(queue, "get_pdf", 0), "letter_callback", 0)[m] > 0
            => m[1] \in {"get_pdf", "letter_callback"}
      BY <2>2, <3>1, PutType
    <3>3. queue' \in {queue, Put(queue, "get_pdf", 0),
                      Put(Put(queue, "get_pdf", 0), "letter_callback", 0)}
      BY <1>2 DEF PostLetter
    <3> QED
      BY <1>1, <2>1, <3>1, <3>2, <3>3
  <2>4. ~Outstanding({"billable_units"})'
    BY <1>1, <2>1, <2>3 DEF Outstanding, Queued, Busy
  <2>5. ~units'
    BY <2>1 DEF PlacesOk
  <2>6. status' \notin {Absent, "pending-virus-check", "virus-scan-failed"}
    BY <2>1, StatusFacts
  <2>7. TemplatedOk'
    BY <2>4, <2>5, <2>6 DEF TemplatedOk
  <2> QED
    BY <1>1, <2>1, <2>5, <2>6, <2>7 DEF PlacesOk, UploadedOk, PrecompiledOk, MovedOk,
       Plain, At, Taken
<1>3. CASE PostPrecompiledLetter
  <2>1. /\ status = Absent /\ letter'.kind = "precompiled" /\ UNCHANGED <<handler, units>>
        /\ status' = "pending-virus-check" /\ pdf' = {"scan"}
    BY <1>3 DEF PostPrecompiledLetter, Order, Outside
  <2>2. (OriginalOk /\ VerdictOk)'
    BY <2>1 DEF OriginalOk, VerdictOk
  <2>3. \A u \in Slots : Plain(u)' /\ MoverOk(u)'
    BY <1>1, <2>1 DEF MoverOk, Plain, At, Taken
  <2> QED
    BY <2>1, <2>2, <2>3, StatusFacts
       DEF PlacesOk, TemplatedOk, UploadedOk, PrecompiledOk, MovedOk, Plain
<1>4. CASE CancelLetterJob
  <2>1. /\ UNCHANGED <<letter, pdf, queue, handler>> /\ status' = "cancelled"
        /\ \A u \in Slots : handler[u].pc = "idle" /\ units' = FALSE
        /\ status # Absent
    BY <1>4, AloneIdle, StatusFacts DEF CancelLetterJob, Outside
  <2>2. \A u \in Slots : Plain(u)
    BY <2>1 DEF Plain, At, Taken
  <2>3. Outstanding({"billable_units"})' => Outstanding({"billable_units"})
    BY <2>1 DEF Outstanding, Queued, Busy
  <2>4. /\ UNCHANGED <<letter, pdf>> /\ status # Absent
        /\ \A u \in Slots : handler'[u] = handler[u]
        /\ status' \in {"cancelled", "technical-failure", "delivered", "sending",
                       "returned-letter"}
    BY <2>1
  <2>5. units' = FALSE
    BY <1>4 DEF CancelLetterJob
  <2>6. \/ status' = status
        \/ /\ status' \in {"cancelled", "technical-failure", "delivered", "sending",
                            "returned-letter"}
           /\ \A u \in Slots : Plain(u)
    BY <2>2, <2>4
  <2>8. units' => units \/ Stored \/ letter.kind # "templated"
    BY <2>5
  <2>7. \A u \in Slots : handler'[u] = handler[u] \/ (Plain(u) /\ Plain(u)')
    BY <2>4
  <2> QED
    BY <2>3, <2>4, <2>6, <2>7, <2>8, RowOnly
<1>5. ASSUME NEW s \in Slots, SendUploadedLetter(s) PROVE PlacesOk'
  <2> DEFINE h == [IdleHandler EXCEPT !.task = "upload", !.pc = "persisted"]
  <2>1. /\ status = Absent /\ letter'.kind = "uploaded" /\ UNCHANGED <<queue, dvla>>
        /\ status' = "created" /\ units' = TRUE /\ pdf' = {"transient"}
        /\ handler' = [handler EXCEPT ![s] = h]
    BY <1>5 DEF SendUploadedLetter, Order, Outside
  <2>2. h.task = "upload" /\ h.pc = "persisted"
    BY DEF IdleHandler
  <2> HIDE DEF h
  <2>3. handler'[s] = h /\ \A u \in Slots \ {s} : handler'[u] = handler[u]
    BY <2>1 DEF Typed
  <2>4. At(s, "upload", "persisted")'
    BY <2>2, <2>3 DEF At, Taken
  <2>5. \A u \in Slots : MovedOk(u)'
    BY <1>1, <2>1, <2>2, <2>3 DEF MovedOk, Plain, At, Taken
  <2> QED
    BY <2>1, <2>4, <2>5, StatusFacts DEF PlacesOk, TemplatedOk, UploadedOk, PrecompiledOk
<1>6. ASSUME NEW s \in Slots, CancelLetter(s) PROVE PlacesOk'
  <2> DEFINE h == [task |-> "cancel", pc |-> "read", tries |-> 0, seen |-> status]
  <2>1. /\ UNCHANGED <<letter, Row, pdf, queue>> /\ status # Absent
        /\ \A u \in Slots : handler[u].pc = "idle"
        /\ handler' = [handler EXCEPT ![s] = h]
    BY <1>6, AloneIdle, StatusFacts DEF CancelLetter, CanBeCancelled, Outside
  <2>2. h.task = "cancel" /\ h.pc = "read" /\ h.seen = status
    OBVIOUS
  <2> HIDE DEF h
  <2>3. handler'[s] = h /\ \A u \in Slots \ {s} : handler'[u] = handler[u]
    BY <2>1 DEF Typed
  <2>4. Outstanding({"billable_units"})' => Outstanding({"billable_units"})
    BY <2>1, <2>2, <2>3 DEF Outstanding, Queued, Busy
  <2>5. Plain(s) /\ Plain(s)'
    BY <2>1, <2>2, <2>3 DEF Plain, At, Taken
  <2> QED
    BY <2>1, <2>3, <2>4, <2>5, RowOnly DEF Row
<1> QED
  BY <1>2, <1>3, <1>4, <1>5, <1>6 DEF Requests

\* Template preview.
LEMMA PreviewPlaces ==
  ASSUME LettersAssumption, Typed, Sound, PlacesOk, CreatePdf \/ SanitisePdf
  PROVE  PlacesOk'
<1>1. \A m \in Messages : queue[m] > 0 => status # Absent /\ Fits(m[1])
  BY DEF Sound, QueueOk
<1>2. CASE CreatePdf
  <2>1. PICK m \in Messages :
          /\ m[1] = "create_pdf" /\ queue[m] > 0
          /\ \/ /\ letter.fit /\ queue' = Put(Take(queue, m), "billable_units", 0)
                /\ pdf' = pdf \cup {IF letter.test THEN "test" ELSE "live"}
             \/ /\ ~letter.fit /\ queue' = Put(Take(queue, m), "too_long", 0)
                /\ pdf' = pdf
    BY <1>2 DEF CreatePdf
  <2>2. UNCHANGED <<letter, Row, handler>>
    BY <1>2 DEF CreatePdf
  <2>3. letter.kind = "templated"
    BY <1>1, <2>1 DEF Fits
  <2>4. queue' = Put(Take(queue, m), "too_long", 0) =>
          (Outstanding({"billable_units"})' => Outstanding({"billable_units"}))
    BY <2>1, <2>2, PassQueues, TaskNames DEF Outstanding, Queued, Busy
  <2>5. TemplatedOk'
    BY <2>1, <2>2, <2>3, <2>4 DEF PlacesOk, TemplatedOk, Stored, Row
  <2>6. \A u \in Slots : MovedOk(u)'
    BY <2>2 DEF PlacesOk, MovedOk, At, Taken
  <2> QED
    BY <2>2, <2>3, <2>5, <2>6 DEF PlacesOk, UploadedOk, PrecompiledOk, Row
<1>3. CASE SanitisePdf
  <2>1. UNCHANGED <<letter, Row, handler>>
    BY <1>3 DEF SanitisePdf, Outside
  <2>2. PICK m \in Messages :
          /\ queue[m] > 0
          /\ \/ /\ "scan" \in pdf /\ pdf' = pdf \cup (IF letter.fit THEN {"sanitise"} ELSE {})
                /\ queue' = Put(Take(queue, m), "process_sanitised", 0)
             \/ queue' = Take(queue, m) /\ pdf' = pdf
    BY <1>3 DEF SanitisePdf
  <2>3. \A n \in Messages : queue'[n] > 0 => queue[n] > 0 \/ n[1] \in {"process_sanitised"}
    BY <2>2, TakeQueues, PassQueues, TaskNames
  <2>4. CASE pdf' = pdf
    BY <1>1, <2>1, <2>2, <2>3, <2>4, QuietPlaces DEF Row
  <2>5. CASE letter.fit /\ "scan" \in pdf /\ pdf' = pdf \cup {"sanitise"}
    <3>1. letter.kind = "precompiled"
      BY <2>5 DEF Sound, FilesOk
    <3>2. OriginalOk'
      BY <2>1, <2>5, <3>1 DEF PlacesOk, PrecompiledOk, OriginalOk, At, Taken
    <3>3. VerdictOk'
      BY <2>1, <2>5, <3>1 DEF PlacesOk, PrecompiledOk, VerdictOk, At, Taken, Row
    <3>4. \A u \in Slots : MoverOk(u)'
      BY <2>1, <2>5, <3>1 DEF PlacesOk, PrecompiledOk, MoverOk, At, Taken, Row
    <3>5. \A u \in Slots : MovedOk(u)'
      BY <2>1 DEF PlacesOk, MovedOk, At, Taken
    <3> QED
      BY <2>1, <3>1, <3>2, <3>3, <3>4, <3>5
         DEF PlacesOk, TemplatedOk, UploadedOk, PrecompiledOk, Row
  <2> QED
    BY <2>2, <2>4, <2>5
<1> QED
  BY <1>2, <1>3
\* The steps of handlers that move a file, or commit after they moved one.
LEMMA MovePlaces ==
  ASSUME LettersAssumption, Typed, Sound, PlacesOk, NEW s \in Slots, Step(s),
         \/ MoveUploadedPdf(s) \/ UpdateValidationFailed(s) \/ MoveInvalidLetter(s)
         \/ MarkInvalid(s) \/ MarkSanitised(s) \/ MoveSanitised(s) \/ DeleteOriginal(s)
         \/ MoveFailedPdf(s, "virus_found", "failure")
         \/ MarkFailed(s, "virus_found", "virus-scan-failed")
         \/ MoveFailedPdf(s, "scan_error", "error")
         \/ MarkFailed(s, "scan_error", "technical-failure")
  PROVE  PlacesOk'
<1>1. Busy(s) /\ HandlerOk(s) /\ status # Absent /\ UNCHANGED letter
  BY StepTasks DEF MoveUploadedPdf, UpdateValidationFailed, MoveInvalidLetter,
     MarkInvalid, MarkSanitised, MoveSanitised, DeleteOriginal, MoveFailedPdf, MarkFailed
<1>2. Outstanding({"billable_units"})' => Outstanding({"billable_units"})
  BY StepOut, TaskNames
<1>3. \A u \in Slots : Busy(u) => u = s
  BY <1>1 DEF HandlerOk
<1>4. Done(s) => \A u \in Slots : ~Busy(u)' /\ Plain(u)'
  BY <1>1, DonePlain
<1>5. ASSUME NEW pc \in {"invalid_moved", "updated", "moved", "failed_moved"}, Goto(s, pc)
      PROVE  /\ handler'[s].pc = pc /\ handler'[s].task = handler[s].task
             /\ \A u \in Slots \ {s} : ~Busy(u)' /\ Plain(u)'
  <2>1. /\ handler'[s].pc = pc /\ handler'[s].task = handler[s].task
        /\ \A u \in Slots : Busy(u)' => u = s
    BY <1>1, <1>5, GotoOk DEF Pcs
  <2> QED
    BY <2>1 DEF Busy, Plain, At, Taken
<1>18. ASSUME GotoSeeing(s, "updated", status')
       PROVE  /\ handler'[s].pc = "updated" /\ handler'[s].task = handler[s].task
              /\ \A u \in Slots \ {s} : ~Busy(u)' /\ Plain(u)'
  <2>1. /\ handler'[s].pc = "updated" /\ handler'[s].task = handler[s].task
        /\ \A u \in Slots : Busy(u)' => u = s
    BY <1>1, <1>18, SeeingOk DEF Pcs
  <2> QED
    BY <2>1 DEF Busy, Plain, At, Taken
<1>6. CASE MoveUploadedPdf(s)
  <2>1. /\ letter.kind = "uploaded" /\ UNCHANGED Row /\ Done(s)
        /\ pdf' = (pdf \ {"transient"}) \cup {"live"}
    BY <1>1, <1>6 DEF MoveUploadedPdf, Move, At, Taken, HandlerOk
  <2> QED
    BY <1>1, <1>4, <2>1
       DEF PlacesOk, TemplatedOk, UploadedOk, PrecompiledOk, MovedOk, Plain, Row
<1>7. CASE UpdateValidationFailed(s)
  <2>1. /\ letter.kind = "templated" /\ UNCHANGED <<units, pdf>> /\ Done(s)
        /\ status' = "validation-failed"
    BY <1>1, <1>7 DEF UpdateValidationFailed, Write, At, Taken, HandlerOk, Fits
  <2> QED
    BY <1>1, <1>2, <1>4, <2>1, StatusFacts
       DEF PlacesOk, TemplatedOk, UploadedOk, PrecompiledOk, MovedOk, Plain, Stored
\* The rest is about precompiled letters.
<1>8. ASSUME letter.kind = "precompiled", OriginalOk', VerdictOk', status' # Absent,
             \A u \in Slots : MoverOk(u)'
      PROVE  PlacesOk'
  BY <1>1, <1>8 DEF PlacesOk, TemplatedOk, UploadedOk, PrecompiledOk, MovedOk
<1>9. letter.kind = "precompiled" => OriginalOk /\ VerdictOk /\ MoverOk(s)
  BY DEF PlacesOk, PrecompiledOk
<1>10. ASSUME \A u \in Slots : ~Busy(u)' /\ Plain(u)' PROVE \A u \in Slots : MoverOk(u)'
  BY <1>10 DEF MoverOk, Plain, At, Taken
<1>11. CASE MoveInvalidLetter(s)
  <2>1. /\ status = "pending-virus-check" /\ At(s, "process_sanitised", "read") /\ ~letter.fit
    BY <1>1, <1>11 DEF MoveInvalidLetter, StillPending, Invalid, At, Taken, HandlerOk
  <2>2. letter.kind = "precompiled"
    BY <2>1 DEF PlacesOk
  <2>3. CASE letter.kind = "precompiled"
    <3>1. /\ handler[s].pc = "read" /\ handler[s].task = "process_sanitised"
          /\ "sanitise" \notin pdf
      BY <1>9, <2>1, <2>3 DEF At, Taken, OriginalOk
    <3>2. CASE Move("scan", "invalid") /\ Goto(s, "invalid_moved") /\ UNCHANGED Row
      <4>1. pdf = {"scan"}
        BY <1>3, <1>9, <2>3, <3>1, <3>2 DEF OriginalOk, Move, At, Taken, Busy
      <4>2. pdf' = {"invalid"}
        BY <3>2, <4>1 DEF Move
      <4>3. /\ handler'[s].pc = "invalid_moved" /\ handler'[s].task = "process_sanitised"
            /\ \A u \in Slots \ {s} : ~Busy(u)' /\ Plain(u)'
        BY <1>5, <3>1, <3>2
      <4>4. OriginalOk' /\ VerdictOk'
        BY <2>1, <3>2, <4>2, <4>3 DEF OriginalOk, VerdictOk, Row
      <4>5. \A u \in Slots : MoverOk(u)'
        BY <4>2, <4>3 DEF MoverOk, At, Taken, Plain
      <4> QED
        BY <1>1, <1>8, <2>3, <3>2, <4>4, <4>5 DEF Row
    <3>3. CASE /\ Done(s) /\ UNCHANGED pdf /\ UpdateStatusById(s, "technical-failure")
      <4>1. UNCHANGED units /\ status' \in {status, "technical-failure"}
        BY <3>3 DEF UpdateStatusById, Write, Row
      <4>2. Plain(s) /\ Plain(s)'
        BY <1>4, <3>1, <3>3 DEF Plain, At, Taken
      <4> QED
        BY <1>1, <3>3, <4>1, <4>2, StepRowOnly
    <3> QED
      BY <1>11, <3>2, <3>3 DEF MoveInvalidLetter
  <2> QED
    BY <2>2, <2>3
<1>12. CASE MarkInvalid(s)
  <2>1. /\ handler[s].pc = "invalid_moved" /\ status' = "validation-failed" /\ UNCHANGED pdf
        /\ Done(s)
    BY <1>12 DEF MarkInvalid, UpdateLetterPdfStatus, At, Taken
  <2>2. letter.kind = "precompiled"
    BY <2>1 DEF PlacesOk, MovedOk
  <2>3. pdf = {"invalid"}
    BY <1>9, <2>1, <2>2 DEF MoverOk
  <2>4. OriginalOk' /\ VerdictOk'
    BY <2>1, <2>3, StatusFacts DEF OriginalOk, VerdictOk
  <2> QED
    BY <1>4, <1>8, <1>10, <2>1, <2>2, <2>4, StatusFacts
<1>13. CASE MarkSanitised(s)
  <2>1. /\ status = "pending-virus-check" /\ UNCHANGED pdf
        /\ GotoSeeing(s, "updated", status')
        /\ status' = (IF letter.test THEN "delivered" ELSE "created")
        /\ handler[s].pc = "read" /\ handler[s].task = "process_sanitised" /\ units'
    BY <1>1, <1>13 DEF MarkSanitised, StillPending, UpdateLetterPdfStatus, At, Taken,
       HandlerOk
  <2>2. /\ handler'[s].pc = "updated" /\ handler'[s].task = "process_sanitised"
        /\ \A u \in Slots \ {s} : ~Busy(u)' /\ Plain(u)'
    BY <1>18, <2>1
  <2>3. letter.kind = "precompiled"
    BY <2>1 DEF PlacesOk
  <2>4. OriginalOk'
    BY <1>1, <1>3, <1>9, <2>1, <2>3 DEF OriginalOk, At, Taken, Busy
  <2>5. VerdictOk'
    BY <2>1, <2>2 DEF VerdictOk, At, Taken
  <2>6. \A u \in Slots : MoverOk(u)'
    BY <2>1, <2>2 DEF MoverOk, At, Taken, Plain
  <2> QED
    BY <1>8, <2>1, <2>3, <2>4, <2>5, <2>6, StatusFacts
<1>14. CASE MoveSanitised(s)
  <2>1. handler[s].pc = "updated" /\ handler[s].task = "process_sanitised"
    BY <1>14 DEF MoveSanitised, At, Taken
  <2>2. letter.kind = "precompiled" /\ status \in {"created", "delivered"}
    BY <1>9, <2>1 DEF PlacesOk, MovedOk, MoverOk, At, Taken
  <2>3. OriginalOk /\ VerdictOk /\ \A u \in Slots : ~At(u, "process_sanitised", "moved")
    BY <1>3, <1>9, <2>1, <2>2 DEF At, Taken, Busy
  <2>4. ASSUME NEW to \in {"test", "live"}, Move("sanitise", to), Goto(s, "moved"),
               UNCHANGED Row, ~letter.test => to = "live"
        PROVE  PlacesOk'
    <3>1. /\ handler'[s].pc = "moved" /\ handler'[s].task = "process_sanitised"
          /\ \A u \in Slots \ {s} : ~Busy(u)' /\ Plain(u)'
      BY <1>5, <2>1, <2>4
    <3>2. OriginalOk'
      <4>1. "error" \notin pdf
        BY <1>1, <2>1 DEF HandlerOk, At, Taken
      <4>2. At(s, "process_sanitised", "moved")'
        BY <3>1 DEF At, Taken
      <4> QED
        BY <1>1, <2>3, <2>4, <4>1, <4>2 DEF OriginalOk, Move
    <3>3. VerdictOk'
      BY <1>1, <2>2, <2>4 DEF VerdictOk, Move, Row
    <3>4. \A u \in Slots : MoverOk(u)'
      BY <2>2, <2>4, <3>1 DEF MoverOk, At, Taken, Plain, Row
    <3> QED
      BY <1>1, <1>8, <2>2, <2>4, <3>2, <3>3, <3>4 DEF Row
  <2>5. CASE /\ "sanitise" \notin pdf /\ Done(s) /\ UNCHANGED pdf
             /\ UpdateStatusById(s, "technical-failure")
    <3>0. handler[s].seen = status
      BY <1>1, <2>1 DEF HandlerOk, At, Taken
    <3>1. status' \in {"technical-failure", "delivered"} /\ units' = units
      BY <2>2, <2>5, <3>0 DEF UpdateStatusById, Write, Row, UpdatableStatuses
    <3>2. OriginalOk' /\ VerdictOk'
      BY <1>1, <2>3, <2>5, <3>1 DEF OriginalOk, VerdictOk
    <3> QED
      BY <1>4, <1>8, <1>10, <2>2, <2>5, <3>1, <3>2, StatusFacts
  <2> QED
    BY <1>14, <2>4, <2>5 DEF MoveSanitised
<1>15. CASE DeleteOriginal(s)
  <2>1. /\ handler[s].pc = "moved" /\ handler[s].task = "process_sanitised"
        /\ pdf' = pdf \ {"scan"} /\ UNCHANGED Row /\ Done(s)
    BY <1>15 DEF DeleteOriginal, At, Taken
  <2>2. letter.kind = "precompiled" /\ status \in {"created", "delivered"}
    BY <1>9, <2>1 DEF PlacesOk, MovedOk, MoverOk, At, Taken
  <2>3. OriginalOk'
    BY <1>1, <1>9, <2>1, <2>2 DEF OriginalOk
  <2>4. VerdictOk'
    BY <1>1, <1>3, <1>9, <2>1, <2>2 DEF VerdictOk, At, Taken, Busy, Row
  <2> QED
    BY <1>1, <1>4, <1>8, <1>10, <2>1, <2>2, <2>3, <2>4 DEF Row
<1>16. ASSUME NEW t \in {"virus_found", "scan_error"}, NEW f \in {"failure", "error"},
              MoveFailedPdf(s, t, f), f = "error" => t = "scan_error",
              t = "virus_found" => f = "failure"
       PROVE  PlacesOk'
  <2>1. handler[s].pc = "read" /\ handler[s].task = t /\ UNCHANGED <<Row, queue>>
    BY <1>16 DEF MoveFailedPdf, At, Taken
  <2>2. CASE Move("scan", f) /\ Goto(s, "failed_moved")
    <3>1. letter.kind = "precompiled"
      BY <2>2 DEF Sound, FilesOk, Move
    <3>2. pdf \subseteq {"scan", "sanitise"} /\ "scan" \in pdf
      BY <1>3, <1>9, <2>1, <2>2, <3>1 DEF OriginalOk, Move, At, Taken, Busy
    <3>3. pdf' = (pdf \ {"scan"}) \cup {f}
      BY <2>2 DEF Move
    <3>4. /\ handler'[s].pc = "failed_moved" /\ handler'[s].task = t
          /\ \A u \in Slots \ {s} : ~Busy(u)' /\ Plain(u)'
      BY <1>5, <2>1, <2>2
    <3>5. OriginalOk'
      BY <1>1, <1>9, <3>1, <3>2, <3>3 DEF OriginalOk
    <3>6. status \notin {"virus-scan-failed", "validation-failed"}
      BY <1>9, <3>1, <3>2 DEF VerdictOk
    <3>7. ~(status = "created" /\ ~letter.test)
      BY <1>3, <1>9, <2>1, <3>1, <3>2 DEF VerdictOk, At, Taken, Busy
    <3>8. VerdictOk'
      BY <1>1, <2>1, <3>4, <3>6, <3>7 DEF VerdictOk, Row
    <3>9. \A u \in Slots : MoverOk(u)'
      BY <1>16, <3>2, <3>3, <3>4 DEF MoverOk, At, Taken, Plain
    <3> QED
      BY <1>1, <1>8, <2>1, <3>1, <3>5, <3>8, <3>9 DEF Row
  <2>3. CASE "scan" \notin pdf /\ Done(s) /\ UNCHANGED pdf
    <3>1. Plain(s) /\ Plain(s)'
      BY <1>4, <2>1, <2>3 DEF Plain, At, Taken
    <3> QED
      BY <1>1, <2>1, <2>3, <3>1, StepRowOnly DEF Row
  <2> QED
    BY <1>16, <2>2, <2>3 DEF MoveFailedPdf
<1>17. ASSUME NEW t \in {"virus_found", "scan_error"},
              NEW new \in {"virus-scan-failed", "technical-failure"}, MarkFailed(s, t, new),
              new = "virus-scan-failed" => t = "virus_found"
       PROVE  PlacesOk'
  <2>1. /\ handler[s].pc = "failed_moved" /\ handler[s].task = t /\ status' = new
        /\ UNCHANGED pdf /\ Done(s)
    BY <1>17 DEF MarkFailed, UpdateLetterPdfStatus, At, Taken
  <2>2. letter.kind = "precompiled"
    BY <2>1 DEF PlacesOk, MovedOk
  <2>3. new = "virus-scan-failed" => pdf \ {"sanitise"} = {"failure"}
    BY <1>9, <1>17, <2>1, <2>2 DEF MoverOk, At, Taken
  <2>4. ~({"scan", "live"} \subseteq pdf) /\ OriginalOk'
    BY <1>1, <1>3, <1>9, <2>1, <2>2, OneHandler DEF OriginalOk, Sound, At, Taken, Busy
  <2>5. VerdictOk'
    BY <2>1, <2>3 DEF VerdictOk
  <2> QED
    BY <1>4, <1>8, <1>10, <2>1, <2>2, <2>4, <2>5, StatusFacts
<1> QED
  BY <1>6, <1>7, <1>11, <1>12, <1>13, <1>14, <1>15, <1>16, <1>17

-----------------------------------------------------------------------------
(* Where the file is: every step.                                          *)

LEMMA BeginPlaces ==
  ASSUME LettersAssumption, Typed, Sound, PlacesOk, Quiet',
         NEW s \in Slots, NEW m \in Messages, Begin(s, m)
  PROVE  PlacesOk'
<1>1. /\ \A u \in Slots : ~Busy(u)
      /\ handler'[s].pc = "read"
      /\ \A u \in Slots \ {s} : handler'[u] = handler[u]
      /\ UNCHANGED <<letter, Row, pdf>> /\ status # Absent
  BY BeginFacts
<1>2. Plain(s) /\ Plain(s)'
  BY <1>1 DEF Plain, Busy, At, Taken
<1>3. Outstanding({"billable_units"})' => Outstanding({"billable_units"})
  BY BeginOut, TaskNames
<1> QED
  BY <1>1, <1>2, <1>3, RowOnly DEF Row

LEMMA ReplayErrorPlaces ==
  ASSUME LettersAssumption, Typed, Sound, PlacesOk, ReplayLetterInError
  PROVE  PlacesOk'
<1>1. /\ UNCHANGED <<letter, Row, handler>> /\ Send("antivirus")
      /\ "error" \in pdf /\ pdf' = (pdf \ {"error"}) \cup {"scan"}
  BY DEF ReplayLetterInError, Move
<1>2. letter.kind = "precompiled" /\ status # Absent
  BY <1>1 DEF Sound, FilesOk
<1>3. /\ pdf \subseteq {"error", "sanitise"}
      /\ OriginalOk /\ VerdictOk /\ \A u \in Slots : MoverOk(u)
  BY <1>1, <1>2 DEF PlacesOk, PrecompiledOk, OriginalOk
<1>4. OriginalOk'
  BY <1>1, <1>3 DEF OriginalOk
<1>5. VerdictOk'
  BY <1>1, <1>3 DEF VerdictOk, At, Taken, Row
<1>6. \A u \in Slots : MoverOk(u)'
  BY <1>1, <1>3 DEF MoverOk, At, Taken, Row
<1>7. \A u \in Slots : MovedOk(u)'
  BY <1>1 DEF PlacesOk, MovedOk, At, Taken
<1> QED
  BY <1>1, <1>2, <1>4, <1>5, <1>6, <1>7
     DEF PlacesOk, TemplatedOk, UploadedOk, PrecompiledOk, Row

LEMMA StepPlaces ==
  ASSUME LettersAssumption, Typed, Sound, PlacesOk, NEW s \in Slots, Step(s)
  PROVE  PlacesOk'
BY RowStepPlaces, MovePlaces DEF Step

LEMMA NextPlaces ==
  ASSUME LettersAssumption, Typed, Sound, PlacesOk, Quiet', [Next]_vars
  PROVE  PlacesOk'
<1>1. CASE UNCHANGED vars
  BY <1>1 DEF vars, PlacesOk, TemplatedOk, UploadedOk, PrecompiledOk, MovedOk, MoverOk,
     OriginalOk, VerdictOk, Stored, Outstanding, Queued, Busy, At, Taken, Row, Outside
<1>2. CASE Faults
  <2>1. \A s \in Slots : ~Crash(s)
    BY DEF Crash, Fault, Quiet
  <2> QED
    BY <1>2, <2>1, ReplayErrorPlaces, OutsidePlaces DEF Faults
<1>3. CASE OtherApps \/ Scheduled \/ DvlaPrints \/ ReturnLetter
  BY <1>3, PreviewPlaces, OutsidePlaces DEF OtherApps
<1> QED
  BY <1>1, <1>2, <1>3, RequestPlaces, StepPlaces, BeginPlaces DEF Next

-----------------------------------------------------------------------------
(* Types of the other variables.                                           *)

RowTyped == {units, touched, despatch, ticket} \subseteq BOOLEAN

LetterTyped ==
  /\ letter.kind \in Kinds \cup {"none"}
  /\ {letter.test, letter.fit} \subseteq BOOLEAN

OutsideTyped ==
  /\ dvla \in {"none", "accepted", "despatched", "rejected"}
  /\ rescans \in 0..MaxRescans /\ faults \subseteq FaultKinds

QueueTyped == queue \in [Messages -> 0..MaxCopies]

LEMMA PutBounds ==
  ASSUME LettersAssumption, NEW q \in [Messages -> 0..MaxCopies], NEW t, NEW k,
         <<t, k>> \in Messages
  PROVE  Put(q, t, k) \in [Messages -> 0..MaxCopies]
BY DEF Put, LettersAssumption

LEMMA TakeBounds ==
  ASSUME LettersAssumption, NEW q \in [Messages -> 0..MaxCopies], NEW m \in Messages,
         q[m] > 0
  PROVE  Take(q, m) \in [Messages -> 0..MaxCopies]
BY DEF Take, LettersAssumption

LEMMA SendBounds ==
  ASSUME LettersAssumption, QueueTyped, NEW t \in ApiTasks \cup ExternalTasks, Send(t)
  PROVE  QueueTyped'
BY PutBounds, TaskMessages DEF Send, QueueTyped

LEMMA PassBounds ==
  ASSUME LettersAssumption, QueueTyped, NEW m \in Messages, queue[m] > 0,
         NEW t \in ApiTasks \cup ExternalTasks
  PROVE  /\ Take(queue, m) \in [Messages -> 0..MaxCopies]
         /\ Put(Take(queue, m), t, 0) \in [Messages -> 0..MaxCopies]
<1> DEFINE rest == Take(queue, m)
<1>1. rest \in [Messages -> 0..MaxCopies]
  BY TakeBounds DEF QueueTyped
<1>2. <<t, 0>> \in Messages
  BY TaskMessages
<1> HIDE DEF rest
<1>3. Put(rest, t, 0) \in [Messages -> 0..MaxCopies]
  BY <1>1, <1>2, PutBounds
<1> QED
  BY <1>1, <1>3 DEF rest

LEMMA RetryBounds ==
  ASSUME LettersAssumption, Typed, QueueTyped, NEW s \in Slots, NEW t \in ApiTasks,
         RetryOrGiveUp(s, t)
  PROVE  QueueTyped'
<1>1. handler[s].tries \in 0..MaxRetries /\ MaxRetries \in Nat
  BY DEF Typed, Handler, LettersAssumption
<1>2. CASE handler[s].tries < MaxRetries
  <2>1. <<t, handler[s].tries + 1>> \in Messages
    BY <1>1, <1>2 DEF Messages
  <2> QED
    BY <1>2, <2>1, PutBounds DEF RetryOrGiveUp, QueueTyped
<1>3. CASE ~(handler[s].tries < MaxRetries)
  BY <1>3 DEF RetryOrGiveUp, QueueTyped
<1> QED
  BY <1>2, <1>3

LEMMA QueueTypedHolds ==
  ASSUME LettersAssumption, Typed, QueueTyped, [Next]_vars
  PROVE  QueueTyped'
<1>1. queue' = queue => QueueTyped'
  BY DEF QueueTyped
<1>2. CASE PostLetter
  <2>1. Put(queue, "get_pdf", 0) \in [Messages -> 0..MaxCopies]
    BY TaskMessages, TaskNames, PutBounds DEF QueueTyped
  <2>2. Put(Put(queue, "get_pdf", 0), "letter_callback", 0) \in [Messages -> 0..MaxCopies]
    BY <2>1, TaskMessages, TaskNames, PutBounds
  <2> QED
    BY <1>1, <1>2, <2>1, <2>2 DEF PostLetter, QueueTyped
<1>3. CASE Requests /\ ~PostLetter
  <2>1. Send("antivirus") \/ queue' = queue
    BY <1>3 DEF Requests, PostPrecompiledLetter, CancelLetterJob, SendUploadedLetter,
       CancelLetter
  <2> QED
    BY <1>1, <2>1, SendBounds, TaskNames
<1>4. ASSUME NEW s \in Slots, NEW m \in Messages, Begin(s, m) PROVE QueueTyped'
  BY <1>4, TakeBounds DEF Begin, QueueTyped
<1>5. ASSUME NEW s \in Slots, Step(s) PROVE QueueTyped'
  <2>1. CASE GetPdf(s) \/ SanitiseLetter(s) \/ ProcessSanitisedFails(s) \/ SendLetterRetry(s)
    <3>1. \/ \E t \in ApiTasks : RetryOrGiveUp(s, t)
          \/ \E t \in ExternalTasks : Send(t)
          \/ queue' = queue
      BY <2>1, TaskNames DEF GetPdf, SanitiseLetter, ProcessSanitisedFails, SendLetterRetry
    <3> QED
      BY <1>1, <3>1, RetryBounds, SendBounds
  <2>2. CASE ~(GetPdf(s) \/ SanitiseLetter(s) \/ ProcessSanitisedFails(s) \/ SendLetterRetry(s))
    <3>1. queue' = queue
      BY <1>5, <2>2 DEF Step, MoveUploadedPdf, WriteCancelled, UpdateBillableUnits,
         UpdateValidationFailed, ProcessSanitisedAgain,
         MoveInvalidLetter, MarkInvalid, MarkSanitised, MoveSanitised, DeleteOriginal,
         MoveFailedPdf, MarkFailed, NotDeliverable, PdfNotFound, SendLetter,
         SendLetterFails, MarkSending, MarkSendingFails, LetterCallback, RecordDespatch
    <3> QED
      BY <1>1, <3>1
  <2> QED
    BY <2>1, <2>2
<1>6. CASE Faults
  <2>1. ASSUME NEW m \in Messages, Redeliver(m) PROVE QueueTyped'
    <3>1. m = <<m[1], m[2]>>
      BY DEF Messages
    <3> QED
      BY <2>1, <3>1, PutBounds DEF Redeliver, QueueTyped
  <2>2. ASSUME NEW m \in Messages, Lose(m) PROVE QueueTyped'
    BY <2>2, TakeBounds DEF Lose, QueueTyped
  <2>3. ReplayLetterInError => Send("antivirus")
    BY DEF ReplayLetterInError
  <2>4. \A s \in Slots : Crash(s) => queue' = queue
    BY DEF Crash
  <2> QED
    BY <1>1, <1>6, <2>1, <2>2, <2>3, <2>4, SendBounds, TaskNames DEF Faults
<1>7. CASE OtherApps
  <2>1. PICK m \in Messages :
          /\ queue[m] > 0
          /\ \/ queue' = Take(queue, m)
             \/ \E t \in ApiTasks : queue' = Put(Take(queue, m), t, 0)
    BY <1>7, TaskNames DEF OtherApps, CreatePdf, ScanFile, SanitisePdf
  <2> QED
    BY <2>1, PassBounds, TaskNames DEF QueueTyped
<1>8. CASE Scheduled \/ DvlaPrints \/ ReturnLetter
  <2>1. queue' = queue \/ \E t \in ApiTasks \cup ExternalTasks : Send(t)
    BY <1>8, TaskNames DEF Scheduled, Collate, ReplayCreatedLetter, CheckPendingVirusCheck,
       DvlaPrints, ReturnLetter
  <2> QED
    BY <1>1, <2>1, SendBounds
<1> QED
  BY <1>1, <1>2, <1>3, <1>4, <1>5, <1>6, <1>7, <1>8 DEF Next, vars

LEMMA FaultKept ==
  ASSUME faults \subseteq FaultKinds
  PROVE  /\ \A k : Fault(k) => faults' \subseteq FaultKinds
         /\ Alone => faults' \subseteq FaultKinds
         /\ \A tasks : InTime(tasks) => faults' \subseteq FaultKinds
BY DEF Fault, Alone, InTime

LEMMA LetterTypedHolds ==
  ASSUME LettersAssumption, LetterTyped, [Next]_vars
  PROVE  LetterTyped'
<1>1. ASSUME NEW kind, NEW test \in BOOLEAN, Order(kind, test) PROVE LetterTyped'
  BY <1>1 DEF Order, LetterTyped
<1>2. CASE UNCHANGED letter
  BY <1>2 DEF LetterTyped
<1>3. Requests =>
        UNCHANGED letter \/ \E kind \in {"templated", "precompiled", "uploaded"} :
                              \E test \in BOOLEAN : Order(kind, test)
  BY DEF Requests, PostLetter, PostPrecompiledLetter, SendUploadedLetter, CancelLetterJob,
     CancelLetter
<1>4. ASSUME NEW s \in Slots, Step(s) PROVE UNCHANGED letter
  BY <1>4 DEF Step, MoveUploadedPdf, WriteCancelled, GetPdf, UpdateBillableUnits,
     UpdateValidationFailed, SanitiseLetter, ProcessSanitisedAgain,
     ProcessSanitisedFails, MoveInvalidLetter, MarkInvalid, MarkSanitised,
     MoveSanitised, DeleteOriginal, MoveFailedPdf, MarkFailed, NotDeliverable,
     PdfNotFound, SendLetter, SendLetterRetry, SendLetterFails, MarkSending,
     MarkSendingFails, LetterCallback,
     RecordDespatch
<1>5. Faults \/ OtherApps \/ Scheduled \/ DvlaPrints \/ ReturnLetter => UNCHANGED letter
  BY DEF Faults, ReplayLetterInError, Crash, Redeliver, Lose, OtherApps, CreatePdf,
     ScanFile, SanitisePdf, Scheduled, Collate, ReplayCreatedLetter,
     CheckPendingVirusCheck, DvlaPrints, ReturnLetter
<1>6. \A s \in Slots, m \in Messages : Begin(s, m) => UNCHANGED letter
  BY DEF Begin
<1> QED
  BY <1>1, <1>2, <1>3, <1>4, <1>5, <1>6 DEF Next, vars

LEMMA RowTypedHolds ==
  ASSUME LettersAssumption, RowTyped, [Next]_vars
  PROVE  RowTyped'
<1>1. CASE UNCHANGED vars
  BY <1>1 DEF vars, RowTyped
<1>2. CASE Requests
  BY <1>2 DEF Requests, PostLetter, PostPrecompiledLetter, SendUploadedLetter,
     CancelLetterJob, CancelLetter, Row, Outside, RowTyped
<1>3. ASSUME NEW s \in Slots, Step(s) PROVE RowTyped'
  <2>1. CASE GetPdf(s) \/ SanitiseLetter(s) \/ ProcessSanitisedFails(s) \/ SendLetterRetry(s)
             \/ WriteCancelled(s) \/ PdfNotFound(s) \/ SendLetterFails(s)
    BY <2>1 DEF GetPdf, SanitiseLetter, ProcessSanitisedFails, SendLetterRetry,
       WriteCancelled, PdfNotFound, SendLetterFails, RetryOrGiveUp, UpdateStatusById, Write,
       Row, Outside, RowTyped
  <2>2. CASE MoveInvalidLetter(s) \/ MarkInvalid(s) \/ MarkSanitised(s) \/ MoveSanitised(s)
             \/ DeleteOriginal(s)
    BY <2>2 DEF MoveInvalidLetter, MarkInvalid, MarkSanitised, MoveSanitised,
       DeleteOriginal, UpdateLetterPdfStatus, UpdateStatusById, Write, Row, Outside,
       RowTyped
  <2>3. ASSUME NEW t, NEW f, MoveFailedPdf(s, t, f) \/ MarkFailed(s, t, f) PROVE RowTyped'
    BY <2>3 DEF MoveFailedPdf, MarkFailed, UpdateLetterPdfStatus, Row, Outside, RowTyped
  <2>4. CASE MoveUploadedPdf(s) \/ UpdateBillableUnits(s) \/ UpdateValidationFailed(s)
             \/ ProcessSanitisedAgain(s) \/ NotDeliverable(s) \/ SendLetter(s)
             \/ MarkSending(s) \/ MarkSendingFails(s) \/ LetterCallback(s)
             \/ RecordDespatch(s)
    BY <2>4 DEF UpdateStatusById, MoveUploadedPdf, UpdateBillableUnits,
       UpdateValidationFailed,
       ProcessSanitisedAgain, NotDeliverable, SendLetter, MarkSending, MarkSendingFails,
       UpdateLetterToSending, LetterCallback, RecordDespatch, Write, Row, Outside, RowTyped
  <2> QED
    BY <1>3, <2>1, <2>2, <2>3, <2>4 DEF Step
<1>4. CASE Faults \/ OtherApps
  BY <1>4 DEF Faults, ReplayLetterInError, Crash, Redeliver, Lose, OtherApps, CreatePdf,
     ScanFile, SanitisePdf, Row, Outside, RowTyped
<1>5. CASE Scheduled \/ DvlaPrints \/ ReturnLetter
  BY <1>5 DEF Scheduled, Collate, ReplayCreatedLetter, CheckPendingVirusCheck, DvlaPrints,
     ReturnLetter, Row, Outside, RowTyped
<1>6. ASSUME NEW s \in Slots, NEW m \in Messages, Begin(s, m) PROVE RowTyped'
  BY <1>6 DEF Begin, Row, Outside, RowTyped
<1> QED
  BY <1>1, <1>2, <1>3, <1>4, <1>5, <1>6 DEF Next

LEMMA PdfTypedHolds ==
  ASSUME LettersAssumption, pdf \subseteq Places, [Next]_vars
  PROVE  pdf' \subseteq Places
<1>1. ASSUME NEW s \in Slots, Step(s) PROVE pdf' \subseteq Places
  BY <1>1 DEF Step, MoveUploadedPdf, WriteCancelled, GetPdf, UpdateBillableUnits,
     UpdateValidationFailed, SanitiseLetter, ProcessSanitisedAgain,
     ProcessSanitisedFails, MoveInvalidLetter, MarkInvalid, MarkSanitised,
     MoveSanitised, DeleteOriginal, MoveFailedPdf, MarkFailed, NotDeliverable,
     PdfNotFound, SendLetter, SendLetterRetry, SendLetterFails, MarkSending,
     MarkSendingFails, LetterCallback,
     RecordDespatch, Move, Places
<1>2. Requests => pdf' \subseteq Places
  BY DEF Requests, PostLetter, PostPrecompiledLetter, SendUploadedLetter,
     CancelLetterJob, CancelLetter, Places
<1>3. Faults \/ OtherApps => pdf' \subseteq Places
  BY DEF Faults, ReplayLetterInError, Crash, Redeliver, Lose, OtherApps, CreatePdf,
     ScanFile, SanitisePdf, Move, Places
<1>4. Scheduled \/ DvlaPrints \/ ReturnLetter => pdf' \subseteq Places
  BY DEF Scheduled, Collate, ReplayCreatedLetter, CheckPendingVirusCheck, DvlaPrints,
     ReturnLetter
<1>5. \A s \in Slots, m \in Messages : Begin(s, m) => pdf' = pdf
  BY DEF Begin
<1> QED
  BY <1>1, <1>2, <1>3, <1>4, <1>5 DEF Next, vars

LEMMA OutsideTypedHolds ==
  ASSUME LettersAssumption, OutsideTyped, [Next]_vars
  PROVE  OutsideTyped'
<1>1. UNCHANGED <<dvla, rescans>> /\ faults' \subseteq FaultKinds => OutsideTyped'
  BY DEF OutsideTyped
<1>2. /\ faults' = faults => faults' \subseteq FaultKinds
      /\ \A k : Fault(k) => faults' \subseteq FaultKinds
      /\ Alone => faults' \subseteq FaultKinds
      /\ \A tasks : InTime(tasks) => faults' \subseteq FaultKinds
  BY FaultKept DEF OutsideTyped
<1>3. ASSUME NEW s \in Slots, Step(s) PROVE OutsideTyped'
  <2>1. CASE SendLetterRetry(s)
    BY <1>2, <2>1 DEF SendLetterRetry, OutsideTyped
  <2>2. CASE SendLetter(s)
    BY <2>2 DEF SendLetter, OutsideTyped
  <2>4. CASE MarkSendingFails(s)
    BY <1>1, <1>2, <2>4 DEF MarkSendingFails, Outside
  <2>3. CASE ~SendLetterRetry(s) /\ ~SendLetter(s) /\ ~MarkSendingFails(s)
    <3>1. UNCHANGED <<dvla, rescans, faults>>
      BY <1>3, <2>3 DEF Step, MoveUploadedPdf, WriteCancelled, GetPdf, UpdateBillableUnits,
         UpdateValidationFailed, SanitiseLetter, ProcessSanitisedAgain,
         ProcessSanitisedFails, MoveInvalidLetter, MarkInvalid, MarkSanitised,
         MoveSanitised, DeleteOriginal, MoveFailedPdf, MarkFailed, NotDeliverable,
         PdfNotFound, SendLetterFails, MarkSending, LetterCallback,
         RecordDespatch, Outside
    <3> QED
      BY <1>1, <1>2, <3>1
  <2> QED
    BY <2>1, <2>2, <2>3, <2>4
<1>4. Requests => UNCHANGED <<dvla, rescans>> /\ faults' \subseteq FaultKinds
  BY <1>2 DEF Requests, PostLetter, PostPrecompiledLetter, SendUploadedLetter,
     CancelLetterJob, CancelLetter, MayStart, Outside
<1>5. Faults \/ OtherApps => UNCHANGED <<dvla, rescans>> /\ faults' \subseteq FaultKinds
  BY <1>2 DEF Faults, ReplayLetterInError, Crash, Redeliver, Lose, OtherApps, CreatePdf,
     ScanFile, SanitisePdf, Outside
<1>6. CASE CheckPendingVirusCheck
  <2>1. /\ rescans' = rescans + 1 /\ rescans < MaxRescans /\ dvla' = dvla
        /\ faults' \subseteq FaultKinds
    BY <1>2, <1>6 DEF CheckPendingVirusCheck, PendingVirusCheck
  <2> QED
    BY <2>1 DEF OutsideTyped, LettersAssumption
<1>7. CASE Collate \/ ReplayCreatedLetter \/ DvlaPrints \/ ReturnLetter
  <2>1. /\ rescans' = rescans /\ faults' \subseteq FaultKinds
        /\ dvla' \in {dvla, "despatched", "rejected"}
    BY <1>2, <1>7 DEF Collate, ReplayCreatedLetter, DvlaPrints, ReturnLetter, Outside
  <2> QED
    BY <2>1 DEF OutsideTyped
<1>8. \A s \in Slots, m \in Messages : Begin(s, m) =>
        UNCHANGED <<dvla, rescans>> /\ faults' \subseteq FaultKinds
  BY <1>2 DEF Begin, MayStart, Outside
<1> QED
  BY <1>1, <1>2, <1>3, <1>4, <1>5, <1>6, <1>7, <1>8 DEF Next, Scheduled, vars

LetterTypes ==
  /\ Typed /\ LetterTyped /\ RowTyped /\ QueueTyped /\ OutsideTyped
  /\ pdf \subseteq Places

LEMMA TypesMeet == LetterTypes => TypeOK
BY DEF LetterTypes, Typed, LetterTyped, RowTyped, QueueTyped, OutsideTyped, TypeOK, Status

LEMMA InitTypes == LettersAssumption /\ Init => LetterTypes
<1> SUFFICES ASSUME LettersAssumption, Init PROVE LetterTypes
  OBVIOUS
<1>1. Typed
  BY InitRefusal DEF RefusalInv
<1>2. QueueTyped
  BY DEF Init, QueueTyped, LettersAssumption
<1>3. LetterTyped
  BY DEF Init, NoLetter, LetterTyped
<1>4. RowTyped
  BY DEF Init, RowTyped
<1>5. OutsideTyped /\ pdf \subseteq Places
  <2>1. rescans = 0 /\ MaxRescans \in Nat /\ dvla = "none" /\ faults = {} /\ pdf = {}
    BY DEF Init, LettersAssumption
  <2> QED
    BY <2>1 DEF OutsideTyped
<1> QED
  BY <1>1, <1>2, <1>3, <1>4, <1>5 DEF LetterTypes

LEMMA NextTypes ==
  ASSUME LettersAssumption, LetterTypes, [Next]_vars
  PROVE  LetterTypes'
BY TypedHolds, LetterTypedHolds, RowTypedHolds, QueueTypedHolds, OutsideTypedHolds,
   PdfTypedHolds DEF LetterTypes

-----------------------------------------------------------------------------
(* The row and the file agree.                                             *)

PlaceInv == LetterTypes /\ (Quiet => Sound /\ PlacesOk)

LEMMA InitPlaces == LettersAssumption /\ Init => PlaceInv
<1> SUFFICES ASSUME LettersAssumption, Init PROVE PlaceInv
  OBVIOUS
<1>1. LetterTypes /\ (Quiet => Sound)
  BY InitTypes, InitRefusal DEF RefusalInv
<1>2. PlacesOk
  <2>1. \A u \in Slots : handler[u].pc = "idle"
    BY Idle DEF Init
  <2>2. ~Outstanding({"billable_units"})
    BY <2>1 DEF Init, Outstanding, Queued, Busy
  <2> QED
    BY <2>1, <2>2 DEF Init, NoLetter, PlacesOk, TemplatedOk, UploadedOk, PrecompiledOk,
       MovedOk, At, Taken, Absent
<1> QED
  BY <1>1, <1>2 DEF PlaceInv

LEMMA NextPlace ==
  ASSUME LettersAssumption, PlaceInv, [Next]_vars
  PROVE  PlaceInv'
<1>1. LetterTypes' /\ Typed
  BY NextTypes DEF PlaceInv, LetterTypes
<1>2. ASSUME Quiet' PROVE Sound' /\ PlacesOk'
  <2>1. Sound /\ PlacesOk /\ RefusalInv
    BY <1>1, <1>2, QuietBefore DEF PlaceInv, RefusalInv
  <2>2. Sound'
    BY <1>2, <2>1, NextRefusal DEF RefusalInv
  <2> QED
    BY <1>1, <1>2, <2>1, <2>2, NextPlaces
<1> QED
  BY <1>1, <1>2 DEF PlaceInv

LEMMA PlacesMeet == PlaceInv => LetterInv
<1> SUFFICES ASSUME PlaceInv PROVE LetterInv
  OBVIOUS
<1>1. TypeOK
  BY TypesMeet DEF PlaceInv
<1>2. ASSUME Calm({"overlap", "worker"})
      PROVE  /\ ToBePrinted => "live" \in pdf
             /\ status = "pending-virus-check" => "scan" \in pdf
             /\ status = "virus-scan-failed" => pdf \ {"sanitise"} = {"failure"}
             /\ status = "validation-failed" /\ letter.kind = "precompiled"
                  => pdf = {"invalid"}
  <2>1. PlacesOk /\ \A u \in Slots : handler[u].pc = "idle"
    BY <1>2 DEF Calm, PlaceInv, Quiet, Working
  <2>2. letter.kind = "precompiled" => VerdictOk
    BY <2>1 DEF PlacesOk, PrecompiledOk
  <2>3. CASE ToBePrinted
    <3>1. status = "created" /\ ~letter.test /\ units
      BY <2>3 DEF ToBePrinted
    <3>2. letter.kind \in {"templated", "precompiled", "uploaded"}
      BY <2>1, <3>1, StatusFacts DEF PlacesOk
    <3> QED
      BY <2>1, <2>2, <3>1, <3>2
         DEF PlacesOk, TemplatedOk, UploadedOk, VerdictOk, Stored, At, Taken
  <2> QED
    BY <2>1, <2>2, <2>3 DEF PlacesOk, VerdictOk
<1> QED
  BY <1>1, <1>2 DEF LetterInv, FileMatchesStatus

\* A letter's row and its file in S3 agree whenever no handler is at work: a letter
\* to be printed is in the bucket it is sent from, one to be scanned in the scan
\* bucket, a refused one where refused letters go, for any number of handlers,
\* retries, copies of messages and faults other than overlaps and dying workers.
THEOREM FileAgrees == Spec => []LetterInv
<1>1. Init => PlaceInv
  BY LettersAssumption, InitPlaces
<1>2. PlaceInv /\ [Next]_vars => PlaceInv'
  BY LettersAssumption, NextPlace
<1> QED
  BY <1>1, <1>2, PlacesMeet, PTL DEF Spec

-----------------------------------------------------------------------------
(* The printer's answers.                                                  *)

\* What leaves the printer alone, and makes no letter delivered.
LEMMA AnswerKept ==
  ASSUME CallbackOk, UNCHANGED <<letter, dvla, despatch>>,
         Outstanding({"letter_callback"})' => Outstanding({"letter_callback"}),
         status' = status \/ status' \notin {"delivered", "returned-letter"},
         \A u \in Slots : At(u, "letter_callback", "updated") =>
                          At(u, "letter_callback", "updated")'
  PROVE  CallbackOk'
BY DEF CallbackOk

\* A new letter: nothing was queued for it, and no handler is at work.
LEMMA AbsentFacts ==
  ASSUME Sound, status = Absent
  PROVE  /\ \A u \in Slots : ~Busy(u)
         /\ \A m \in Messages : ~(queue[m] > 0)
         /\ pdf = {} /\ dvla = "none"
BY DEF Sound, HandlersOk, HandlerOk, Busy, QueueOk, FilesOk, PrinterOk

LEMMA PostedQueue ==
  ASSUME LettersAssumption, Typed, Sound, PostLetter
  PROVE  /\ status = Absent /\ letter'.kind = "templated" /\ letter'.test \in BOOLEAN
         /\ UNCHANGED <<units, pdf, handler, Outside>>
         /\ status' \in {"sending", "delivered", "created"}
         /\ letter'.test <=> status' # "created"
         /\ \A m \in Messages : queue'[m] > 0 =>
              \/ m = <<"get_pdf", 0>>
              \/ m = <<"letter_callback", 0>> /\ letter'.test
         /\ queue' \in {queue, Put(queue, "get_pdf", 0),
                        Put(Put(queue, "get_pdf", 0), "letter_callback", 0)}
<1>1. PICK test \in BOOLEAN :
        /\ Order("templated", test)
        /\ status' \in (IF test THEN {"sending", "delivered"} ELSE {"created"})
        /\ \/ queue' = (IF status' = "sending"
                       THEN Put(Put(queue, "get_pdf", 0), "letter_callback", 0)
                       ELSE Put(queue, "get_pdf", 0))
           \/ UNCHANGED queue
  BY DEF PostLetter
<1>2. status = Absent /\ letter'.kind = "templated" /\ letter'.test = test
  BY <1>1 DEF Order
<1>3. UNCHANGED <<units, pdf, handler, Outside>>
  BY DEF PostLetter
<1>4. \A m \in Messages : ~(queue[m] > 0)
  BY <1>2, AbsentFacts
<1>5. Put(queue, "get_pdf", 0) \in [Messages -> Nat] /\ <<"get_pdf", 0>> \in Messages
      /\ <<"letter_callback", 0>> \in Messages
  BY TaskMessages, TaskNames, PutType DEF Typed
<1>6. \A m \in Messages : Put(queue, "get_pdf", 0)[m] > 0 => m = <<"get_pdf", 0>>
  BY <1>4, <1>5, PutType DEF Typed
<1>7. \A m \in Messages : Put(Put(queue, "get_pdf", 0), "letter_callback", 0)[m] > 0
        => m = <<"get_pdf", 0>> \/ m = <<"letter_callback", 0>>
  BY <1>5, <1>6, PutType
<1>8. letter'.test <=> status' # "created"
  BY <1>1, <1>2
<1>9. \A m \in Messages : queue'[m] > 0 =>
              \/ m = <<"get_pdf", 0>>
              \/ m = <<"letter_callback", 0>> /\ letter'.test
  BY <1>1, <1>2, <1>4, <1>6, <1>7
<1> QED
  BY <1>1, <1>2, <1>3, <1>8, <1>9

LEMMA RequestAnswer ==
  ASSUME LettersAssumption, Typed, Sound, CallbackOk, Quiet', Requests
  PROVE  CallbackOk'
<1>1. CASE PostLetter
  <2>1. /\ status = Absent /\ UNCHANGED <<handler, dvla>>
        /\ \A m \in Messages : queue'[m] > 0 /\ ~letter'.test => m = <<"get_pdf", 0>>
    BY <1>1, PostedQueue DEF Outside
  <2>2. /\ \A u \in Slots : ~Busy(u)
        /\ dvla' = "none"
    BY <2>1, AbsentFacts
  <2>3. ~letter'.test => ~Outstanding({"letter_callback"})'
    BY <2>1, <2>2 DEF Outstanding, Queued, Busy
  <2> QED
    BY <2>2, <2>3 DEF CallbackOk
<1>2. CASE PostPrecompiledLetter
  <2>1. /\ status = Absent /\ UNCHANGED <<handler, dvla>>
        /\ Send("antivirus") \/ UNCHANGED queue
    BY <1>2 DEF PostPrecompiledLetter, Order, Outside
  <2>2. /\ \A u \in Slots : ~Busy(u)
        /\ \A m \in Messages : ~(queue[m] > 0)
        /\ dvla' = "none"
    BY <2>1, AbsentFacts
  <2>3. \A m \in Messages : queue'[m] > 0 => m[1] = "antivirus"
    BY <2>1, <2>2, SendQueues, TaskNames
  <2>4. ~Outstanding({"letter_callback"})'
    BY <2>1, <2>2, <2>3 DEF Outstanding, Queued, Busy
  <2> QED
    BY <2>2, <2>4 DEF CallbackOk
<1>3. CASE CancelLetterJob
  <2>1. /\ UNCHANGED <<letter, dvla, despatch, queue, handler>> /\ status' = "cancelled"
    BY <1>3 DEF CancelLetterJob, Outside
  <2>2. Outstanding({"letter_callback"})' => Outstanding({"letter_callback"})
    BY <2>1 DEF Outstanding, Queued, Busy
  <2> QED
    BY <2>1, <2>2, AnswerKept DEF At, Taken
<1>4. ASSUME NEW s \in Slots, SendUploadedLetter(s) PROVE CallbackOk'
  <2> DEFINE h == [IdleHandler EXCEPT !.task = "upload", !.pc = "persisted"]
  <2>1. /\ status = Absent /\ UNCHANGED <<queue, dvla>>
        /\ handler' = [handler EXCEPT ![s] = h]
    BY <1>4 DEF SendUploadedLetter, Order, Outside
  <2>2. h.task = "upload" /\ h.pc = "persisted"
    BY DEF IdleHandler
  <2> HIDE DEF h
  <2>3. /\ \A u \in Slots : ~Busy(u)
        /\ \A m \in Messages : ~(queue[m] > 0)
        /\ dvla' = "none"
    BY <2>1, AbsentFacts
  <2>4. handler'[s] = h /\ \A u \in Slots \ {s} : handler'[u] = handler[u]
    BY <2>1 DEF Typed
  <2>5. ~Outstanding({"letter_callback"})'
    BY <2>1, <2>2, <2>3, <2>4 DEF Outstanding, Queued, Busy
  <2> QED
    BY <2>3, <2>5 DEF CallbackOk
<1>5. ASSUME NEW s \in Slots, CancelLetter(s) PROVE CallbackOk'
  <2> DEFINE h == [task |-> "cancel", pc |-> "read", tries |-> 0, seen |-> status]
  <2>1. /\ UNCHANGED <<letter, status, dvla, despatch, queue>>
        /\ \A u \in Slots : handler[u].pc = "idle"
        /\ handler' = [handler EXCEPT ![s] = h]
    BY <1>5, AloneIdle DEF CancelLetter, Row, Outside
  <2>2. h.task = "cancel" /\ h.pc = "read"
    OBVIOUS
  <2> HIDE DEF h
  <2>3. handler'[s] = h /\ \A u \in Slots \ {s} : handler'[u] = handler[u]
    BY <2>1 DEF Typed
  <2>4. Outstanding({"letter_callback"})' => Outstanding({"letter_callback"})
    BY <2>1, <2>2, <2>3 DEF Outstanding, Queued, Busy
  <2> QED
    BY <2>1, <2>2, <2>3, <2>4, AnswerKept DEF At, Taken
<1> QED
  BY <1>1, <1>2, <1>3, <1>4, <1>5 DEF Requests

LEMMA StepAnswer ==
  ASSUME LettersAssumption, Typed, Sound, CallbackOk, NEW s \in Slots, Step(s)
  PROVE  CallbackOk'
<1>1. /\ Busy(s) /\ HandlerOk(s) /\ \A u \in Slots : Busy(u) => u = s
      /\ Outstanding({"letter_callback"})' => Outstanding({"letter_callback"})
  BY StepTasks, StepOut, TaskNames DEF HandlerOk
<1>2. CASE MarkSanitised(s)
  <2>1. /\ status = "pending-virus-check" /\ UNCHANGED <<letter, dvla>>
    BY <1>1, <1>2 DEF MarkSanitised, StillPending, At, Taken, HandlerOk, Outside
  <2>2. dvla' = "none"
    BY <2>1 DEF Sound, PrinterOk
  <2> QED
    BY <1>1, <2>1, <2>2 DEF CallbackOk
<1>3. CASE LetterCallback(s)
  <2>1. /\ At(s, "letter_callback", "read") /\ UNCHANGED <<letter, dvla, despatch>>
        /\ \/ status' = status /\ Done(s)
           \/ status' = "technical-failure"
           \/ status' = "delivered" /\ Goto(s, "updated")
    BY <1>3 DEF LetterCallback, Write, Row, Outside
  <2>2. Outstanding({"letter_callback"})
    BY <1>1, <2>1 DEF Outstanding, At, Taken
  <2>3. dvla # "accepted"
    BY <2>2 DEF CallbackOk
  <2>4. Goto(s, "updated") => At(s, "letter_callback", "updated")'
    BY <1>1, <2>1, GotoOk DEF At, Taken, Pcs
  <2>5. ~\E u \in Slots : At(u, "letter_callback", "updated")
    BY <1>1, <2>1 DEF At, Taken, Busy
  <2> QED
    BY <1>1, <2>1, <2>3, <2>4, <2>5 DEF CallbackOk
<1>4. CASE RecordDespatch(s)
  <2>1. UNCHANGED <<letter, status, dvla>> /\ despatch' = TRUE
    BY <1>4 DEF RecordDespatch, Row
  <2> QED
    BY <1>1, <2>1 DEF CallbackOk
<1>5. CASE SendLetter(s) \/ SendLetterRetry(s)
  <2>1. /\ Deliverable(s) /\ letter' = letter /\ dvla' \in {dvla, "accepted"}
        /\ dvla' = "accepted" => dvla \in {"none", "accepted"}
        /\ status' \in {status, "technical-failure"}
    BY <1>5 DEF SendLetter, SendLetterRetry, RetryOrGiveUp, UpdateStatusById, Write, Row,
       Outside
  <2>2. status = "created" /\ ~letter.test
    BY <1>1, <2>1 DEF Deliverable, Sendable, At, Taken, HandlerOk
  <2> QED
    BY <1>1, <2>1, <2>2 DEF CallbackOk
<1>6. CASE ~MarkSanitised(s) /\ ~LetterCallback(s) /\ ~RecordDespatch(s) /\ ~SendLetter(s)
           /\ ~SendLetterRetry(s)
  <2>1. UNCHANGED <<letter, dvla, despatch>>
    BY <1>6 DEF Step, MoveUploadedPdf, WriteCancelled, GetPdf, UpdateBillableUnits,
       UpdateValidationFailed, SanitiseLetter, ProcessSanitisedAgain,
       ProcessSanitisedFails, MoveInvalidLetter, MarkInvalid,
       MoveSanitised, DeleteOriginal, MoveFailedPdf, MarkFailed, NotDeliverable,
       PdfNotFound, SendLetterFails, MarkSending, MarkSendingFails, Outside
  <2>2. status' = status \/ status' \notin {"delivered", "returned-letter"}
    BY <1>6 DEF Step, MoveUploadedPdf, WriteCancelled, GetPdf, UpdateBillableUnits,
       UpdateValidationFailed, SanitiseLetter, ProcessSanitisedAgain,
       ProcessSanitisedFails, MoveInvalidLetter, MarkInvalid,
       MoveSanitised, DeleteOriginal, MoveFailedPdf, MarkFailed, NotDeliverable,
       PdfNotFound, SendLetterFails, MarkSending, MarkSendingFails, UpdateLetterToSending,
       UpdateLetterPdfStatus, UpdateStatusById, RetryOrGiveUp, Write, Row
  <2>3. ~At(s, "letter_callback", "updated")
    BY <1>6 DEF Step, MoveUploadedPdf, WriteCancelled, GetPdf, UpdateBillableUnits,
       UpdateValidationFailed, SanitiseLetter, ProcessSanitisedAgain,
       ProcessSanitisedFails, MoveInvalidLetter, MarkInvalid,
       MoveSanitised, DeleteOriginal, MoveFailedPdf, MarkFailed, NotDeliverable,
       PdfNotFound, SendLetterFails, MarkSending, MarkSendingFails, Deliverable, At, Taken
  <2>4. \A u \in Slots : ~At(u, "letter_callback", "updated")
    BY <1>1, <2>3 DEF At, Taken, Busy
  <2> QED
    BY <1>1, <2>1, <2>2, <2>4, AnswerKept
<1> QED
  BY <1>2, <1>3, <1>4, <1>5, <1>6

LEMMA OutsideAnswer ==
  ASSUME LettersAssumption, Typed, Sound, CallbackOk, Quiet',
         OtherApps \/ Scheduled \/ DvlaPrints \/ ReturnLetter \/ Faults
  PROVE  CallbackOk'
<1>1. \A s \in Slots : ~Crash(s)
  BY DEF Crash, Fault, Quiet
<1>2. UNCHANGED <<letter, handler, despatch>>
  BY <1>1 DEF OtherApps, CreatePdf, ScanFile, SanitisePdf, Scheduled, Collate,
     ReplayCreatedLetter, CheckPendingVirusCheck, DvlaPrints, ReturnLetter, Faults,
     ReplayLetterInError, Redeliver, Lose, Outside
<1>3. ASSUME ~DvlaPrints, ~ReturnLetter PROVE UNCHANGED <<status, dvla>>
  BY <1>1, <1>3 DEF OtherApps, CreatePdf, ScanFile, SanitisePdf, Scheduled, Collate,
     ReplayCreatedLetter, CheckPendingVirusCheck, Faults,
     ReplayLetterInError, Redeliver, Lose, Row, Outside
<1>4. ASSUME UNCHANGED <<status, dvla>>, NEW T, "letter_callback" \notin T,
             \A m \in Messages : queue'[m] > 0 => queue[m] > 0 \/ m[1] \in T
      PROVE  CallbackOk'
  <2>1. Outstanding({"letter_callback"})' => Outstanding({"letter_callback"})
    BY <1>2, <1>4, QueueOut
  <2> QED
    BY <1>2, <1>4, <2>1, AnswerKept DEF At, Taken
<1>5. CASE OtherApps
  <2>1. PICK m \in Messages :
          /\ queue[m] > 0
          /\ \/ queue' = Take(queue, m)
             \/ \E t \in {"billable_units", "too_long", "virus_found", "sanitise_letter",
                          "scan_error", "process_sanitised"} :
                  queue' = Put(Take(queue, m), t, 0)
    BY <1>5 DEF OtherApps, CreatePdf, ScanFile, SanitisePdf
  <2>2. \A n \in Messages : queue'[n] > 0 => queue[n] > 0 \/
          n[1] \in {"billable_units", "too_long", "virus_found", "sanitise_letter",
                    "scan_error", "process_sanitised"}
    BY <2>1, TakeQueues, PassQueues, TaskNames
  <2>3. UNCHANGED <<status, dvla>>
    BY <1>5 DEF OtherApps, CreatePdf, ScanFile, SanitisePdf, Row, Outside
  <2> QED
    BY <1>4, <2>2, <2>3
<1>6. CASE Scheduled
  <2>1. PICK t \in {"deliver_letter", "get_pdf", "antivirus"} : Send(t) \/ queue' = queue
    BY <1>6 DEF Scheduled, Collate, ReplayCreatedLetter, CheckPendingVirusCheck
  <2>2. \A n \in Messages : queue'[n] > 0 => queue[n] > 0 \/ n[1] \in {t}
    BY <2>1, SendQueues, TaskNames
  <2>3. UNCHANGED <<status, dvla>>
    BY <1>6 DEF Scheduled, Collate, ReplayCreatedLetter, CheckPendingVirusCheck, Row,
       Outside
  <2> QED
    BY <1>4, <2>2, <2>3
<1>7. CASE DvlaPrints
  <2>1. /\ UNCHANGED status /\ dvla = "accepted" /\ dvla' \in {"despatched", "rejected"}
    BY <1>7 DEF DvlaPrints, Row
  <2> QED
    BY <1>2, <2>1 DEF CallbackOk
<1>8. CASE ReturnLetter
  <2>1. /\ UNCHANGED <<queue, dvla>> /\ dvla = "despatched" /\ status' = "returned-letter"
    BY <1>8 DEF ReturnLetter, Outside
  <2> QED
    BY <1>2, <2>1 DEF CallbackOk
<1>9. CASE Faults
  <2>1. \/ Send("antivirus")
        \/ \E m \in Messages : Redeliver(m) \/ Lose(m)
    BY <1>1, <1>9 DEF Faults, ReplayLetterInError
  <2>2. ASSUME NEW m \in Messages, Redeliver(m) \/ Lose(m)
        PROVE  \A n \in Messages : queue'[n] > 0 => queue[n] > 0
    <3>1. m = <<m[1], m[2]>> /\ queue[m] > 0
      BY <2>2 DEF Messages, Redeliver, Lose
    <3> QED
      BY <2>2, <3>1, PutType, TakeQueues DEF Redeliver, Lose, Typed
  <2>3. \A n \in Messages : queue'[n] > 0 => queue[n] > 0 \/ n[1] \in {"antivirus"}
    BY <2>1, <2>2, SendQueues, TaskNames
  <2>4. UNCHANGED <<status, dvla>>
    BY <1>1, <1>9 DEF Faults, ReplayLetterInError, Redeliver, Lose, Row, Outside
  <2> QED
    BY <1>4, <2>3, <2>4
<1> QED
  BY <1>5, <1>6, <1>7, <1>8, <1>9

LEMMA BeginAnswer ==
  ASSUME LettersAssumption, Typed, Sound, CallbackOk, Quiet',
         NEW s \in Slots, NEW m \in Messages, Begin(s, m)
  PROVE  CallbackOk'
<1>1. /\ \A u \in Slots : ~Busy(u)
      /\ UNCHANGED <<letter, status, dvla, despatch>>
  BY BeginFacts DEF Row, Outside
<1>2. Outstanding({"letter_callback"})' => Outstanding({"letter_callback"})
  BY BeginOut, TaskNames
<1> QED
  BY <1>1, <1>2, AnswerKept DEF At, Taken, Busy

LEMMA NextAnswer ==
  ASSUME LettersAssumption, Typed, Sound, CallbackOk, Quiet', [Next]_vars
  PROVE  CallbackOk'
<1>1. CASE UNCHANGED vars
  BY <1>1 DEF vars, CallbackOk, Outstanding, Queued, Busy, At, Taken
<1> QED
  BY <1>1, RequestAnswer, StepAnswer, OutsideAnswer, BeginAnswer DEF Next

AnswerInv == Typed /\ (Quiet => Sound /\ CallbackOk)

LEMMA InitAnswer == LettersAssumption /\ Init => AnswerInv
<1> SUFFICES ASSUME LettersAssumption, Init PROVE AnswerInv
  OBVIOUS
<1>1. Typed /\ (Quiet => Sound)
  BY InitRefusal DEF RefusalInv
<1>2. CallbackOk
  <2>1. \A u \in Slots : handler[u].pc = "idle"
    BY Idle DEF Init
  <2>2. ~Outstanding({"letter_callback"})
    BY <2>1 DEF Init, Outstanding, Queued, Busy
  <2> QED
    BY <2>2 DEF Init, CallbackOk
<1> QED
  BY <1>1, <1>2 DEF AnswerInv

LEMMA NextAnswerInv ==
  ASSUME LettersAssumption, AnswerInv, [Next]_vars
  PROVE  AnswerInv'
<1>1. Typed'
  BY TypedHolds DEF AnswerInv
<1>2. ASSUME Quiet' PROVE Sound' /\ CallbackOk'
  <2>1. Sound /\ CallbackOk /\ RefusalInv
    BY <1>2, QuietBefore DEF AnswerInv, RefusalInv
  <2>2. Sound'
    BY <1>2, <2>1, NextRefusal DEF RefusalInv
  <2> QED
    BY <1>2, <2>1, <2>2, NextAnswer DEF AnswerInv
<1> QED
  BY <1>1, <1>2 DEF AnswerInv

LEMMA AnswersMeet == AnswerInv => DespatchRecorded
<1> SUFFICES ASSUME AnswerInv, Calm({"overlap", "worker"}), dvla = "despatched",
                    status = "delivered"
             PROVE  despatch
  BY DEF DespatchRecorded
<1>1. CallbackOk /\ \A u \in Slots : handler[u].pc = "idle"
  BY DEF AnswerInv, Calm, Quiet, Working
<1> QED
  BY <1>1 DEF CallbackOk, At, Taken

\* A letter that the printer despatched and whose callback was played is recorded
\* in notifications_letter_despatch, whatever else is retried, lost or doubled.
THEOREM DespatchKept == Spec => []DespatchRecorded
<1>1. Init => AnswerInv
  BY LettersAssumption, InitAnswer
<1>2. AnswerInv /\ [Next]_vars => AnswerInv'
  BY LettersAssumption, NextAnswerInv
<1> QED
  BY <1>1, <1>2, AnswersMeet, PTL DEF Spec

-----------------------------------------------------------------------------
(* One task at a time makes the PDF of a templated letter.                 *)

\* A step queues or takes messages of these tasks only.
OnlyTasks(T) == \A m \in Messages : m[1] \notin T => queue'[m] = queue[m]

LEMMA PutElse ==
  ASSUME LettersAssumption, NEW q \in [Messages -> Nat], NEW t, NEW k, <<t, k>> \in Messages
  PROVE  /\ \A m \in Messages : m # <<t, k>> => Put(q, t, k)[m] = q[m]
         /\ q[<<t, k>>] = 0 => Put(q, t, k)[<<t, k>>] = 1
         /\ Put(q, t, k)[<<t, k>>] > 0
BY DEF Put, LettersAssumption

LEMMA TakeElse ==
  ASSUME NEW q \in [Messages -> Nat], NEW n \in Messages, q[n] > 0
  PROVE  /\ \A m \in Messages : m # n => Take(q, n)[m] = q[m]
         /\ Take(q, n)[n] = q[n] - 1
BY DEF Take

LEMMA SendOnly ==
  ASSUME LettersAssumption, Typed, NEW t \in ApiTasks \cup ExternalTasks, Send(t)
  PROVE  OnlyTasks({t})
<1>1. <<t, 0>> \in Messages /\ queue \in [Messages -> Nat]
  BY TaskMessages DEF Typed
<1>2. \A m \in Messages : m # <<t, 0>> => queue'[m] = queue[m]
  BY <1>1, PutElse DEF Send
<1> QED
  BY <1>2 DEF OnlyTasks

LEMMA TakeOnly ==
  ASSUME Typed, NEW m \in Messages, queue[m] > 0, queue' = Take(queue, m)
  PROVE  OnlyTasks({m[1]})
BY TakeElse DEF Typed, OnlyTasks

LEMMA PassOnly ==
  ASSUME LettersAssumption, Typed, NEW m \in Messages, queue[m] > 0,
         NEW t \in ApiTasks \cup ExternalTasks, queue' = Put(Take(queue, m), t, 0)
  PROVE  OnlyTasks({m[1], t})
<1> DEFINE rest == Take(queue, m)
<1>1. /\ rest \in [Messages -> Nat]
      /\ \A n \in Messages : n # m => rest[n] = queue[n]
  BY TakeType, TakeElse DEF Typed
<1>2. queue' = Put(rest, t, 0) /\ <<t, 0>> \in Messages
  BY TaskMessages
<1> HIDE DEF rest
<1>3. \A n \in Messages : n # <<t, 0>> => queue'[n] = rest[n]
  BY <1>1, <1>2, PutElse
<1> QED
  BY <1>1, <1>3 DEF OnlyTasks

LEMMA RetryOnly ==
  ASSUME LettersAssumption, Typed, NEW s \in Slots, NEW t \in ApiTasks, RetryOrGiveUp(s, t)
  PROVE  OnlyTasks({t})
<1>1. handler[s].tries \in 0..MaxRetries /\ MaxRetries \in Nat
  BY DEF Typed, Handler, LettersAssumption
<1>2. CASE handler[s].tries < MaxRetries
  <2>1. <<t, handler[s].tries + 1>> \in Messages
    BY <1>1, <1>2 DEF Messages
  <2> QED
    BY <1>2, <2>1, PutElse DEF RetryOrGiveUp, Typed, OnlyTasks
<1>3. CASE ~(handler[s].tries < MaxRetries)
  BY <1>3 DEF RetryOrGiveUp, OnlyTasks
<1> QED
  BY <1>2, <1>3

\* What a step of a handler does to the queue.
LEMMA StepOnly ==
  ASSUME LettersAssumption, Typed, NEW s \in Slots, Step(s)
  PROVE  /\ OnlyTasks({handler[s].task, "create_pdf", "sanitise_pdf"})
         /\ GetPdf(s) \/ OnlyTasks({"sanitise_pdf", "sanitise_letter", "process_sanitised",
                                    "deliver_letter"})
<1>1. queue' = queue => \A T : OnlyTasks(T)
  BY DEF OnlyTasks
<1>2. CASE GetPdf(s)
  <2>1. handler[s].task = "get_pdf" /\ (Send("create_pdf") \/ RetryOrGiveUp(s, "get_pdf"))
    BY <1>2 DEF GetPdf, At, Taken
  <2>2. OnlyTasks({"create_pdf"}) \/ OnlyTasks({"get_pdf"})
    BY <2>1, SendOnly, RetryOnly, TaskNames
  <2> QED
    BY <1>2, <2>1, <2>2 DEF OnlyTasks
<1>3. CASE SanitiseLetter(s)
  <2>1. /\ handler[s].task = "sanitise_letter"
        /\ Send("sanitise_pdf") \/ RetryOrGiveUp(s, "sanitise_letter") \/ queue' = queue
    BY <1>3 DEF SanitiseLetter, At, Taken
  <2>2. OnlyTasks({"sanitise_pdf"}) \/ OnlyTasks({"sanitise_letter"})
    BY <1>1, <2>1, SendOnly, RetryOnly, TaskNames
  <2> QED
    BY <2>1, <2>2 DEF OnlyTasks
<1>4. CASE ProcessSanitisedFails(s)
  <2>1. handler[s].task = "process_sanitised" /\ RetryOrGiveUp(s, "process_sanitised")
    BY <1>4 DEF ProcessSanitisedFails, At, Taken
  <2>2. OnlyTasks({"process_sanitised"})
    BY <2>1, RetryOnly, TaskNames
  <2> QED
    BY <2>1, <2>2 DEF OnlyTasks
<1>5. CASE SendLetterRetry(s)
  <2>1. handler[s].task = "deliver_letter" /\ RetryOrGiveUp(s, "deliver_letter")
    BY <1>5 DEF SendLetterRetry, Deliverable, At, Taken
  <2>2. OnlyTasks({"deliver_letter"})
    BY <2>1, RetryOnly, TaskNames
  <2> QED
    BY <2>1, <2>2 DEF OnlyTasks
<1>6. CASE ~(GetPdf(s) \/ SanitiseLetter(s) \/ ProcessSanitisedFails(s) \/ SendLetterRetry(s))
  <2>1. queue' = queue
    BY <1>6 DEF Step, MoveUploadedPdf, WriteCancelled, UpdateBillableUnits,
       UpdateValidationFailed, ProcessSanitisedAgain,
       MoveInvalidLetter, MarkInvalid, MarkSanitised, MoveSanitised, DeleteOriginal,
       MoveFailedPdf, MarkFailed, NotDeliverable, PdfNotFound, SendLetter,
       SendLetterFails, MarkSending, MarkSendingFails, LetterCallback, RecordDespatch
  <2> QED
    BY <1>1, <2>1
<1> QED
  BY <1>2, <1>3, <1>4, <1>5, <1>6

\* The queue of one or no task of the chain.
LEMMA NoneIsOne ==
  ASSUME NEW q \in [Messages -> Nat], NoChain(q)
  PROVE  OneChain(q)
<1>1. \A m \in Messages : m[1] \in Chain => q[m] = 0
  BY DEF NoChain
<1> QED
  BY <1>1 DEF OneChain

LEMMA PutChain ==
  ASSUME LettersAssumption, NEW q \in [Messages -> Nat], NoChain(q), NEW t, NEW k,
         <<t, k>> \in Messages
  PROVE  /\ OneChain(Put(q, t, k))
         /\ t \notin Chain => NoChain(Put(q, t, k))
<1>1. \A m \in Messages : m[1] \in Chain => q[m] = 0
  BY DEF NoChain
<1>2. /\ \A m \in Messages : m # <<t, k>> => Put(q, t, k)[m] = q[m]
      /\ q[<<t, k>>] = 0 => Put(q, t, k)[<<t, k>>] = 1
  BY PutElse
<1>3. \A m \in Messages : m[1] \in Chain =>
        IF m = <<t, k>> THEN Put(q, t, k)[m] = 1 ELSE Put(q, t, k)[m] = 0
  BY <1>1, <1>2
<1>4. OneChain(Put(q, t, k))
  BY <1>3 DEF OneChain
<1>5. t \notin Chain => NoChain(Put(q, t, k))
  BY <1>3 DEF NoChain
<1> QED
  BY <1>4, <1>5

LEMMA TakeChain ==
  ASSUME NEW q \in [Messages -> Nat], OneChain(q), NEW n \in Messages, q[n] > 0
  PROVE  /\ OneChain(Take(q, n))
         /\ n[1] \in Chain => NoChain(Take(q, n))
<1>1. /\ \A m \in Messages : m # n => Take(q, n)[m] = q[m]
      /\ Take(q, n)[n] = q[n] - 1
  BY TakeElse
<1>2. OneChain(Take(q, n))
  <2>1. \A m \in Messages : Take(q, n)[m] <= q[m] /\ (Take(q, n)[m] > 0 => q[m] > 0)
    BY <1>1
  <2>2. Take(q, n) \in [Messages -> Nat]
    BY TakeType
  <2> QED
    BY <2>1, <2>2 DEF OneChain
<1>3. ASSUME n[1] \in Chain, NEW m \in Messages, m[1] \in Chain
      PROVE  ~(Take(q, n)[m] > 0)
  <2>1. CASE m = n
    <3>1. q[n] <= 1 /\ q[n] \in Nat
      BY <1>3 DEF OneChain
    <3> QED
      BY <1>1, <2>1, <3>1
  <2>2. CASE m # n
    <3>1. ~(q[m] > 0)
      BY <1>3, <2>2 DEF OneChain
    <3> QED
      BY <1>1, <2>2, <3>1
  <2> QED
    BY <2>1, <2>2
<1> QED
  BY <1>2, <1>3 DEF NoChain

\* What leaves the chain's messages and handlers alone.
LEMMA ChainKept ==
  ASSUME Typed, ChainOk, UNCHANGED letter, NEW T, OnlyTasks(T), T \cap Chain = {},
         \A u \in Slots : Busy(u)' /\ handler'[u].task \in Chain =>
                          Busy(u) /\ handler[u].task \in Chain,
         \/ units' => units
         \/ letter.kind # "templated"
         \/ ~Outstanding(Chain)',
         \/ dvla' # "none" => dvla # "none"
         \/ letter.kind = "templated" => ~Outstanding(Chain)
  PROVE  ChainOk'
<1>1. \A m \in Messages : m[1] \in Chain => queue'[m] = queue[m]
  BY DEF OnlyTasks
<1>2. OneChain(queue)'
  BY <1>1 DEF ChainOk, OneChain
<1>3. NoChain(queue) <=> NoChain(queue)'
  BY <1>1 DEF NoChain
<1>4. Outstanding(Chain)' => Outstanding(Chain)
  BY <1>1 DEF Outstanding, Queued
<1> QED
  BY <1>2, <1>3, <1>4 DEF ChainOk

LEMMA RequestChain ==
  ASSUME LettersAssumption, Typed, Sound, PlacesOk, ChainOk, Quiet', Requests
  PROVE  ChainOk'
<1>1. status = Absent => NoChain(queue)
  BY AbsentFacts DEF NoChain
<1>2. CASE PostLetter
  <2>1. /\ status = Absent /\ UNCHANGED <<handler, dvla, units>>
        /\ queue' \in {queue, Put(queue, "get_pdf", 0),
                       Put(Put(queue, "get_pdf", 0), "letter_callback", 0)}
    BY <1>2, PostedQueue DEF Outside
  <2>2. (\A u \in Slots : ~Busy(u)) /\ dvla = "none" /\ ~units
    BY <2>1, AbsentFacts DEF PlacesOk
  <2>3. <<"get_pdf", 0>> \in Messages /\ <<"letter_callback", 0>> \in Messages
    BY TaskMessages, TaskNames
  <2> DEFINE q == Put(queue, "get_pdf", 0)
  <2>4. q \in [Messages -> Nat] /\ OneChain(q) /\ OneChain(queue)
    BY <1>1, <2>1, <2>3, PutType, PutChain, NoneIsOne DEF Typed
  <2>5. \A m \in Messages : m # <<"letter_callback", 0>> =>
          Put(q, "letter_callback", 0)[m] = q[m]
    BY <2>3, <2>4, PutElse
  <2>6. OneChain(Put(q, "letter_callback", 0))
    BY <2>4, <2>5 DEF OneChain, Chain
  <2>7. OneChain(queue)'
    BY <2>1, <2>4, <2>6
  <2> QED
    BY <2>1, <2>2, <2>7 DEF ChainOk, Busy
<1>3. CASE PostPrecompiledLetter
  <2>1. /\ status = Absent /\ UNCHANGED handler /\ letter'.kind = "precompiled"
        /\ Send("antivirus") \/ UNCHANGED queue
    BY <1>3 DEF PostPrecompiledLetter, Order
  <2>2. OnlyTasks({"antivirus"})
    BY <2>1, SendOnly, TaskNames DEF OnlyTasks
  <2>3. NoChain(queue)'
    BY <1>1, <2>1, <2>2 DEF NoChain, OnlyTasks, Chain
  <2>4. OneChain(queue)'
    BY <2>1, <2>2 DEF ChainOk, OneChain, OnlyTasks, Chain
  <2> QED
    BY <2>1, <2>3, <2>4 DEF ChainOk
<1>4. CASE CancelLetterJob
  <2>1. /\ UNCHANGED <<letter, dvla, queue, handler>> /\ units' = FALSE
    BY <1>4 DEF CancelLetterJob, Outside
  <2>2. OnlyTasks({})
    BY <2>1 DEF OnlyTasks
  <2>3. (units' => units) /\ (dvla' # "none" => dvla # "none")
    BY <2>1
  <2>4. \A u \in Slots : Busy(u)' /\ handler'[u].task \in Chain =>
                          Busy(u) /\ handler[u].task \in Chain
    BY <2>1 DEF Busy
  <2> QED
    BY <2>1, <2>2, <2>3, <2>4, ChainKept
<1>5. ASSUME NEW s \in Slots, SendUploadedLetter(s) PROVE ChainOk'
  <2> DEFINE h == [IdleHandler EXCEPT !.task = "upload", !.pc = "persisted"]
  <2>1. /\ status = Absent /\ UNCHANGED <<queue, dvla>> /\ letter'.kind = "uploaded"
        /\ handler' = [handler EXCEPT ![s] = h]
    BY <1>5 DEF SendUploadedLetter, Order, Outside
  <2>2. h.task = "upload" /\ h.pc = "persisted"
    BY DEF IdleHandler
  <2> HIDE DEF h
  <2>3. handler'[s] = h /\ \A u \in Slots \ {s} : handler'[u] = handler[u]
    BY <2>1 DEF Typed
  <2>4. \A u \in Slots : Busy(u)' => handler'[u].task = "upload"
    BY <2>1, <2>2, <2>3, AbsentFacts DEF Busy
  <2> QED
    BY <2>1, <2>4 DEF ChainOk, OneChain, Chain
<1>6. ASSUME NEW s \in Slots, CancelLetter(s) PROVE ChainOk'
  <2> DEFINE h == [task |-> "cancel", pc |-> "read", tries |-> 0, seen |-> status]
  <2>1. /\ UNCHANGED <<letter, units, dvla, queue>>
        /\ handler' = [handler EXCEPT ![s] = h]
    BY <1>6 DEF CancelLetter, Row, Outside
  <2>2. h.task = "cancel" /\ h.pc = "read"
    OBVIOUS
  <2> HIDE DEF h
  <2>3. handler'[s] = h /\ \A u \in Slots \ {s} : handler'[u] = handler[u]
    BY <2>1 DEF Typed
  <2>4. OnlyTasks({})
    BY <2>1 DEF OnlyTasks
  <2>5. \A u \in Slots : Busy(u)' /\ handler'[u].task \in Chain =>
                          Busy(u) /\ handler[u].task \in Chain
    BY <2>2, <2>3 DEF Busy, Chain
  <2> QED
    BY <2>1, <2>4, <2>5, ChainKept
<1> QED
  BY <1>2, <1>3, <1>4, <1>5, <1>6 DEF Requests

LEMMA BeginChain ==
  ASSUME LettersAssumption, Typed, Sound, ChainOk, Quiet',
         NEW s \in Slots, NEW m \in Messages, Begin(s, m)
  PROVE  ChainOk'
<1>1. /\ \A u \in Slots : ~Busy(u)
      /\ \A u \in Slots : Busy(u)' => u = s
      /\ handler'[s].task = m[1] /\ queue[m] > 0 /\ queue' = Take(queue, m)
      /\ UNCHANGED <<letter, units, dvla>>
  BY BeginFacts DEF Row, Outside
<1>2. CASE m[1] \in Chain
  <2>1. OneChain(queue)' /\ NoChain(queue)'
    BY <1>1, <1>2, TakeChain DEF ChainOk, Typed
  <2>2. Outstanding(Chain)
    BY <1>1, <1>2 DEF Outstanding, Queued
  <2> QED
    BY <1>1, <2>1, <2>2 DEF ChainOk
<1>3. CASE m[1] \notin Chain
  <2>1. OnlyTasks({m[1]})
    BY <1>1, TakeOnly
  <2> QED
    BY <1>1, <1>3, <2>1, ChainKept
<1> QED
  BY <1>2, <1>3

LEMMA StepChain ==
  ASSUME LettersAssumption, Typed, Sound, PlacesOk, ChainOk, PrintOk, NEW s \in Slots,
  Step(s)
  PROVE  ChainOk'
<1>1. /\ Busy(s) /\ HandlerOk(s) /\ \A u \in Slots : Busy(u) => u = s
      /\ \A u \in Slots : Busy(u)' => u = s /\ handler'[u].task = handler[u].task
  BY StepTasks DEF HandlerOk
<1>2. UNCHANGED letter
  BY DEF Step, MoveUploadedPdf, WriteCancelled, GetPdf, UpdateBillableUnits,
     UpdateValidationFailed, SanitiseLetter, ProcessSanitisedAgain,
     ProcessSanitisedFails, MoveInvalidLetter, MarkInvalid, MarkSanitised,
     MoveSanitised, DeleteOriginal, MoveFailedPdf, MarkFailed, NotDeliverable,
     PdfNotFound, SendLetter, SendLetterRetry, SendLetterFails, MarkSending,
     MarkSendingFails, LetterCallback,
     RecordDespatch
<1>3. CASE GetPdf(s)
  <2>1. /\ handler[s].task = "get_pdf" /\ Done(s) /\ UNCHANGED <<units, dvla>>
        /\ Send("create_pdf") \/ RetryOrGiveUp(s, "get_pdf")
    BY <1>3 DEF GetPdf, At, Taken, RetryOrGiveUp, UpdateStatusById, Write, Row, Outside
  <2>2. \A u \in Slots : ~Busy(u)'
    BY <1>1, <2>1, DonePlain
  <2>3. NoChain(queue) /\ Outstanding(Chain)
    BY <1>1, <2>1 DEF ChainOk, Chain, Outstanding
  <2>4. OneChain(queue)'
    <3>1. CASE Send("create_pdf")
      <4>1. <<"create_pdf", 0>> \in Messages
        BY TaskMessages, TaskNames
      <4> QED
        BY <2>3, <3>1, <4>1, PutChain DEF Send, Typed
    <3>2. CASE RetryOrGiveUp(s, "get_pdf")
      <4>1. handler[s].tries \in 0..MaxRetries /\ MaxRetries \in Nat
        BY DEF Typed, Handler, LettersAssumption
      <4>2. CASE handler[s].tries < MaxRetries
        <5>1. <<"get_pdf", handler[s].tries + 1>> \in Messages
          BY <4>1, <4>2, TaskNames DEF Messages
        <5> QED
          BY <2>3, <3>2, <4>2, <5>1, PutChain DEF RetryOrGiveUp, Typed
      <4>3. CASE ~(handler[s].tries < MaxRetries)
        BY <3>2, <4>3 DEF RetryOrGiveUp, ChainOk, OneChain
      <4> QED
        BY <4>2, <4>3
    <3> QED
      BY <2>1, <3>1, <3>2
  <2>5. letter.kind = "templated" => ~units /\ dvla = "none"
    BY <2>3 DEF ChainOk
  <2> QED
    BY <1>2, <2>1, <2>2, <2>4, <2>5, <1>1, <1>3 DEF ChainOk, HandlerOk, Fits
<1>4. CASE ~GetPdf(s)
  <2>1. /\ OnlyTasks({"sanitise_pdf", "sanitise_letter", "process_sanitised",
                      "deliver_letter"})
        /\ {"sanitise_pdf", "sanitise_letter", "process_sanitised", "deliver_letter"}
             \cap Chain = {}
    BY <1>4, StepOnly DEF Chain
  <2>2. \A u \in Slots : Busy(u)' /\ handler'[u].task \in Chain =>
                          Busy(u) /\ handler[u].task \in Chain
    BY <1>1
  <2>3. dvla' # "none" => dvla # "none" \/ SendLetter(s) \/ SendLetterRetry(s)
    BY <1>4 DEF Step, MoveUploadedPdf, WriteCancelled, UpdateBillableUnits,
       UpdateValidationFailed, SanitiseLetter, ProcessSanitisedAgain,
       ProcessSanitisedFails, MoveInvalidLetter, MarkInvalid, MarkSanitised,
       MoveSanitised, DeleteOriginal, MoveFailedPdf, MarkFailed, NotDeliverable,
       PdfNotFound, SendLetterFails, MarkSending, MarkSendingFails, LetterCallback,
       RecordDespatch, Outside
  <2>4. SendLetter(s) \/ SendLetterRetry(s) => status = "created" /\ Outstanding({"deliver_letter"})
    BY <1>1 DEF SendLetter, SendLetterRetry, Deliverable, Sendable, At, Taken, HandlerOk,
       Outstanding
  <2>5. \/ dvla' # "none" => dvla # "none"
        \/ letter.kind = "templated" => ~Outstanding(Chain)
    BY <2>3, <2>4 DEF PrintOk, ChainOk
  <2>6. units' => units \/ UpdateBillableUnits(s) \/ MarkSanitised(s)
    <3>1. CASE MarkInvalid(s) \/ MarkFailed(s, "virus_found", "virus-scan-failed")
               \/ MarkFailed(s, "scan_error", "technical-failure")
      <4>1. units' = FALSE
        BY <3>1 DEF MarkInvalid, MarkFailed, UpdateLetterPdfStatus
      <4> QED
        BY <4>1
    <3>2. CASE /\ ~MarkInvalid(s) /\ ~MarkFailed(s, "virus_found", "virus-scan-failed")
               /\ ~MarkFailed(s, "scan_error", "technical-failure")
      <4>1. units' = units \/ UpdateBillableUnits(s) \/ MarkSanitised(s)
        BY <1>4, <3>2 DEF Step, MoveUploadedPdf, WriteCancelled,
           UpdateValidationFailed, SanitiseLetter, ProcessSanitisedAgain,
           ProcessSanitisedFails, MoveInvalidLetter,
           MoveSanitised, DeleteOriginal, MoveFailedPdf, NotDeliverable,
           PdfNotFound, SendLetter, SendLetterRetry, SendLetterFails, MarkSending,
           MarkSendingFails,
           UpdateLetterToSending, LetterCallback, RecordDespatch, RetryOrGiveUp,
           UpdateStatusById, Write, Row
      <4> QED
        BY <4>1
    <3> QED
      BY <3>1, <3>2
  <2>7. MarkSanitised(s) => letter.kind # "templated"
    <3> SUFFICES ASSUME MarkSanitised(s) PROVE letter.kind # "templated"
      OBVIOUS
    <3>1. status = "pending-virus-check"
      BY <1>1 DEF MarkSanitised, StillPending, At, Taken, HandlerOk
    <3> QED
      BY <3>1 DEF PlacesOk
  <2>8. UpdateBillableUnits(s) => ~Outstanding(Chain)'
    <3> SUFFICES ASSUME UpdateBillableUnits(s) PROVE ~Outstanding(Chain)'
      OBVIOUS
    <3>1. Done(s) /\ handler[s].task \in Chain /\ queue' = queue
      BY DEF UpdateBillableUnits, At, Taken, Chain
    <3>2. \A u \in Slots : ~Busy(u)'
      BY <1>1, <3>1, DonePlain
    <3> QED
      BY <1>1, <3>1, <3>2 DEF ChainOk, Outstanding, Queued, NoChain
  <2> QED
    BY <1>2, <2>1, <2>2, <2>5, <2>6, <2>7, <2>8, ChainKept
<1> QED
  BY <1>3, <1>4

LEMMA OutsideChain ==
  ASSUME LettersAssumption, Typed, Sound, PlacesOk, ChainOk, PrintOk, Orderly',
         OtherApps \/ Scheduled \/ DvlaPrints \/ ReturnLetter \/ Faults
  PROVE  ChainOk'
<1>1. (\A s \in Slots : ~Crash(s)) /\ (\A m \in Messages : ~Redeliver(m))
  BY DEF Crash, Redeliver, Fault, Orderly
<1>2. UNCHANGED <<letter, handler, units>>
  BY <1>1 DEF OtherApps, CreatePdf, ScanFile, SanitisePdf, Scheduled, Collate,
     ReplayCreatedLetter, CheckPendingVirusCheck, DvlaPrints, ReturnLetter, Faults,
     ReplayLetterInError, Lose, Row
<1>3. ASSUME NEW T, OnlyTasks(T), T \cap Chain = {}, dvla' # "none" => dvla # "none"
      PROVE  ChainOk'
  BY <1>2, <1>3, ChainKept DEF Busy
<1>4. CASE CreatePdf
  <2>1. PICK m \in Messages :
          /\ m[1] = "create_pdf" /\ queue[m] > 0
          /\ \/ queue' = Put(Take(queue, m), "billable_units", 0)
             \/ queue' = Put(Take(queue, m), "too_long", 0)
    BY <1>4 DEF CreatePdf
  <2>2. dvla' = dvla /\ m[1] \in Chain
    BY <1>4, <2>1 DEF CreatePdf, Outside, Chain
  <2> DEFINE rest == Take(queue, m)
  <2>3. rest \in [Messages -> Nat] /\ NoChain(rest)
    BY <2>1, <2>2, TakeType, TakeChain DEF ChainOk, Typed
  <2>4. <<"billable_units", 0>> \in Messages /\ <<"too_long", 0>> \in Messages
    BY TaskMessages, TaskNames
  <2>5. \/ queue' = Put(rest, "billable_units", 0)
        \/ queue' = Put(rest, "too_long", 0)
    BY <2>1
  <2>6. OneChain(queue)'
    <3> HIDE DEF rest
    <3> QED
      BY <2>3, <2>4, <2>5, PutChain
  <2>7. Outstanding(Chain) /\ \A u \in Slots : Busy(u) => handler[u].task \notin Chain
    BY <2>1, <2>2 DEF ChainOk, NoChain, Outstanding, Queued
  <2> QED
    BY <1>2, <2>2, <2>6, <2>7 DEF ChainOk, Busy
<1>5. CASE ScanFile \/ SanitisePdf
  <2>1. PICK m \in Messages :
          /\ queue[m] > 0 /\ m[1] \in {"antivirus", "sanitise_pdf"}
          /\ \/ queue' = Take(queue, m)
             \/ \E t \in {"virus_found", "sanitise_letter", "scan_error",
                        "process_sanitised"} :
                  queue' = Put(Take(queue, m), t, 0)
    BY <1>5 DEF ScanFile, SanitisePdf
  <2>2. OnlyTasks({"antivirus", "sanitise_pdf", "virus_found", "sanitise_letter",
                   "scan_error", "process_sanitised"})
    <3>1. OnlyTasks({m[1]}) \/ \E t \in {"virus_found", "sanitise_letter", "scan_error",
                                         "process_sanitised"} : OnlyTasks({m[1], t})
      BY <2>1, TakeOnly, PassOnly, TaskNames
    <3> QED
      BY <2>1, <3>1 DEF OnlyTasks
  <2>3. dvla' = dvla
    BY <1>5 DEF ScanFile, SanitisePdf, Outside
  <2> QED
    BY <1>3, <2>2, <2>3 DEF Chain
<1>6. CASE ReplayCreatedLetter
  <2>1. /\ status = "created" /\ ~units /\ Send("get_pdf") /\ dvla' = dvla
        /\ ~Working /\ ~Queued({"get_pdf", "create_pdf", "billable_units", "too_long"})
    BY <1>6 DEF ReplayCreatedLetter, MissingFromBucket, InTime, Fault, Orderly, Outside
  <2>2. NoChain(queue) /\ \A u \in Slots : ~Busy(u)
    BY <2>1 DEF NoChain, Chain, Queued, Working, Busy
  <2>3. <<"get_pdf", 0>> \in Messages
    BY TaskMessages, TaskNames
  <2>4. OneChain(queue)'
    BY <2>1, <2>2, <2>3, PutChain DEF Send, Typed
  <2>5. dvla = "none"
    BY <2>1, <2>2 DEF PrintOk, At, Taken, Busy
  <2> QED
    BY <1>2, <2>1, <2>2, <2>4, <2>5 DEF ChainOk, Busy
<1>7. CASE Collate \/ CheckPendingVirusCheck
  <2>1. \/ Send("deliver_letter") \/ Send("antivirus") \/ queue' = queue
    BY <1>7 DEF Collate, CheckPendingVirusCheck
  <2>2. OnlyTasks({"deliver_letter", "antivirus"})
    <3>1. OnlyTasks({"deliver_letter"}) \/ OnlyTasks({"antivirus"}) \/ queue' = queue
      BY <2>1, SendOnly, TaskNames
    <3> QED
      BY <3>1 DEF OnlyTasks
  <2>3. dvla' = dvla
    BY <1>7 DEF Collate, CheckPendingVirusCheck, Outside
  <2> QED
    BY <1>3, <2>2, <2>3 DEF Chain
<1>8. CASE DvlaPrints \/ ReturnLetter
  <2>1. /\ Send("letter_callback") \/ queue' = queue
        /\ dvla # "none"
    BY <1>8 DEF DvlaPrints, ReturnLetter
  <2>2. OnlyTasks({"letter_callback"})
    BY <2>1, SendOnly, TaskNames DEF OnlyTasks
  <2> QED
    BY <1>3, <2>1, <2>2 DEF Chain
<1>9. CASE ReplayLetterInError
  <2>1. OnlyTasks({"antivirus"}) /\ dvla' = dvla
    BY <1>9, SendOnly, TaskNames DEF ReplayLetterInError, Outside
  <2> QED
    BY <1>3, <2>1 DEF Chain
<1>10. ASSUME NEW m \in Messages, Lose(m) PROVE ChainOk'
  <2>1. queue[m] > 0 /\ queue' = Take(queue, m) /\ dvla' = dvla
    BY <1>10 DEF Lose, Outside
  <2>2. /\ OneChain(queue)'
        /\ \A n \in Messages : queue'[n] > 0 => queue[n] > 0
    BY <2>1, TakeChain, TakeQueues DEF ChainOk, Typed
  <2>3. NoChain(queue) => NoChain(queue)'
    BY <2>2 DEF NoChain
  <2> QED
    BY <1>2, <2>1, <2>2, <2>3 DEF ChainOk, Outstanding, Queued, Busy
<1> QED
  BY <1>1, <1>4, <1>5, <1>6, <1>7, <1>8, <1>9, <1>10 DEF OtherApps, Scheduled, Faults

LEMMA NextChain ==
  ASSUME LettersAssumption, Typed, Sound, PlacesOk, ChainOk, PrintOk, Orderly', [Next]_vars
  PROVE  ChainOk'
<1>1. Quiet'
  BY DEF Quiet, Orderly
<1>2. CASE UNCHANGED vars
  BY <1>2 DEF vars, ChainOk, OneChain, NoChain, Outstanding, Queued, Busy, Row, Outside
<1> QED
  BY <1>1, <1>2, RequestChain, BeginChain, StepChain, OutsideChain DEF Next

-----------------------------------------------------------------------------
(* The row while nothing is lost between the API and the printer.          *)

\* Steps that change neither the status nor what is printed.
LEMMA PrintKept ==
  ASSUME PrintOk, UNCHANGED <<letter, status, dvla>>,
         units => units' \/ status # "created",
         Outstanding({"deliver_letter"})' => Outstanding({"deliver_letter"}) \/ units',
         Outstanding({"letter_callback"})' => Outstanding({"letter_callback"}),
         \A u \in Slots :
           /\ Taken(u)' <=> Taken(u)
           /\ At(u, "process_sanitised", "updated")' => At(u, "process_sanitised", "updated")
           /\ (Busy(u) /\ handler[u].task = "cancel")' =>
                \/ Busy(u) /\ handler[u].task = "cancel"
                \/ status \in {"created", "pending-virus-check"}
  PROVE  PrintOk'
BY DEF PrintOk

\* Steps after which the letter is settled, or `sending'.
LEMMA PrintSettled ==
  ASSUME PrintOk, UNCHANGED letter,
         status' \notin {"created", "pending-virus-check"},
         status' \in {"technical-failure", "validation-failed", "virus-scan-failed", "cancelled"}
           => dvla' \in {"none", "rejected"},
         status' = "cancelled" => ~(letter.test /\ letter.kind = "templated"),
         Outstanding({"letter_callback"})' => Outstanding({"letter_callback"}),
         \A u \in Slots :
           /\ Taken(u)' => dvla' # "none"
           /\ At(u, "process_sanitised", "updated")' => dvla' = "none"
           /\ (Busy(u) /\ handler[u].task = "cancel")' => FALSE
  PROVE  PrintOk'
BY DEF PrintOk

\* What a step from a cancelled letter may not do.
NotRevived ==
  status = "cancelled" =>
    /\ dvla' \in {"none", "rejected"}
    /\ status' \in {"cancelled", "virus-scan-failed", "technical-failure",
                    "validation-failed"}

LEMMA RequestPrint ==
  ASSUME LettersAssumption, Typed, Sound, PlacesOk, CallbackOk, PrintOk, Quiet', Requests
  PROVE  PrintOk' /\ NotRevived
<1>1. CASE PostLetter
  <2>1. /\ status = Absent /\ letter'.kind = "templated"
        /\ UNCHANGED <<handler, dvla>>
        /\ status' \in {"sending", "delivered", "created"}
        /\ letter'.test <=> status' # "created"
        /\ \A m \in Messages : queue'[m] > 0 => m[1] \in {"get_pdf", "letter_callback"}
    BY <1>1, PostedQueue DEF Outside
  <2>2. (\A u \in Slots : ~Busy(u)) /\ dvla = "none"
    BY <2>1, AbsentFacts
  <2>3. ~Outstanding({"deliver_letter"})'
    BY <2>1, <2>2 DEF Outstanding, Queued, Busy
  <2>4. \A u \in Slots :
          /\ ~Taken(u)' /\ ~At(u, "process_sanitised", "updated")'
          /\ ~Busy(u)'
    BY <2>1, <2>2 DEF At, Taken, Busy
  <2>5. dvla' = "none"
    BY <2>1, <2>2
  <2>6. PrintOk'
    BY <2>1, <2>3, <2>4, <2>5 DEF PrintOk
  <2> QED
    BY <2>1, <2>6 DEF NotRevived, Absent
<1>2. CASE PostPrecompiledLetter
  <2>1. /\ status = Absent /\ UNCHANGED <<handler, dvla>> /\ letter'.kind = "precompiled"
        /\ status' = "pending-virus-check"
        /\ Send("antivirus") \/ UNCHANGED queue
    BY <1>2 DEF PostPrecompiledLetter, Order, Outside
  <2>2. /\ \A u \in Slots : ~Busy(u)
        /\ \A m \in Messages : ~(queue[m] > 0)
        /\ dvla = "none"
    BY <2>1, AbsentFacts
  <2>3. \A m \in Messages : queue'[m] > 0 => m[1] = "antivirus"
    BY <2>1, <2>2, SendQueues, TaskNames
  <2>4. ~Outstanding({"letter_callback"})'
    BY <2>1, <2>2, <2>3 DEF Outstanding, Queued, Busy
  <2>5. \A u \in Slots :
          /\ ~Taken(u)' /\ ~At(u, "process_sanitised", "updated")'
          /\ ~Busy(u)'
    BY <2>1, <2>2 DEF At, Taken, Busy
  <2>6. PrintOk'
    BY <2>1, <2>2, <2>4, <2>5 DEF PrintOk
  <2> QED
    BY <2>1, <2>6 DEF NotRevived, Absent
<1>3. CASE CancelLetterJob
  <2>1. /\ UNCHANGED <<letter, dvla, queue, handler>> /\ status' = "cancelled"
        /\ \A u \in Slots : handler[u].pc = "idle"
        /\ status \in {"created", "technical-failure", "validation-failed"}
        /\ ~letter.test
    BY <1>3, AloneIdle DEF CancelLetterJob, Outside
  <2>2. Outstanding({"letter_callback"})' => Outstanding({"letter_callback"})
    BY <2>1 DEF Outstanding, Queued, Busy
  <2>3. dvla' \in {"none", "rejected"}
    BY <2>1 DEF PrintOk, At, Taken
  <2>4. \A u \in Slots : /\ ~Taken(u)'
                         /\ ~At(u, "process_sanitised", "updated")' /\ ~Busy(u)'
    BY <2>1 DEF At, Taken, Busy
  <2> QED
    BY <2>1, <2>2, <2>3, <2>4, PrintSettled DEF NotRevived
<1>4. ASSUME NEW s \in Slots, SendUploadedLetter(s) PROVE PrintOk' /\ NotRevived
  <2> DEFINE h == [IdleHandler EXCEPT !.task = "upload", !.pc = "persisted"]
  <2>1. /\ status = Absent /\ UNCHANGED <<queue, dvla>> /\ letter'.kind = "uploaded"
        /\ handler' = [handler EXCEPT ![s] = h] /\ status' = "created"
    BY <1>4 DEF SendUploadedLetter, Order, Outside
  <2>2. h.task = "upload" /\ h.pc = "persisted"
    BY DEF IdleHandler
  <2> HIDE DEF h
  <2>3. /\ \A u \in Slots : ~Busy(u)
        /\ \A m \in Messages : ~(queue[m] > 0)
        /\ dvla' = "none"
    BY <2>1, AbsentFacts
  <2>4. handler'[s] = h /\ \A u \in Slots \ {s} : handler'[u] = handler[u]
    BY <2>1 DEF Typed
  <2>5. ~Outstanding({"letter_callback"})' /\ ~Outstanding({"deliver_letter"})'
    BY <2>1, <2>2, <2>3, <2>4 DEF Outstanding, Queued, Busy
  <2>6. \A u \in Slots : /\ ~Taken(u)'
                         /\ ~(Busy(u) /\ handler[u].task = "cancel")'
    BY <2>2, <2>3, <2>4 DEF At, Taken, Busy
  <2> QED
    BY <2>1, <2>3, <2>5, <2>6 DEF PrintOk, NotRevived, Absent
<1>5. ASSUME NEW s \in Slots, CancelLetter(s) PROVE PrintOk' /\ NotRevived
  <2> DEFINE h == [task |-> "cancel", pc |-> "read", tries |-> 0, seen |-> status]
  <2>1. /\ UNCHANGED <<letter, status, units, dvla, queue>>
        /\ status \in {"created", "pending-virus-check"}
        /\ \A u \in Slots : handler[u].pc = "idle"
        /\ handler' = [handler EXCEPT ![s] = h]
    BY <1>5, AloneIdle DEF CancelLetter, CanBeCancelled, Row, Outside
  <2>2. h.task = "cancel" /\ h.pc = "read"
    OBVIOUS
  <2> HIDE DEF h
  <2>3. handler'[s] = h /\ \A u \in Slots \ {s} : handler'[u] = handler[u]
    BY <2>1 DEF Typed
  <2>4. /\ Outstanding({"letter_callback"})' => Outstanding({"letter_callback"})
        /\ Outstanding({"deliver_letter"})' => Outstanding({"deliver_letter"})
    BY <2>1, <2>2, <2>3 DEF Outstanding, Queued, Busy
  <2>5. \A u \in Slots :
          /\ ~Taken(u)' /\ ~Taken(u)
          /\ ~At(u, "process_sanitised", "updated")'
    BY <2>1, <2>2, <2>3 DEF At, Taken
  <2> QED
    BY <2>1, <2>4, <2>5, PrintKept DEF NotRevived
<1> QED
  BY <1>1, <1>2, <1>3, <1>4, <1>5 DEF Requests

LEMMA BeginPrint ==
  ASSUME LettersAssumption, Typed, Sound, PrintOk, Quiet',
         NEW s \in Slots, NEW m \in Messages, Begin(s, m)
  PROVE  PrintOk' /\ NotRevived
<1>1. /\ \A u \in Slots : ~Busy(u)
      /\ \A u \in Slots : Busy(u)' => u = s
      /\ handler'[s].task = m[1] /\ handler'[s].pc = "read" /\ m[1] \in ApiTasks
      /\ UNCHANGED <<letter, status, units, dvla>>
  BY BeginFacts DEF Row, Outside
<1>2. /\ Outstanding({"letter_callback"})' => Outstanding({"letter_callback"})
      /\ Outstanding({"deliver_letter"})' => Outstanding({"deliver_letter"})
  BY BeginOut, TaskNames
<1>3. \A u \in Slots :
        /\ ~Taken(u)' /\ ~Taken(u)
        /\ ~At(u, "process_sanitised", "updated")'
        /\ ~(Busy(u) /\ handler[u].task = "cancel")'
  BY <1>1, TaskNames DEF At, Taken, Busy
<1>4. PrintOk'
  BY <1>1, <1>2, <1>3, PrintKept
<1> QED
  BY <1>1, <1>4 DEF NotRevived, PrintOk

LEMMA OutsidePrint ==
  ASSUME LettersAssumption, Typed, Sound, CallbackOk, PrintOk, Orderly',
         OtherApps \/ Scheduled \/ DvlaPrints \/ ReturnLetter \/ Faults
  PROVE  PrintOk' /\ NotRevived
<1>1. (\A s \in Slots : ~Crash(s)) /\ (\A m \in Messages : ~Redeliver(m))
  BY DEF Crash, Redeliver, Fault, Orderly
<1>2. UNCHANGED <<letter, handler, units>>
  BY <1>1 DEF OtherApps, CreatePdf, ScanFile, SanitisePdf, Scheduled, Collate,
     ReplayCreatedLetter, CheckPendingVirusCheck, DvlaPrints, ReturnLetter, Faults,
     ReplayLetterInError, Lose, Row
<1>3. \A u \in Slots :
        /\ Taken(u)' <=> Taken(u)
        /\ At(u, "process_sanitised", "updated")' <=> At(u, "process_sanitised", "updated")
        /\ (Busy(u) /\ handler[u].task = "cancel")' <=> Busy(u) /\ handler[u].task = "cancel"
  BY <1>2 DEF At, Taken, Busy
<1>4. ASSUME UNCHANGED <<status, dvla>>, NEW T, "letter_callback" \notin T,
             \A m \in Messages : queue'[m] > 0 => queue[m] > 0 \/ m[1] \in T,
             "deliver_letter" \in T => units
      PROVE  PrintOk' /\ NotRevived
  <2>1. /\ Outstanding({"letter_callback"})' => Outstanding({"letter_callback"})
        /\ "deliver_letter" \notin T =>
             (Outstanding({"deliver_letter"})' => Outstanding({"deliver_letter"}))
    BY <1>2, <1>4, QueueOut
  <2>2. PrintOk'
    BY <1>2, <1>3, <1>4, <2>1, PrintKept
  <2> QED
    BY <1>4, <2>2 DEF NotRevived, PrintOk
<1>5. CASE OtherApps
  <2>1. PICK m \in Messages :
          /\ queue[m] > 0
          /\ \/ queue' = Take(queue, m)
             \/ \E t \in {"billable_units", "too_long", "virus_found", "sanitise_letter",
                          "scan_error", "process_sanitised"} :
                  queue' = Put(Take(queue, m), t, 0)
    BY <1>5 DEF OtherApps, CreatePdf, ScanFile, SanitisePdf
  <2>2. \A n \in Messages : queue'[n] > 0 => queue[n] > 0 \/
          n[1] \in {"billable_units", "too_long", "virus_found", "sanitise_letter",
                    "scan_error", "process_sanitised"}
    BY <2>1, TakeQueues, PassQueues, TaskNames
  <2>3. UNCHANGED <<status, dvla>>
    BY <1>5 DEF OtherApps, CreatePdf, ScanFile, SanitisePdf, Row, Outside
  <2> QED
    BY <1>4, <2>2, <2>3
<1>6. CASE Scheduled
  <2>1. PICK t \in {"deliver_letter", "get_pdf", "antivirus"} :
          (Send(t) \/ queue' = queue) /\ (t = "deliver_letter" => units)
    BY <1>6 DEF Scheduled, Collate, ToBePrinted, ReplayCreatedLetter, CheckPendingVirusCheck
  <2>2. \A n \in Messages : queue'[n] > 0 => queue[n] > 0 \/ n[1] \in {t}
    BY <2>1, SendQueues, TaskNames
  <2>3. UNCHANGED <<status, dvla>>
    BY <1>6 DEF Scheduled, Collate, ReplayCreatedLetter, CheckPendingVirusCheck, Row,
       Outside
  <2> QED
    BY <1>4, <2>1, <2>2, <2>3
<1>7. CASE DvlaPrints
  <2>1. /\ UNCHANGED status /\ dvla = "accepted" /\ dvla' \in {"despatched", "rejected"}
        /\ Send("letter_callback")
    BY <1>7 DEF DvlaPrints, Row
  <2>2. \A n \in Messages : queue'[n] > 0 => queue[n] > 0 \/ n[1] \in {"letter_callback"}
    BY <2>1, SendQueues, TaskNames
  <2>3. Outstanding({"deliver_letter"})' => Outstanding({"deliver_letter"})
    BY <1>2, <2>2, QueueOut
  <2> QED
    BY <1>2, <1>3, <2>1, <2>3 DEF PrintOk, CallbackOk, NotRevived
<1>8. CASE ReturnLetter
  <2>1. /\ UNCHANGED <<queue, dvla>> /\ dvla = "despatched" /\ status' = "returned-letter"
        /\ ~Working
    BY <1>8 DEF ReturnLetter, Outside
  <2>2. \A u \in Slots : ~Busy(u)
    BY <2>1 DEF Working, Busy
  <2>3. Outstanding({"letter_callback"})' => Outstanding({"letter_callback"})
    BY <1>2, <2>1 DEF Outstanding, Queued, Busy
  <2>4. \A u \in Slots : /\ ~Taken(u)'
                         /\ ~At(u, "process_sanitised", "updated")' /\ ~Busy(u)'
    BY <1>2, <2>2 DEF At, Taken, Busy
  <2>5. PrintOk'
    BY <1>2, <2>1, <2>3, <2>4, PrintSettled
  <2> QED
    BY <2>1, <2>5 DEF NotRevived, PrintOk
<1>9. CASE Faults
  <2>1. Send("antivirus") \/ \E m \in Messages : Lose(m)
    BY <1>1, <1>9 DEF Faults, ReplayLetterInError
  <2>2. \A n \in Messages : queue'[n] > 0 => queue[n] > 0 \/ n[1] \in {"antivirus"}
    BY <2>1, SendQueues, TakeQueues, TaskNames DEF Lose
  <2>3. UNCHANGED <<status, dvla>>
    BY <1>1, <1>9 DEF Faults, ReplayLetterInError, Lose, Row, Outside
  <2> QED
    BY <1>4, <2>2, <2>3
<1> QED
  BY <1>5, <1>6, <1>7, <1>8, <1>9

\* A step that gives the letter up, or refuses or cancels it.
LEMMA GivenUp ==
  ASSUME LettersAssumption, Typed, Sound, PrintOk, NEW s \in Slots, Step(s), Done(s),
         UNCHANGED <<letter, dvla>>, dvla \in {"none", "rejected"},
         status' \in {"technical-failure", "validation-failed", "virus-scan-failed", "cancelled"},
         status' = "cancelled" => ~(letter.test /\ letter.kind = "templated")
  PROVE  PrintOk' /\ NotRevived
<1>1. Busy(s) /\ HandlerOk(s)
  BY StepTasks
<1>2. \A u \in Slots : ~Busy(u)'
  BY <1>1, DonePlain
<1>3. \A u \in Slots : /\ ~Taken(u)'
                       /\ ~At(u, "process_sanitised", "updated")'
  BY <1>2 DEF Busy, At, Taken
<1>4. Outstanding({"letter_callback"})' => Outstanding({"letter_callback"})
  BY StepOut, TaskNames
<1>5. PrintOk'
  BY <1>2, <1>3, <1>4, PrintSettled
<1> QED
  BY <1>5 DEF NotRevived

\* A step that leaves the status and the printer alone.
LEMMA LeftAlone ==
  ASSUME LettersAssumption, Typed, Sound, PrintOk, NEW s \in Slots, Step(s),
         UNCHANGED <<letter, status, dvla>>, units => units',
         ~Taken(s), handler[s].task # "cancel",
         Done(s) \/ \E pc \in {"invalid_moved", "moved", "failed_moved"} : Goto(s, pc)
  PROVE  PrintOk' /\ NotRevived
<1>1. /\ Busy(s) /\ HandlerOk(s) /\ \A u \in Slots : Busy(u) => u = s
      /\ \A u \in Slots : Busy(u)' => u = s /\ handler'[u].task = handler[u].task
  BY StepTasks DEF HandlerOk
<1>2. /\ Outstanding({"letter_callback"})' => Outstanding({"letter_callback"})
      /\ Outstanding({"deliver_letter"})' => Outstanding({"deliver_letter"})
  BY StepOut, TaskNames
<1>3. Busy(s)' => handler'[s].pc \in {"invalid_moved", "moved", "failed_moved"}
  <2>1. CASE Done(s)
    BY <1>1, <2>1, DonePlain
  <2>2. ASSUME NEW pc \in {"invalid_moved", "moved", "failed_moved"}, Goto(s, pc)
        PROVE  handler'[s].pc = pc
    BY <1>1, <2>2, GotoOk DEF Pcs
  <2> QED
    BY <2>1, <2>2
<1>4. \A u \in Slots :
        /\ ~Taken(u)' /\ ~Taken(u)
        /\ ~At(u, "process_sanitised", "updated")'
        /\ ~(Busy(u) /\ handler[u].task = "cancel")'
  BY <1>1, <1>3 DEF At, Taken, Busy
<1>5. PrintOk'
  BY <1>2, <1>4, PrintKept
<1> QED
  BY <1>5 DEF NotRevived, PrintOk

\* A task that tried again, or gave the letter up.
LEMMA RetryOrEnd ==
  ASSUME NEW s \in Slots, NEW t, RetryOrGiveUp(s, t)
  PROVE  UNCHANGED <<status, units>> \/ status' = "technical-failure"
BY DEF RetryOrGiveUp, UpdateStatusById, Write, Row

LEMMA StepPrint ==
  ASSUME LettersAssumption, Typed, Sound, PlacesOk, CallbackOk, ChainOk, PrintOk, Orderly',
         NEW s \in Slots, Step(s)
  PROVE  PrintOk' /\ NotRevived
<1>1. /\ Busy(s) /\ HandlerOk(s) /\ \A u \in Slots : Busy(u) => u = s
      /\ \A u \in Slots : Busy(u)' => u = s /\ handler'[u].task = handler[u].task
  BY StepTasks DEF HandlerOk
<1>2. /\ Outstanding({"letter_callback"})' => Outstanding({"letter_callback"})
      /\ Outstanding({"deliver_letter"})' => Outstanding({"deliver_letter"})
  BY StepOut, TaskNames
<1>3. UNCHANGED letter
  BY DEF Step, MoveUploadedPdf, WriteCancelled, GetPdf, UpdateBillableUnits,
     UpdateValidationFailed, SanitiseLetter, ProcessSanitisedAgain,
     ProcessSanitisedFails, MoveInvalidLetter, MarkInvalid, MarkSanitised,
     MoveSanitised, DeleteOriginal, MoveFailedPdf, MarkFailed, NotDeliverable,
     PdfNotFound, SendLetter, SendLetterRetry, SendLetterFails, MarkSending,
     MarkSendingFails, LetterCallback,
     RecordDespatch
<1>4. handler[s].pc = "read" => handler[s].seen = status
  BY <1>1 DEF HandlerOk
<1>5. status = "pending-virus-check" => dvla = "none"
  BY DEF Sound, PrinterOk
\* The letter is ended, with nothing printed, or nothing happens to it.
<1>6. ASSUME dvla = "none", UNCHANGED dvla, Done(s),
             ~Taken(s), handler[s].task # "cancel",
             \/ UNCHANGED <<status, units>>
             \/ status' \in {"technical-failure", "validation-failed", "virus-scan-failed"}
      PROVE  PrintOk' /\ NotRevived
  BY <1>3, <1>6, GivenUp, LeftAlone
<1>7. CASE WriteCancelled(s)
  <2>1. /\ At(s, "cancel", "read") /\ Done(s) /\ UNCHANGED <<queue, dvla>>
        /\ status' = "cancelled" \/ UNCHANGED Row
    BY <1>7 DEF WriteCancelled, UpdateStatusById, Write, Outside
  <2>2. status \in {"created", "pending-virus-check"}
    BY <1>1, <2>1 DEF PrintOk, At, Taken
  <2>3. dvla = "none"
    BY <1>1, <1>5, <2>1, <2>2 DEF PrintOk, At, Taken, Busy
  <2>4. status' = "cancelled"
    BY <1>4, <1>7, <2>1, <2>2 DEF WriteCancelled, UpdateStatusById, Write, At, Taken,
       UpdatableStatuses
  <2> QED
    BY <1>3, <2>1, <2>2, <2>3, <2>4, GivenUp DEF PrintOk
<1>8. CASE GetPdf(s)
  <2>1. /\ At(s, "get_pdf", "read") /\ Done(s) /\ UNCHANGED dvla
        /\ UNCHANGED <<status, units>> \/ status' = "technical-failure"
    BY <1>8, RetryOrEnd DEF GetPdf, Row, Outside
  <2>2. dvla = "none"
    <3>1. letter.kind = "templated" /\ Outstanding(Chain)
      BY <1>1, <2>1 DEF HandlerOk, Fits, At, Taken, Outstanding, Chain
    <3> QED
      BY <3>1 DEF ChainOk
  <2> QED
    BY <1>6, <2>1, <2>2 DEF At, Taken
<1>9. CASE UpdateValidationFailed(s)
  <2>1. /\ At(s, "too_long", "read") /\ Done(s) /\ UNCHANGED dvla
        /\ status' = "validation-failed"
    BY <1>9 DEF UpdateValidationFailed, Write, Outside
  <2>2. dvla = "none"
    BY <1>1, <2>1 DEF HandlerOk, Fits, At, Taken, Sound, PrinterOk
  <2> QED
    BY <1>6, <2>1, <2>2 DEF At, Taken
<1>10. CASE SanitiseLetter(s)
  <2>1. /\ At(s, "sanitise_letter", "read") /\ Done(s) /\ UNCHANGED dvla
        /\ \/ UNCHANGED <<status, units>>
           \/ handler[s].seen = "pending-virus-check" /\ status' = "technical-failure"
    BY <1>10, RetryOrEnd DEF SanitiseLetter, Row, Outside
  <2>2. CASE UNCHANGED <<status, units>>
    BY <1>3, <2>1, <2>2, LeftAlone DEF At, Taken
  <2>3. CASE handler[s].seen = "pending-virus-check" /\ status' = "technical-failure"
    BY <1>4, <1>5, <1>6, <2>1, <2>3 DEF At, Taken
  <2> QED
    BY <2>1, <2>2, <2>3
<1>11. CASE ProcessSanitisedFails(s)
  <2>1. /\ At(s, "process_sanitised", "read") /\ Done(s) /\ UNCHANGED dvla
        /\ handler[s].seen = "pending-virus-check"
        /\ UNCHANGED <<status, units>> \/ status' = "technical-failure"
    BY <1>11, RetryOrEnd DEF ProcessSanitisedFails, StillPending, Outside
  <2> QED
    BY <1>4, <1>5, <1>6, <2>1 DEF At, Taken
<1>12. CASE MoveInvalidLetter(s)
  <2>1. /\ At(s, "process_sanitised", "read") /\ UNCHANGED dvla
        /\ handler[s].seen = "pending-virus-check"
        /\ \/ Done(s) /\ (UNCHANGED <<status, units>> \/ status' = "technical-failure")
           \/ Goto(s, "invalid_moved") /\ UNCHANGED <<status, units>>
    BY <1>12 DEF MoveInvalidLetter, StillPending, UpdateStatusById, Write, Row, Outside
  <2>2. CASE Done(s) /\ (UNCHANGED <<status, units>> \/ status' = "technical-failure")
    BY <1>4, <1>5, <1>6, <2>1, <2>2 DEF At, Taken
  <2>3. CASE Goto(s, "invalid_moved") /\ UNCHANGED <<status, units>>
    BY <1>3, <2>1, <2>3, LeftAlone DEF At, Taken
  <2> QED
    BY <2>1, <2>2, <2>3
<1>13. CASE MarkInvalid(s)
  <2>1. /\ At(s, "process_sanitised", "invalid_moved") /\ Done(s) /\ UNCHANGED dvla
        /\ status' = "validation-failed"
    BY <1>13 DEF MarkInvalid, UpdateLetterPdfStatus, Outside
  <2>2. status = "pending-virus-check"
    BY <1>1, <2>1 DEF HandlerOk, At, Taken
  <2> QED
    BY <1>5, <1>6, <2>1, <2>2 DEF At, Taken
<1>14. CASE \/ MarkFailed(s, "virus_found", "virus-scan-failed")
            \/ MarkFailed(s, "scan_error", "technical-failure")
  <2>1. /\ handler[s].task \in {"virus_found", "scan_error"}
        /\ handler[s].pc = "failed_moved" /\ Done(s) /\ UNCHANGED dvla
        /\ status' \in {"virus-scan-failed", "technical-failure"}
    BY <1>14 DEF MarkFailed, UpdateLetterPdfStatus, At, Taken, Outside
  <2>2. dvla = "none"
    BY <1>1, <2>1 DEF HandlerOk
  <2> QED
    BY <1>6, <2>1, <2>2 DEF At, Taken
<1>15. CASE MarkSanitised(s)
  <2>1. /\ At(s, "process_sanitised", "read") /\ GotoSeeing(s, "updated", status')
        /\ UNCHANGED <<dvla, queue>>
        /\ handler[s].seen = "pending-virus-check"
        /\ status' = IF letter.test THEN "delivered" ELSE "created"
    BY <1>15 DEF MarkSanitised, StillPending, UpdateLetterPdfStatus, Outside
  <2>2. units' = TRUE
    BY <1>15 DEF MarkSanitised, UpdateLetterPdfStatus
  <2>3. status = "pending-virus-check" /\ dvla = "none"
    BY <1>4, <1>5, <2>1 DEF At, Taken
  <2>4. letter.kind = "precompiled"
    BY <2>3 DEF PlacesOk
  <2>5. handler'[s].task = "process_sanitised" /\ handler'[s].pc = "updated"
    BY <1>1, <2>1, SeeingOk DEF At, Taken, Pcs
  <2>6. \A u \in Slots : /\ ~Taken(u)'
                         /\ ~(Busy(u) /\ handler[u].task = "cancel")'
    BY <1>1, <2>5 DEF At, Taken, Busy
  <2>7. dvla' = "none" /\ letter'.kind = "precompiled"
        /\ status' \in {"delivered", "created"}
    BY <1>3, <2>1, <2>3, <2>4
  <2>8. letter'.test /\ Outstanding({"letter_callback"})' => FALSE
    BY <1>2, <1>3, <2>4 DEF PrintOk
  <2>9. PrintOk'
    BY <2>2, <2>6, <2>7, <2>8 DEF PrintOk
  <2> QED
    BY <2>3, <2>9 DEF NotRevived
<1>16. CASE MoveSanitised(s)
  <2>1. /\ At(s, "process_sanitised", "updated") /\ UNCHANGED dvla
        /\ \/ Done(s) /\ (UNCHANGED <<status, units>> \/ status' = "technical-failure")
           \/ Goto(s, "moved") /\ UNCHANGED <<status, units>>
    BY <1>16 DEF MoveSanitised, UpdateStatusById, Write, Row, Outside
  <2>2. dvla = "none"
    BY <2>1 DEF PrintOk
  <2>3. CASE Done(s) /\ (UNCHANGED <<status, units>> \/ status' = "technical-failure")
    BY <1>6, <2>1, <2>2, <2>3 DEF At, Taken
  <2>4. CASE Goto(s, "moved") /\ UNCHANGED <<status, units>>
    BY <1>3, <2>1, <2>4, LeftAlone DEF At, Taken
  <2> QED
    BY <2>1, <2>3, <2>4
<1>17. CASE PdfNotFound(s) \/ SendLetterFails(s) \/ SendLetterRetry(s)
  <2>1. /\ Deliverable(s) /\ Done(s)
        /\ UNCHANGED <<status, units>> \/ status' = "technical-failure"
    BY <1>17, RetryOrEnd DEF PdfNotFound, SendLetterFails, SendLetterRetry,
       UpdateStatusById, Write, Row
  <2>2. UNCHANGED dvla
    BY <1>17 DEF PdfNotFound, SendLetterFails, SendLetterRetry, Fault, Orderly, Outside
  <2>3. At(s, "deliver_letter", "read") /\ status = "created"
    BY <1>4, <2>1 DEF Deliverable, Sendable, At, Taken
  <2>4. dvla = "none"
    BY <1>1, <2>3 DEF PrintOk, At, Taken, Busy
  <2> QED
    BY <1>6, <2>1, <2>2, <2>3, <2>4 DEF At, Taken
<1>18. CASE SendLetter(s)
  <2>1. /\ At(s, "deliver_letter", "read") /\ handler[s].seen = "created"
        /\ Goto(s, "accepted") \/ Goto(s, "duplicate")
        /\ UNCHANGED <<status, units, queue>>
        /\ dvla' # "none" /\ ~letter.test
    BY <1>18 DEF SendLetter, Deliverable, Sendable, Row
  <2>2. status = "created" /\ Outstanding({"deliver_letter"})
    BY <1>1, <1>4, <2>1 DEF At, Taken, Outstanding
  <2>3. units
    BY <2>2 DEF PrintOk
  <2>4. handler'[s].task = "deliver_letter" /\ handler'[s].pc \in {"accepted", "duplicate"}
    BY <1>1, <2>1, GotoOk DEF At, Taken, Pcs
  <2>5. \A u \in Slots : /\ ~At(u, "process_sanitised", "updated")'
                         /\ ~(Busy(u) /\ handler[u].task = "cancel")'
    BY <1>1, <2>4 DEF At, Taken, Busy
  <2>6. Taken(s)'
    BY <2>4 DEF At, Taken
  <2>7. units' /\ status' = "created" /\ ~letter'.test
    BY <1>3, <2>1, <2>2, <2>3
  <2>8. PrintOk'
    BY <2>1, <2>5, <2>6, <2>7 DEF PrintOk
  <2> QED
    BY <2>2, <2>8 DEF NotRevived
<1>23. ASSUME MarkSendingFails(s) PROVE FALSE
  BY <1>23 DEF MarkSendingFails, Fault, Orderly
<1>19. CASE MarkSending(s)
  <2>1. /\ Taken(s) /\ Done(s) /\ status' = "sending"
    BY <1>19 DEF MarkSending, MarkSendingFails, UpdateLetterToSending, Write
  <2>2. status = "created"
    BY <1>1, <2>1 DEF HandlerOk, At, Taken
  <2>3. \A u \in Slots : ~Busy(u)'
    BY <1>1, <2>1, DonePlain
  <2>4. \A u \in Slots : /\ ~Taken(u)'
                         /\ ~At(u, "process_sanitised", "updated")'
    BY <2>3 DEF At, Taken, Busy
  <2>5. PrintOk'
    BY <1>2, <1>3, <2>1, <2>3, <2>4, PrintSettled
  <2> QED
    BY <2>2, <2>5 DEF NotRevived
<1>20. CASE LetterCallback(s)
  <2>1. /\ At(s, "letter_callback", "read") /\ UNCHANGED <<dvla, queue>>
        /\ \/ UNCHANGED <<status, units>> /\ Done(s)
           \/ dvla = "rejected" /\ status' = "technical-failure" /\ Done(s)
           \/ dvla # "rejected" /\ status' = "delivered" /\ Goto(s, "updated")
    BY <1>20 DEF LetterCallback, Write, Row, Outside
  <2>2. CASE UNCHANGED <<status, units>> /\ Done(s)
    BY <1>3, <2>1, <2>2, LeftAlone DEF At, Taken
  <2>3. CASE dvla = "rejected" /\ status' = "technical-failure" /\ Done(s)
    BY <1>3, <2>1, <2>3, GivenUp
  <2>4. CASE dvla # "rejected" /\ status' = "delivered" /\ Goto(s, "updated")
    <3>1. handler'[s].task = "letter_callback" /\ handler'[s].pc = "updated"
      BY <1>1, <2>1, <2>4, GotoOk DEF At, Taken, Pcs
    <3>2. \A u \in Slots : /\ ~Taken(u)'
                           /\ ~At(u, "process_sanitised", "updated")'
                           /\ ~(Busy(u) /\ handler[u].task = "cancel")'
      BY <1>1, <3>1 DEF At, Taken, Busy
    <3>3. PrintOk'
      BY <1>2, <1>3, <2>4, <3>2, PrintSettled
    <3>4. Outstanding({"letter_callback"})
      BY <1>1, <2>1 DEF Outstanding, At, Taken
    <3>5. status # "cancelled"
      BY <2>4, <3>4 DEF PrintOk, CallbackOk
    <3> QED
      BY <3>3, <3>5 DEF NotRevived
  <2> QED
    BY <2>1, <2>2, <2>3, <2>4
<1>21. CASE \/ MoveUploadedPdf(s) \/ UpdateBillableUnits(s) \/ ProcessSanitisedAgain(s)
            \/ DeleteOriginal(s) \/ NotDeliverable(s) \/ RecordDespatch(s)
  <2>1. /\ UNCHANGED <<status, dvla>> /\ Done(s)
        /\ ~Taken(s) /\ handler[s].task # "cancel"
    BY <1>21 DEF MoveUploadedPdf, UpdateBillableUnits, ProcessSanitisedAgain,
       DeleteOriginal,
       NotDeliverable, RecordDespatch, At, Taken, Row, Outside
  <2>2. units => units'
    BY <1>21 DEF MoveUploadedPdf, UpdateBillableUnits, ProcessSanitisedAgain,
       DeleteOriginal,
       NotDeliverable, RecordDespatch, Row
  <2> QED
    BY <1>3, <2>1, <2>2, LeftAlone
<1>22. CASE \/ MoveFailedPdf(s, "virus_found", "failure")
            \/ MoveFailedPdf(s, "scan_error", "error")
  <2>1. /\ UNCHANGED <<status, units, dvla>>
        /\ Done(s) \/ Goto(s, "failed_moved")
        /\ ~Taken(s) /\ handler[s].task # "cancel"
    BY <1>22 DEF MoveFailedPdf, At, Taken, Row, Outside
  <2> QED
    BY <1>3, <2>1, LeftAlone
<1> QED
  BY <1>7, <1>8, <1>9, <1>10, <1>11, <1>12, <1>13, <1>14, <1>15, <1>16, <1>17, <1>18,
     <1>19, <1>20, <1>21, <1>22, <1>23 DEF Step

\* Nothing is lost or played twice between the API and the printer.
OrderInv == Typed /\ (Orderly => Sound /\ PlacesOk /\ CallbackOk /\ ChainOk /\ PrintOk)

LEMMA InitOrder == LettersAssumption /\ Init => OrderInv
<1> SUFFICES ASSUME LettersAssumption, Init PROVE OrderInv
  OBVIOUS
<1>1. Typed /\ Sound /\ PlacesOk /\ CallbackOk
  BY InitPlaces, InitAnswer DEF PlaceInv, AnswerInv, Init, Quiet
<1>2. (\A u \in Slots : handler[u].pc = "idle") /\ \A m \in Messages : ~(queue[m] > 0)
  BY Idle DEF Init
<1>3. ~Outstanding(Chain) /\ NoChain(queue)
  BY <1>2 DEF Outstanding, Queued, Busy, NoChain
<1>4. ChainOk
  BY <1>1, <1>2, <1>3, NoneIsOne DEF ChainOk, Typed, Busy
<1>5. PrintOk
  BY <1>2 DEF Init, NoLetter, PrintOk, At, Taken, Busy, Absent
<1> QED
  BY <1>1, <1>4, <1>5 DEF OrderInv

LEMMA NextOrder ==
  ASSUME LettersAssumption, OrderInv, [Next]_vars
  PROVE  OrderInv' /\ (Orderly' => UNCHANGED vars \/ NotRevived)
<1>1. Typed'
  BY TypedHolds DEF OrderInv
<1>2. ASSUME Orderly'
      PROVE  /\ Sound' /\ PlacesOk' /\ CallbackOk' /\ ChainOk' /\ PrintOk'
             /\ UNCHANGED vars \/ NotRevived
  <2>1. Orderly /\ Quiet' /\ Quiet
    BY <1>2, FaultsGrow DEF Orderly, Quiet
  <2>2. Typed /\ Sound /\ PlacesOk /\ CallbackOk /\ ChainOk /\ PrintOk
    BY <2>1 DEF OrderInv
  <2>3. Sound'
    BY <2>1, <2>2, NextRefusal DEF RefusalInv
  <2>4. PlacesOk' /\ CallbackOk' /\ ChainOk'
    BY <1>2, <2>1, <2>2, NextPlaces, NextAnswer, NextChain
  <2>5. PrintOk' /\ (UNCHANGED vars \/ NotRevived)
    <3>1. CASE UNCHANGED vars
      BY <2>2, <3>1 DEF vars, PrintOk, Outstanding, Queued, Busy, At, Taken, Row, Outside
    <3> QED
      BY <1>2, <2>1, <2>2, <3>1, RequestPrint, BeginPrint, StepPrint, OutsidePrint DEF Next
  <2> QED
    BY <2>3, <2>4, <2>5
<1> QED
  BY <1>1, <1>2 DEF OrderInv

\* A cancelled letter stays unprinted, and only a verdict of the virus scan or a PDF
\* that turns out to be too long changes its status.
THEOREM CancelledStays == Spec => CancelledForGood
<1>1. Init => OrderInv
  BY LettersAssumption, InitOrder
<1>2. OrderInv /\ [Next]_vars => OrderInv'
  BY LettersAssumption, NextOrder
<1>3. OrderInv /\ [Next]_vars =>
        [faults' \cap {"overlap", "worker", "answer lost", "redelivery", "slow",
                            "database"} = {}
           /\ status = "cancelled" =>
           /\ dvla' \in {"none", "rejected"}
           /\ status' \in {"cancelled", "virus-scan-failed", "technical-failure",
                           "validation-failed"}]_vars
  <2> SUFFICES ASSUME OrderInv, [Next]_vars, Orderly', status = "cancelled",
                      ~(UNCHANGED vars)
               PROVE  /\ dvla' \in {"none", "rejected"}
                      /\ status' \in {"cancelled", "virus-scan-failed", "technical-failure",
                                      "validation-failed"}
    BY DEF Orderly
  <2> QED
    BY LettersAssumption, NextOrder DEF NotRevived
<1> QED
  BY <1>1, <1>2, <1>3, PTL DEF Spec, CancelledForGood

-----------------------------------------------------------------------------
(* Nothing the printer did is forgotten, whatever is played twice and      *)
(* whichever answers are lost.                                             *)

Reported == {"delivered", "returned-letter", "technical-failure", "cancelled"}

FollowOk ==
  /\ status = "created" /\ dvla # "none" /\ "database" \notin faults =>
       Outstanding({"deliver_letter"})
  /\ dvla \in {"despatched", "rejected"} =>
       status \in Reported \/ Outstanding({"letter_callback"})
  /\ \A s \in Slots : At(s, "letter_callback", "updated") => status = "delivered"

\* Steps that leave the row, the printer and the callback's messages alone.
LEMMA FollowKept ==
  ASSUME FollowOk, UNCHANGED <<status, dvla>>, faults \subseteq faults',
         Outstanding({"deliver_letter"}) => Outstanding({"deliver_letter"})',
         Outstanding({"letter_callback"}) => Outstanding({"letter_callback"})',
         \A u \in Slots : ~At(u, "letter_callback", "updated")'
  PROVE  FollowOk'
BY DEF FollowOk

\* Nothing is printed.
LEMMA FollowNone ==
  ASSUME dvla' = "none", \A u \in Slots : ~At(u, "letter_callback", "updated")'
  PROVE  FollowOk'
BY DEF FollowOk

LEMMA OnlyOthers ==
  ASSUME NEW T, OnlyTasks(T), NEW t, t \notin T
  PROVE  Queued({t}) <=> Queued({t})'
BY DEF OnlyTasks, Queued

LEMMA MoreQueued ==
  ASSUME NEW T, \A m \in Messages : queue[m] > 0 => queue'[m] > 0
  PROVE  Queued(T) => Queued(T)'
BY DEF Queued

\* A message more.
LEMMA PutMore ==
  ASSUME LettersAssumption, Typed, NEW t, NEW k, <<t, k>> \in Messages,
         queue' = Put(queue, t, k)
  PROVE  /\ \A m \in Messages : queue[m] > 0 => queue'[m] > 0
         /\ queue'[<<t, k>>] > 0
BY PutElse DEF Typed

LEMMA SentMore ==
  ASSUME LettersAssumption, Typed, NEW t \in ApiTasks \cup ExternalTasks, Send(t)
  PROVE  /\ \A m \in Messages : queue[m] > 0 => queue'[m] > 0
         /\ Queued({t})'
<1>1. <<t, 0>> \in Messages
  BY TaskMessages
<1>2. /\ \A m \in Messages : queue[m] > 0 => queue'[m] > 0
      /\ queue'[<<t, 0>>] > 0
  BY <1>1, PutMore DEF Send
<1> QED
  BY <1>1, <1>2 DEF Queued

LEMMA RequestFollow ==
  ASSUME LettersAssumption, Typed, Sound, FollowOk, Quiet', faults \subseteq faults',
         Requests
  PROVE  FollowOk'
<1>1. CASE PostLetter \/ PostPrecompiledLetter
  <2>1. status = Absent /\ UNCHANGED <<handler, dvla>>
    BY <1>1 DEF PostLetter, PostPrecompiledLetter, Order, Outside
  <2>2. (\A u \in Slots : ~Busy(u)) /\ dvla' = "none"
    BY <2>1, AbsentFacts
  <2> QED
    BY <2>1, <2>2, FollowNone DEF At, Busy
<1>2. CASE CancelLetterJob
  <2>1. /\ UNCHANGED handler /\ status' = "cancelled"
        /\ \A u \in Slots : handler[u].pc = "idle"
    BY <1>2, AloneIdle DEF CancelLetterJob
  <2> QED
    BY <2>1 DEF FollowOk, Reported, At
<1>3. ASSUME NEW s \in Slots, SendUploadedLetter(s) PROVE FollowOk'
  <2> DEFINE h == [IdleHandler EXCEPT !.task = "upload", !.pc = "persisted"]
  <2>1. status = Absent /\ UNCHANGED dvla /\ handler' = [handler EXCEPT ![s] = h]
    BY <1>3 DEF SendUploadedLetter, Order, Outside
  <2>2. h.task = "upload"
    BY DEF IdleHandler
  <2> HIDE DEF h
  <2>3. (\A u \in Slots : ~Busy(u)) /\ dvla' = "none"
    BY <2>1, AbsentFacts
  <2>4. handler'[s] = h /\ \A u \in Slots \ {s} : handler'[u] = handler[u]
    BY <2>1 DEF Typed
  <2> QED
    BY <2>2, <2>3, <2>4, FollowNone DEF At, Busy
<1>4. ASSUME NEW s \in Slots, CancelLetter(s) PROVE FollowOk'
  <2> DEFINE h == [task |-> "cancel", pc |-> "read", tries |-> 0, seen |-> status]
  <2>1. /\ UNCHANGED <<status, dvla, queue>>
        /\ \A u \in Slots : handler[u].pc = "idle"
        /\ handler' = [handler EXCEPT ![s] = h]
    BY <1>4, AloneIdle DEF CancelLetter, Row, Outside
  <2>2. h.task = "cancel"
    OBVIOUS
  <2> HIDE DEF h
  <2>3. handler'[s] = h /\ \A u \in Slots \ {s} : handler'[u] = handler[u]
    BY <2>1 DEF Typed
  <2>4. \A t : Outstanding({t}) => Outstanding({t})'
    BY <2>1 DEF Outstanding, Queued, Busy
  <2> QED
    BY <2>1, <2>2, <2>3, <2>4, FollowKept DEF At
<1> QED
  BY <1>1, <1>2, <1>3, <1>4 DEF Requests

LEMMA BeginFollow ==
  ASSUME LettersAssumption, Typed, Sound, FollowOk, Quiet', faults \subseteq faults',
         NEW s \in Slots, NEW m \in Messages, Begin(s, m)
  PROVE  FollowOk'
<1>1. /\ \A u \in Slots : ~Busy(u)
      /\ \A u \in Slots : Busy(u)' => u = s
      /\ handler'[s].task = m[1] /\ handler'[s].pc = "read"
      /\ queue[m] > 0 /\ queue' = Take(queue, m) /\ UNCHANGED <<status, dvla>>
  BY BeginFacts DEF Row, Outside
<1>2. \A n \in Messages : n # m => queue'[n] = queue[n]
  BY <1>1, TakeElse DEF Typed
<1>3. \A t : Outstanding({t}) => Outstanding({t})'
  BY <1>1, <1>2 DEF Outstanding, Queued, Busy
<1>4. \A u \in Slots : ~At(u, "letter_callback", "updated")'
  BY <1>1 DEF At, Busy
<1> QED
  BY <1>1, <1>3, <1>4, FollowKept

\* deliver_letter leaves the letter `created' only if it was not printed, or if a retry
\* of it is queued or its update failed.
LEMMA DeliverFollow ==
  ASSUME LettersAssumption, Typed, Sound, CallbackOk, NEW s \in Slots, Step(s),
         handler[s].task = "deliver_letter"
  PROVE  \/ status' # "created" \/ dvla' = "none" \/ "database" \in faults'
         \/ Outstanding({"deliver_letter"})'
<1>1. Busy(s) /\ HandlerOk(s)
  BY StepTasks
<1>2. handler[s].pc = "read" => handler[s].seen = status
  BY <1>1 DEF HandlerOk
<1>3. \/ NotDeliverable(s) \/ PdfNotFound(s) \/ SendLetter(s) \/ SendLetterRetry(s)
      \/ SendLetterFails(s) \/ MarkSending(s) \/ MarkSendingFails(s)
  BY DEF Step, MoveUploadedPdf, WriteCancelled, GetPdf, UpdateBillableUnits,
     UpdateValidationFailed, SanitiseLetter, ProcessSanitisedAgain,
     ProcessSanitisedFails, MoveInvalidLetter, MarkInvalid, MarkSanitised,
     MoveSanitised, DeleteOriginal, MoveFailedPdf, MarkFailed, LetterCallback,
     RecordDespatch, At
<1>4. CASE NotDeliverable(s)
  <2>1. UNCHANGED <<status, dvla>> /\ (status # "created" \/ letter.test)
    BY <1>2, <1>4 DEF NotDeliverable, Sendable, At, Row, Outside
  <2> QED
    BY <2>1 DEF CallbackOk
<1>5. CASE PdfNotFound(s) \/ SendLetterFails(s)
  <2>1. handler[s].seen = "created" /\ UpdateStatusById(s, "technical-failure")
    BY <1>5 DEF PdfNotFound, SendLetterFails, Deliverable, Sendable
  <2> QED
    BY <2>1 DEF UpdateStatusById, Write, UpdatableStatuses
<1>6. CASE SendLetter(s)
  <2>1. Goto(s, "accepted") \/ Goto(s, "duplicate")
    BY <1>6 DEF SendLetter
  <2>2. handler'[s].task = "deliver_letter" /\ handler'[s].pc \in {"accepted", "duplicate"}
    BY <1>1, <2>1, GotoOk DEF Pcs
  <2> QED
    BY <2>2 DEF Outstanding, Busy
<1>7. CASE SendLetterRetry(s)
  <2>1. handler[s].seen = "created" /\ RetryOrGiveUp(s, "deliver_letter")
    BY <1>7 DEF SendLetterRetry, Deliverable, Sendable
  <2>2. handler[s].tries \in 0..MaxRetries /\ MaxRetries \in Nat
    BY DEF Typed, Handler, LettersAssumption
  <2>3. CASE handler[s].tries < MaxRetries
    <3>1. <<"deliver_letter", handler[s].tries + 1>> \in Messages
      BY <2>2, <2>3, TaskNames DEF Messages
    <3>2. queue'[<<"deliver_letter", handler[s].tries + 1>>] > 0
      BY <2>1, <2>3, <3>1, PutMore DEF RetryOrGiveUp
    <3> QED
      BY <3>1, <3>2 DEF Outstanding, Queued
  <2>4. CASE ~(handler[s].tries < MaxRetries)
    BY <2>1, <2>4 DEF RetryOrGiveUp, UpdateStatusById, Write, UpdatableStatuses
  <2> QED
    BY <2>3, <2>4
<1>8. CASE MarkSending(s)
  BY <1>8 DEF MarkSending, UpdateLetterToSending, Write
<1>9. CASE MarkSendingFails(s)
  BY <1>9 DEF MarkSendingFails, Fault
<1> QED
  BY <1>3, <1>4, <1>5, <1>6, <1>7, <1>8, <1>9

LEMMA StepFollow ==
  ASSUME LettersAssumption, Typed, Sound, CallbackOk, FollowOk, faults \subseteq faults',
         NEW s \in Slots, Step(s)
  PROVE  FollowOk'
<1>1. /\ Busy(s) /\ HandlerOk(s) /\ \A u \in Slots : Busy(u) => u = s
      /\ \A u \in Slots : Busy(u)' => u = s /\ handler'[u].task = handler[u].task
  BY StepTasks DEF HandlerOk
<1>2. handler[s].pc = "read" => handler[s].seen = status
  BY <1>1 DEF HandlerOk
\* What the step of another handler leaves alone.
<1>3. ASSUME NEW t, t \notin {handler[s].task, "create_pdf", "sanitise_pdf"}
      PROVE  Outstanding({t}) => Outstanding({t})'
  <2>1. Queued({t}) <=> Queued({t})'
    BY <1>3, StepOnly, OnlyOthers
  <2> QED
    BY <1>1, <1>3, <2>1 DEF Outstanding
<1>4. CASE LetterCallback(s)
  <2>1. /\ At(s, "letter_callback", "read") /\ UNCHANGED dvla
        /\ \/ status \in {"delivered", "technical-failure"} /\ status' = status /\ Done(s)
           \/ status' = "technical-failure" /\ Done(s)
           \/ status' = "delivered"
    BY <1>2, <1>4 DEF LetterCallback, AlreadyUpdated, Write, At, Row, Outside
  <2>2. status' \in Reported
    BY <2>1 DEF Reported
  <2>3. CASE Done(s)
    <3>1. \A u \in Slots : ~Busy(u)'
      BY <1>1, <2>3, DonePlain
    <3> QED
      BY <2>2, <3>1 DEF FollowOk, Reported, At, Busy
  <2>4. CASE status' = "delivered"
    BY <2>2, <2>4 DEF FollowOk
  <2> QED
    BY <2>1, <2>3, <2>4
<1>5. CASE RecordDespatch(s)
  <2>1. At(s, "letter_callback", "updated") /\ status' = status /\ Done(s)
    BY <1>5 DEF RecordDespatch, Row
  <2>2. status' = "delivered"
    BY <2>1 DEF FollowOk
  <2> QED
    BY <2>2 DEF FollowOk, Reported
<1>6. CASE ~LetterCallback(s) /\ ~RecordDespatch(s)
  <2>1. handler[s].task # "letter_callback"
    BY <1>6 DEF Step, MoveUploadedPdf, WriteCancelled, GetPdf, UpdateBillableUnits,
       UpdateValidationFailed, SanitiseLetter, ProcessSanitisedAgain,
       ProcessSanitisedFails, MoveInvalidLetter, MarkInvalid, MarkSanitised,
       MoveSanitised, DeleteOriginal, MoveFailedPdf, MarkFailed, NotDeliverable,
       PdfNotFound, SendLetter, SendLetterRetry, SendLetterFails, MarkSending,
       MarkSendingFails, Deliverable, At, Taken
  <2>2. /\ \A u \in Slots : ~At(u, "letter_callback", "updated")'
        /\ Outstanding({"letter_callback"}) => Outstanding({"letter_callback"})'
    BY <1>1, <1>3, <2>1 DEF At, Busy
  <2>3. dvla' \in {"despatched", "rejected"} => dvla' = dvla
    BY <1>6 DEF Step, MoveUploadedPdf, WriteCancelled, GetPdf, UpdateBillableUnits,
       UpdateValidationFailed, SanitiseLetter, ProcessSanitisedAgain,
       ProcessSanitisedFails, MoveInvalidLetter, MarkInvalid, MarkSanitised,
       MoveSanitised, DeleteOriginal, MoveFailedPdf, MarkFailed, NotDeliverable,
       PdfNotFound, SendLetter, SendLetterRetry, SendLetterFails, MarkSending,
       MarkSendingFails, Outside
  <2>4. dvla' \in {"despatched", "rejected"} =>
          status' \in Reported \/ Outstanding({"letter_callback"})'
    <3> SUFFICES ASSUME dvla' \in {"despatched", "rejected"}
                 PROVE  status' \in Reported \/ Outstanding({"letter_callback"})'
      OBVIOUS
    <3>1. dvla' = dvla /\ dvla # "none"
      BY <2>3
    <3>2. \/ status' \in {status, "technical-failure", "cancelled"}
          \/ MarkSending(s)
          \/ UpdateValidationFailed(s) \/ MarkInvalid(s) \/ MarkSanitised(s)
          \/ MarkFailed(s, "virus_found", "virus-scan-failed")
      BY <1>6 DEF Step, MoveUploadedPdf, WriteCancelled, GetPdf, UpdateBillableUnits,
         SanitiseLetter, ProcessSanitisedAgain, ProcessSanitisedFails, MoveInvalidLetter,
         MoveSanitised, DeleteOriginal, MoveFailedPdf, MarkFailed, NotDeliverable,
         PdfNotFound, SendLetter, SendLetterRetry, SendLetterFails, MarkSendingFails,
         RetryOrGiveUp, UpdateStatusById, UpdateLetterPdfStatus, Write, Row
    <3>3. CASE status' \in {status, "technical-failure", "cancelled"}
      BY <2>2, <3>1, <3>3 DEF FollowOk, Reported
    <3>4. CASE MarkSending(s)
      <4>1. status = "created"
        BY <1>1, <3>4 DEF MarkSending, Taken, At, HandlerOk
      <4> QED
        BY <2>2, <3>1, <4>1 DEF FollowOk, Reported
    <3>5. ~UpdateValidationFailed(s)
      BY <1>1, <3>1 DEF UpdateValidationFailed, At, HandlerOk, Fits, Sound, PrinterOk
    <3>6. ~MarkInvalid(s) /\ ~MarkSanitised(s)
      <4>1. status # "pending-virus-check"
        BY <3>1 DEF Sound, PrinterOk
      <4> QED
        BY <1>1, <4>1 DEF MarkInvalid, MarkSanitised, StillPending, At, HandlerOk
    <3>7. ~MarkFailed(s, "virus_found", "virus-scan-failed")
      BY <1>1, <3>1 DEF MarkFailed, At, HandlerOk
    <3> QED
      BY <3>2, <3>3, <3>4, <3>5, <3>6, <3>7
  <2>5. status' = "created" /\ dvla' # "none" /\ "database" \notin faults' =>
          Outstanding({"deliver_letter"})'
    <3>1. CASE handler[s].task = "deliver_letter"
      BY <3>1, DeliverFollow
    <3>2. CASE handler[s].task # "deliver_letter"
      <4>1. Outstanding({"deliver_letter"}) => Outstanding({"deliver_letter"})'
        BY <1>3, <3>2
      <4>2. dvla' = dvla
        BY <1>6, <3>2 DEF Step, MoveUploadedPdf, WriteCancelled, GetPdf,
           UpdateBillableUnits,
           UpdateValidationFailed, SanitiseLetter, ProcessSanitisedAgain,
           ProcessSanitisedFails, MoveInvalidLetter, MarkInvalid, MarkSanitised,
           MoveSanitised, DeleteOriginal, MoveFailedPdf, MarkFailed, NotDeliverable,
           PdfNotFound, SendLetter, SendLetterRetry, SendLetterFails, MarkSending,
           MarkSendingFails, Deliverable, Taken, At, Outside
      <4>3. status' = "created" => status = "created" \/ dvla = "none"
        <5>1. status' = "created" => status = "created" \/ MarkSanitised(s)
          BY <1>6 DEF Step, MoveUploadedPdf, WriteCancelled, GetPdf, UpdateBillableUnits,
             UpdateValidationFailed, SanitiseLetter, ProcessSanitisedAgain,
             ProcessSanitisedFails, MoveInvalidLetter, MarkInvalid, MoveSanitised,
             DeleteOriginal, MoveFailedPdf, MarkFailed, NotDeliverable, PdfNotFound,
             SendLetter, SendLetterRetry, SendLetterFails, MarkSending, MarkSendingFails,
             UpdateLetterToSending, RetryOrGiveUp, UpdateStatusById,
             UpdateLetterPdfStatus, Write, Row
        <5>2. MarkSanitised(s) => status = "pending-virus-check"
          BY <1>1 DEF MarkSanitised, StillPending, At, HandlerOk
        <5> QED
          BY <5>1, <5>2 DEF Sound, PrinterOk
      <4> QED
        BY <4>1, <4>2, <4>3 DEF FollowOk
    <3> QED
      BY <3>1, <3>2
  <2> QED
    BY <2>2, <2>4, <2>5 DEF FollowOk
<1> QED
  BY <1>4, <1>5, <1>6

LEMMA OutsideFollow ==
  ASSUME LettersAssumption, Typed, Sound, FollowOk, Quiet', "loss" \notin faults',
         faults \subseteq faults',
         OtherApps \/ Scheduled \/ DvlaPrints \/ ReturnLetter \/ Faults
  PROVE  FollowOk'
<1>1. ASSUME UNCHANGED <<status, dvla, handler>>, NEW t,
             Queued({t}) => Queued({t})'
      PROVE  Outstanding({t}) => Outstanding({t})'
  BY <1>1 DEF Outstanding, Busy
<1>2. ASSUME UNCHANGED <<status, dvla, handler>>,
             Queued({"deliver_letter"}) => Queued({"deliver_letter"})',
             Queued({"letter_callback"}) => Queued({"letter_callback"})'
      PROVE  FollowOk'
  BY <1>1, <1>2 DEF FollowOk, At
<1>3. CASE OtherApps
  <2>1. UNCHANGED <<status, dvla, handler>>
    BY <1>3 DEF OtherApps, CreatePdf, ScanFile, SanitisePdf, Row, Outside
  <2>2. PICK m \in Messages :
          /\ queue[m] > 0 /\ m[1] \in {"create_pdf", "antivirus", "sanitise_pdf"}
          /\ \/ queue' = Take(queue, m)
             \/ \E t \in {"billable_units", "too_long", "virus_found", "sanitise_letter",
                          "scan_error", "process_sanitised"} :
                  queue' = Put(Take(queue, m), t, 0)
    BY <1>3 DEF OtherApps, CreatePdf, ScanFile, SanitisePdf
  <2>3. \/ OnlyTasks({m[1]})
        \/ \E t \in {"billable_units", "too_long", "virus_found", "sanitise_letter",
                     "scan_error", "process_sanitised"} : OnlyTasks({m[1], t})
    BY <2>2, TakeOnly, PassOnly, TaskNames
  <2>4. \A n \in Messages : n[1] \in {"deliver_letter", "letter_callback"} =>
          queue'[n] = queue[n]
    BY <2>2, <2>3 DEF OnlyTasks
  <2> QED
    BY <1>2, <2>1, <2>4 DEF Queued
<1>4. CASE Scheduled \/ ReplayLetterInError
  <2>1. /\ UNCHANGED <<status, dvla, handler>>
        /\ \/ queue' = queue
           \/ \E t \in {"deliver_letter", "get_pdf", "antivirus"} : Send(t)
    BY <1>4 DEF Scheduled, Collate, ReplayCreatedLetter, CheckPendingVirusCheck,
       ReplayLetterInError, Row, Outside
  <2>2. \A m \in Messages : queue[m] > 0 => queue'[m] > 0
    BY <2>1, SentMore, TaskNames
  <2> QED
    BY <1>2, <2>1, <2>2, MoreQueued
<1>5. ASSUME NEW m \in Messages, Redeliver(m) PROVE FollowOk'
  <2>1. m = <<m[1], m[2]>>
    BY DEF Messages
  <2>2. UNCHANGED <<status, dvla, handler>> /\ queue' = Put(queue, m[1], m[2])
    BY <1>5 DEF Redeliver, Row, Outside
  <2>3. \A n \in Messages : queue[n] > 0 => queue'[n] > 0
    BY <2>1, <2>2, PutMore
  <2> QED
    BY <1>2, <2>2, <2>3, MoreQueued
<1>6. CASE DvlaPrints
  <2>1. /\ dvla = "accepted" /\ UNCHANGED <<status, handler>> /\ Send("letter_callback")
    BY <1>6 DEF DvlaPrints, Row
  <2>2. /\ \A m \in Messages : queue[m] > 0 => queue'[m] > 0
        /\ Queued({"letter_callback"})'
    BY <2>1, SentMore, TaskNames
  <2>3. /\ Outstanding({"letter_callback"})'
        /\ Outstanding({"deliver_letter"}) => Outstanding({"deliver_letter"})'
    BY <2>1, <2>2, MoreQueued DEF Outstanding, Busy
  <2> QED
    BY <2>1, <2>3 DEF FollowOk, At
<1>7. CASE ReturnLetter
  <2>1. status' = "returned-letter" /\ ~Working /\ UNCHANGED handler
    BY <1>7 DEF ReturnLetter
  <2> QED
    BY <2>1 DEF FollowOk, Reported, Working, At
<1>8. ASSUME NEW s \in Slots PROVE ~Crash(s)
  BY DEF Crash, Fault, Quiet
<1>9. ASSUME NEW m \in Messages PROVE ~Lose(m)
  BY DEF Lose, Fault
<1> QED
  BY <1>3, <1>4, <1>5, <1>6, <1>7, <1>8, <1>9 DEF Faults

FollowInv == AnswerInv /\ (Quiet /\ "loss" \notin faults => FollowOk)

LEMMA NextFollow ==
  ASSUME LettersAssumption, FollowInv, [Next]_vars
  PROVE  FollowInv'
<1>1. AnswerInv'
  BY NextAnswerInv DEF FollowInv
<1>2. ASSUME Quiet', "loss" \notin faults' PROVE FollowOk'
  <2>1. Quiet /\ "loss" \notin faults /\ faults \subseteq faults'
    BY <1>2, FaultsGrow DEF Quiet
  <2>2. Typed /\ Sound /\ CallbackOk /\ FollowOk
    BY <2>1 DEF AnswerInv, FollowInv
  <2>3. CASE UNCHANGED vars
    BY <2>2, <2>3 DEF vars, FollowOk, Outstanding, Queued, Busy, At, Row, Outside
  <2> QED
    BY <1>2, <2>1, <2>2, <2>3, RequestFollow, BeginFollow, StepFollow,
       OutsideFollow DEF Next
<1> QED
  BY <1>1, <1>2 DEF FollowInv

LEMMA FollowMeets == FollowInv => NothingForgotten
<1> SUFFICES ASSUME FollowInv, Calm({"overlap", "worker", "loss"})
             PROVE  /\ status = "created" /\ dvla # "none" =>
                         Queued({"deliver_letter"}) \/ "database" \in faults
                    /\ dvla \in {"despatched", "rejected"} =>
                         Queued({"letter_callback"}) \/ status \in Reported
  BY DEF NothingForgotten, Reported
<1>1. FollowOk /\ \A u \in Slots : ~Busy(u)
  BY DEF FollowInv, Calm, Quiet, Working, Busy
<1> QED
  BY <1>1 DEF FollowOk, Outstanding

-----------------------------------------------------------------------------
(* The answer of the printer is recorded, or on its way.                   *)

\* What leaves the callback's messages alone.
LEMMA OnlyAnswers ==
  ASSUME NEW T, OnlyTasks(T), "letter_callback" \notin T
  PROVE  Queued({"letter_callback"}) <=> Queued({"letter_callback"})'
BY DEF OnlyTasks, Queued

LEMMA OutsideOnly ==
  ASSUME LettersAssumption, Typed, OtherApps \/ Scheduled \/ ReplayLetterInError
  PROVE  OnlyTasks((ApiTasks \cup ExternalTasks) \ {"letter_callback"})
<1>1. CASE OtherApps
  <2>1. PICK m \in Messages :
          /\ queue[m] > 0 /\ m[1] \in {"create_pdf", "antivirus", "sanitise_pdf"}
          /\ \/ queue' = Take(queue, m)
             \/ \E t \in {"billable_units", "too_long", "virus_found", "sanitise_letter",
                          "scan_error", "process_sanitised"} :
                  queue' = Put(Take(queue, m), t, 0)
    BY <1>1 DEF OtherApps, CreatePdf, ScanFile, SanitisePdf
  <2>2. \/ OnlyTasks({m[1]})
        \/ \E t \in {"billable_units", "too_long", "virus_found", "sanitise_letter",
                     "scan_error", "process_sanitised"} : OnlyTasks({m[1], t})
    BY <2>1, TakeOnly, PassOnly, TaskNames
  <2> QED
    BY <2>1, <2>2, TaskNames DEF OnlyTasks
<1>2. CASE Scheduled \/ ReplayLetterInError
  <2>1. \/ queue' = queue
        \/ \E t \in {"deliver_letter", "get_pdf", "antivirus"} : Send(t)
    BY <1>2 DEF Scheduled, Collate, ReplayCreatedLetter, CheckPendingVirusCheck,
       ReplayLetterInError
  <2>2. queue' = queue \/ \E t \in {"deliver_letter", "get_pdf", "antivirus"} : OnlyTasks({t})
    BY <2>1, SendOnly, TaskNames
  <2> QED
    BY <2>2, TaskNames DEF OnlyTasks
<1> QED
  BY <1>1, <1>2

LEMMA RequestRecord ==
  ASSUME LettersAssumption, Typed, Sound, PrintOk, RecordOk, Quiet', Requests
  PROVE  RecordOk'
<1>1. ASSUME dvla' = "none", \A u \in Slots : ~At(u, "letter_callback", "updated")'
      PROVE  RecordOk'
  BY <1>1 DEF RecordOk
<1>2. CASE PostLetter \/ PostPrecompiledLetter
  <2>1. status = Absent /\ UNCHANGED <<handler, dvla>>
    BY <1>2 DEF PostLetter, PostPrecompiledLetter, Order, Outside
  <2>2. (\A u \in Slots : ~Busy(u)) /\ dvla' = "none"
    BY <2>1, AbsentFacts
  <2> QED
    BY <1>1, <2>1, <2>2 DEF At, Taken, Busy
<1>3. CASE CancelLetterJob
  <2>1. /\ UNCHANGED <<dvla, handler>> /\ status' = "cancelled"
        /\ \A u \in Slots : handler[u].pc = "idle"
        /\ status \in {"created", "technical-failure", "validation-failed"}
    BY <1>3, AloneIdle DEF CancelLetterJob, Outside
  <2>2. dvla' \in {"none", "rejected"}
    BY <2>1 DEF PrintOk, At, Taken
  <2> QED
    BY <2>1, <2>2 DEF RecordOk, At, Taken
<1>4. ASSUME NEW s \in Slots, SendUploadedLetter(s) PROVE RecordOk'
  <2> DEFINE h == [IdleHandler EXCEPT !.task = "upload", !.pc = "persisted"]
  <2>1. status = Absent /\ UNCHANGED dvla /\ handler' = [handler EXCEPT ![s] = h]
    BY <1>4 DEF SendUploadedLetter, Order, Outside
  <2>2. h.task = "upload"
    BY DEF IdleHandler
  <2> HIDE DEF h
  <2>3. (\A u \in Slots : ~Busy(u)) /\ dvla' = "none"
    BY <2>1, AbsentFacts
  <2>4. handler'[s] = h /\ \A u \in Slots \ {s} : handler'[u] = handler[u]
    BY <2>1 DEF Typed
  <2> QED
    BY <1>1, <2>2, <2>3, <2>4 DEF At, Taken, Busy
<1>5. ASSUME NEW s \in Slots, CancelLetter(s) PROVE RecordOk'
  <2> DEFINE h == [task |-> "cancel", pc |-> "read", tries |-> 0, seen |-> status]
  <2>1. /\ UNCHANGED dvla /\ status \in {"created", "pending-virus-check"}
        /\ \A u \in Slots : handler[u].pc = "idle"
        /\ handler' = [handler EXCEPT ![s] = h]
    BY <1>5, AloneIdle DEF CancelLetter, CanBeCancelled, Outside
  <2>2. h.task = "cancel"
    OBVIOUS
  <2> HIDE DEF h
  <2>3. handler'[s] = h /\ \A u \in Slots \ {s} : handler'[u] = handler[u]
    BY <2>1 DEF Typed
  <2>4. dvla' = "none"
    BY <2>1 DEF PrintOk, At, Taken, Sound, PrinterOk
  <2> QED
    BY <1>1, <2>1, <2>2, <2>3, <2>4 DEF At, Taken
<1> QED
  BY <1>2, <1>3, <1>4, <1>5 DEF Requests

LEMMA BeginRecord ==
  ASSUME LettersAssumption, Typed, Sound, RecordOk, Quiet',
         NEW s \in Slots, NEW m \in Messages, Begin(s, m)
  PROVE  RecordOk'
<1>1. /\ \A u \in Slots : ~Busy(u)
      /\ \A u \in Slots : Busy(u)' => u = s
      /\ handler'[s].task = m[1] /\ handler'[s].pc = "read"
      /\ queue[m] > 0 /\ queue' = Take(queue, m) /\ UNCHANGED <<status, dvla>>
  BY BeginFacts DEF Row, Outside
<1>2. \A n \in Messages : n # m => queue'[n] = queue[n]
  BY <1>1, TakeElse DEF Typed
<1>3. Outstanding({"letter_callback"}) => Outstanding({"letter_callback"})'
  BY <1>1, <1>2 DEF Outstanding, Queued, Busy
<1>4. \A u \in Slots : /\ ~Taken(u)
                       /\ ~At(u, "letter_callback", "updated")'
  BY <1>1 DEF At, Taken, Busy
<1> QED
  BY <1>1, <1>3, <1>4 DEF RecordOk, OnItsWay

LEMMA StepRecord ==
  ASSUME LettersAssumption, Typed, Sound, PlacesOk, CallbackOk, PrintOk, PrintOk', RecordOk,
         Orderly', NEW s \in Slots, Step(s)
  PROVE  RecordOk'
<1>1. /\ Busy(s) /\ HandlerOk(s) /\ \A u \in Slots : Busy(u) => u = s
      /\ \A u \in Slots : Busy(u)' => u = s /\ handler'[u].task = handler[u].task
  BY StepTasks DEF HandlerOk
<1>2. handler[s].pc = "read" => handler[s].seen = status
  BY <1>1 DEF HandlerOk
<1>3. CASE LetterCallback(s)
  <2>1. /\ At(s, "letter_callback", "read") /\ UNCHANGED dvla
        /\ \/ AlreadyUpdated(s) /\ status' = status /\ Done(s)
           \/ dvla = "rejected" /\ status' = "technical-failure" /\ Done(s)
           \/ dvla # "rejected" /\ status' = "delivered"
    BY <1>3 DEF LetterCallback, Write, Row, Outside
  <2>2. Outstanding({"letter_callback"}) /\ \A u \in Slots : ~Taken(u)
    BY <1>1, <2>1 DEF Outstanding, At, Taken, Busy
  <2>3. dvla # "accepted"
    BY <2>2 DEF CallbackOk
  <2>4. CASE AlreadyUpdated(s) /\ status' = status /\ Done(s)
    <3>1. status \in {"delivered", "technical-failure"}
      BY <1>2, <2>1, <2>4 DEF AlreadyUpdated, At, Taken
    <3>2. \A u \in Slots : ~At(u, "letter_callback", "updated")'
      BY <1>1, <2>4, DonePlain DEF At, Taken, Busy
    <3> QED
      BY <2>1, <2>2, <2>3, <2>4, <3>1, <3>2 DEF RecordOk, OnItsWay
  <2>5. CASE dvla = "rejected" /\ status' = "technical-failure" /\ Done(s)
    <3>1. \A u \in Slots : ~At(u, "letter_callback", "updated")'
      BY <1>1, <2>5, DonePlain DEF At, Taken, Busy
    <3> QED
      BY <2>1, <2>5, <3>1 DEF RecordOk
  <2>6. CASE dvla # "rejected" /\ status' = "delivered"
    BY <2>1, <2>3, <2>6 DEF RecordOk
  <2> QED
    BY <2>1, <2>4, <2>5, <2>6
<1>4. CASE RecordDespatch(s)
  <2>1. At(s, "letter_callback", "updated") /\ UNCHANGED <<status, dvla>> /\ Done(s)
    BY <1>4 DEF RecordDespatch, Row
  <2>2. /\ status = "delivered"
        /\ \A u \in Slots : ~Taken(u)
    BY <1>1, <2>1 DEF RecordOk, At, Taken, Busy
  <2> QED
    BY <2>1, <2>2 DEF RecordOk, OnItsWay
<1>5. CASE SendLetter(s)
  <2>1. /\ At(s, "deliver_letter", "read") /\ handler[s].seen = "created"
        /\ dvla' = (IF dvla = "none" THEN "accepted" ELSE dvla)
        /\ Goto(s, "accepted") \/ Goto(s, "duplicate")
    BY <1>5 DEF SendLetter, Deliverable, Sendable
  <2>2. dvla' = "accepted"
    BY <1>1, <1>2, <2>1 DEF PrintOk, At, Taken, Busy
  <2>3. handler'[s].task = "deliver_letter" /\ handler'[s].pc \in {"accepted", "duplicate"}
    BY <1>1, <2>1, GotoOk DEF At, Taken, Pcs
  <2>4. /\ Taken(s)'
        /\ \A u \in Slots : ~At(u, "letter_callback", "updated")'
    BY <1>1, <2>3 DEF At, Taken, Busy
  <2> QED
    BY <2>2, <2>4 DEF RecordOk
<1>8. ASSUME MarkSendingFails(s) PROVE FALSE
  BY <1>8 DEF MarkSendingFails, Fault, Orderly
<1>6. CASE MarkSending(s)
  <2>1. /\ Taken(s) /\ Done(s) /\ status' = "sending"
        /\ UNCHANGED <<queue, dvla>>
    BY <1>6 DEF MarkSending, MarkSendingFails, UpdateLetterToSending, Write, Outside
  <2>2. status = "created"
    BY <1>1, <2>1 DEF HandlerOk, At, Taken
  <2>3. \A u \in Slots : ~At(u, "letter_callback", "updated")'
    BY <1>1, <2>1, DonePlain DEF At, Taken, Busy
  <2>4. dvla \in {"despatched", "rejected"} => Outstanding({"letter_callback"})'
    BY <2>1, <2>2 DEF RecordOk, OnItsWay, Outstanding, Queued
  <2> QED
    BY <2>1, <2>3, <2>4 DEF RecordOk, OnItsWay
<1>7. CASE /\ ~LetterCallback(s) /\ ~RecordDespatch(s) /\ ~SendLetter(s)
           /\ ~MarkSending(s) /\ ~MarkSendingFails(s)
  <2>1. handler[s].task # "letter_callback" /\ ~Taken(s)
    BY <1>7 DEF Step, MoveUploadedPdf, WriteCancelled, GetPdf, UpdateBillableUnits,
       UpdateValidationFailed, SanitiseLetter, ProcessSanitisedAgain,
       ProcessSanitisedFails, MoveInvalidLetter, MarkInvalid, MarkSanitised,
       MoveSanitised, DeleteOriginal, MoveFailedPdf, MarkFailed, NotDeliverable,
       PdfNotFound, SendLetterRetry, SendLetterFails, Deliverable, At, Taken
  <2>2. \A u \in Slots : /\ ~At(u, "letter_callback", "updated")'
                         /\ ~Taken(u)
    BY <1>1, <2>1 DEF At, Taken, Busy
  <2>3. dvla' = dvla
    <3>1. SendLetterRetry(s) => dvla' = dvla
      BY DEF SendLetterRetry, Fault, Orderly
    <3> QED
      BY <1>7, <3>1 DEF Step, MoveUploadedPdf, WriteCancelled, GetPdf, UpdateBillableUnits,
         UpdateValidationFailed, SanitiseLetter, ProcessSanitisedAgain,
         ProcessSanitisedFails, MoveInvalidLetter, MarkInvalid, MarkSanitised,
         MoveSanitised, DeleteOriginal, MoveFailedPdf, MarkFailed, NotDeliverable,
         PdfNotFound, SendLetterFails, Outside
  <2>4. CASE status' = status
    <3>1. Queued({"letter_callback"}) => Queued({"letter_callback"})'
      BY <2>1, StepOnly, OnlyAnswers
    <3>2. Outstanding({"letter_callback"}) => Outstanding({"letter_callback"})'
      BY <1>1, <2>1, <3>1 DEF Outstanding
    <3> QED
      BY <2>2, <2>3, <2>4, <3>2 DEF RecordOk, OnItsWay
  <2>5. CASE status' \in {"technical-failure", "cancelled"}
    BY <2>2, <2>5 DEF RecordOk, PrintOk
  <2>6. CASE dvla = "none"
    BY <2>2, <2>3, <2>6 DEF RecordOk
  <2>7. \/ status' \in {status, "technical-failure", "cancelled"}
        \/ UpdateValidationFailed(s) \/ MarkInvalid(s) \/ MarkSanitised(s)
        \/ MarkFailed(s, "virus_found", "virus-scan-failed")
    BY <1>7 DEF Step, MoveUploadedPdf, WriteCancelled, GetPdf, UpdateBillableUnits,
       SanitiseLetter, ProcessSanitisedAgain,
       ProcessSanitisedFails, MoveInvalidLetter,
       MoveSanitised, DeleteOriginal, MoveFailedPdf, MarkFailed, NotDeliverable,
       PdfNotFound, SendLetterRetry, SendLetterFails, RetryOrGiveUp, UpdateStatusById,
       UpdateLetterPdfStatus, Write, Row
  <2>8. CASE UpdateValidationFailed(s)
    BY <1>1, <2>6, <2>8 DEF UpdateValidationFailed, At, Taken, HandlerOk, Fits, Sound,
       PrinterOk
  <2>9. CASE MarkInvalid(s) \/ MarkSanitised(s)
    <3>1. status = "pending-virus-check"
      BY <1>1, <2>9 DEF MarkInvalid, MarkSanitised, StillPending, At, Taken, HandlerOk
    <3> QED
      BY <2>6, <3>1 DEF Sound, PrinterOk
  <2>10. CASE MarkFailed(s, "virus_found", "virus-scan-failed")
    BY <1>1, <2>6, <2>10 DEF MarkFailed, At, Taken, HandlerOk
  <2> QED
    BY <2>4, <2>5, <2>7, <2>8, <2>9, <2>10
<1> QED
  BY <1>3, <1>4, <1>5, <1>6, <1>7, <1>8

LEMMA OutsideRecord ==
  ASSUME LettersAssumption, Typed, Sound, RecordOk, Orderly', "loss" \notin faults',
         OtherApps \/ Scheduled \/ DvlaPrints \/ ReturnLetter \/ Faults
  PROVE  RecordOk'
<1>1. CASE DvlaPrints
  <2>1. /\ dvla = "accepted" /\ dvla' \in {"despatched", "rejected"}
        /\ UNCHANGED <<status, handler>> /\ Send("letter_callback")
    BY <1>1 DEF DvlaPrints, Row
  <2>2. Queued({"letter_callback"})'
    <3>1. <<"letter_callback", 0>> \in Messages
      BY TaskMessages, TaskNames
    <3>2. queue'[<<"letter_callback", 0>>] > 0
      BY <2>1, <3>1, PutElse DEF Send, Typed
    <3> QED
      BY <3>1, <3>2 DEF Queued
  <2>3. OnItsWay'
    BY <2>1, <2>2 DEF RecordOk, OnItsWay, Outstanding, At, Taken
  <2> QED
    BY <2>1, <2>3 DEF RecordOk, At, Taken
<1>2. CASE ReturnLetter
  <2>1. /\ dvla' = "despatched" /\ status' = "returned-letter" /\ ~Working /\ UNCHANGED handler
    BY <1>2 DEF ReturnLetter, Outside
  <2>2. \A u \in Slots : ~At(u, "letter_callback", "updated")'
    BY <2>1 DEF Working, At, Taken
  <2> QED
    BY <2>1, <2>2 DEF RecordOk
<1>3. CASE OtherApps \/ Scheduled \/ ReplayLetterInError
  <2>1. UNCHANGED <<status, dvla, handler>>
    BY <1>3 DEF OtherApps, CreatePdf, ScanFile, SanitisePdf, Scheduled, Collate,
       ReplayCreatedLetter, CheckPendingVirusCheck, ReplayLetterInError, Row, Outside
  <2>2. Queued({"letter_callback"}) => Queued({"letter_callback"})'
    BY <1>3, OutsideOnly, OnlyAnswers
  <2> QED
    BY <2>1, <2>2 DEF RecordOk, OnItsWay, Outstanding, Busy, At, Taken
<1>4. Faults => ReplayLetterInError
  BY DEF Faults, Crash, Redeliver, Lose, Fault, Orderly
<1> QED
  BY <1>1, <1>2, <1>3, <1>4

RecordInv == OrderInv /\ (Orderly /\ "loss" \notin faults => RecordOk)

LEMMA NextRecord ==
  ASSUME LettersAssumption, RecordInv, [Next]_vars
  PROVE  RecordInv'
<1>1. OrderInv'
  BY NextOrder DEF RecordInv
<1>2. ASSUME Orderly', "loss" \notin faults' PROVE RecordOk'
  <2>1. Orderly /\ Quiet' /\ "loss" \notin faults
    BY <1>2, FaultsGrow DEF Orderly, Quiet
  <2>2. /\ Typed /\ Sound /\ PlacesOk /\ CallbackOk /\ PrintOk /\ RecordOk
        /\ PrintOk'
    BY <1>1, <1>2, <2>1 DEF OrderInv, RecordInv
  <2>3. CASE UNCHANGED vars
    BY <2>2, <2>3 DEF vars, RecordOk, OnItsWay, Outstanding, Queued, Busy, At, Taken, Row,
       Outside
  <2> QED
    BY <1>2, <2>1, <2>2, <2>3, RequestRecord, BeginRecord, StepRecord,
       OutsideRecord DEF Next
<1> QED
  BY <1>1, <1>2 DEF RecordInv

LEMMA RecordsMeet == RecordInv => RowIsExact
<1> SUFFICES ASSUME RecordInv,
                    Calm({"overlap", "worker", "answer lost", "loss", "redelivery", "slow",
                          "database"})
             PROVE  /\ dvla = "accepted" => status = "sending"
                    /\ dvla = "despatched" =>
                         \/ status \in {"delivered", "returned-letter"}
                         \/ status = "sending" /\ Queued({"letter_callback"})
                    /\ dvla = "rejected" =>
                         \/ status \in {"technical-failure", "cancelled"}
                         \/ status = "sending" /\ Queued({"letter_callback"})
  BY DEF RowIsExact
<1>1. RecordOk /\ \A u \in Slots : ~Busy(u)
  BY DEF RecordInv, Calm, Orderly, Working, Busy
<1>2. /\ \A u \in Slots : ~Taken(u)
      /\ Outstanding({"letter_callback"}) => Queued({"letter_callback"})
  BY <1>1 DEF At, Taken, Busy, Outstanding
<1> QED
  BY <1>1, <1>2 DEF RecordOk, OnItsWay

\* What the printer did is in the row, or something is left that will record it, once
\* no handler is at work: the row is exact when nothing failed, and a lost answer of
\* the printer is followed by a retry.
THEOREM PrintedStaysRecorded == Spec => []PrintedIsRecorded
<1>1. Init => RecordInv /\ FollowInv
  <2> SUFFICES ASSUME Init PROVE RecordInv /\ FollowInv
    OBVIOUS
  <2>1. /\ OrderInv /\ AnswerInv
        /\ \A u \in Slots : handler[u].pc = "idle"
    BY LettersAssumption, InitOrder, InitAnswer, Idle DEF Init
  <2>2. RecordOk /\ FollowOk
    BY <2>1 DEF RecordOk, FollowOk, Init, At
  <2> QED
    BY <2>1, <2>2 DEF RecordInv, FollowInv
<1>2. RecordInv /\ FollowInv /\ [Next]_vars => RecordInv' /\ FollowInv'
  BY LettersAssumption, NextRecord, NextFollow
<1>3. RecordInv /\ FollowInv => PrintedIsRecorded
  BY RecordsMeet, FollowMeets DEF PrintedIsRecorded
<1> QED
  BY <1>1, <1>2, <1>3, PTL DEF Spec
=============================================================================
