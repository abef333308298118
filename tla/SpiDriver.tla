----------------------------- MODULE SpiDriver -----------------------------
(***************************************************************************)
(* The two instances of the static SPI driver in polled mode               *)
(* (drv_spi_static*.c): 0 on SPI_ID_2, 1 on SPI_ID_1.  Clients queue jobs; *)
(* each turn of the main loop gives each instance one pass of its tasks,   *)
(* then runs the application.  Beside it the hardware shifts the symbols   *)
(* of the transmit FIFO into the receive FIFO, timer 3's interrupt writes  *)
(* the DAC on instance 1's bus without ever reading an answer, and the     *)
(* application writes the display on instance 0's bus and throws every     *)
(* answer away (Mc32SpiUtil.c: spi_write1, spi_write2).  A job is its four *)
(* counts: what its bytes are changes nothing.                             *)
(***************************************************************************)
EXTENDS SpiQueue

CONSTANTS
  FifoSize,        \* symbols in each FIFO, 16
  ReadSizes, WriteSizes,   \* lengths clients ask for
  WriteReadSizes,  \* pairs of lengths written and read
  ExchangeSizes,   \* lengths of the blocking exchanges
  ConfiguredBus,   \* the buses whose clients configure them
  SharedBus        \* the buses something else writes on

Bus == {0, 1}

ASSUME DriverAssumption ==
  /\ Queues = Bus /\ SharedBus \subseteq Bus /\ ConfiguredBus \subseteq Bus
  /\ FifoSize \in 1..255
  /\ ReadSizes \subseteq Nat /\ WriteSizes \subseteq Nat
  /\ WriteReadSizes \subseteq Nat \X Nat /\ ExchangeSizes \subseteq Nat

VARIABLES
  pool,   \* the queue manager's data
  job,    \* the job object in each element
  obj,    \* gDrvSPI0Obj, gDrvSPI1Obj; sel: between operationStarting and Ended
  hw,     \* the FIFOs of each bus: symbols to transmit, received, and SPIROV
  loop,   \* where the main loop is, with the locals of the call it is in
  fault,  \* "null job" once the processor is stopped by a read through NULL
  disturbed   \* history: the buses something else has written on

spiVars == <<pool, job, obj, hw, loop, fault, disturbed>>

Job == [dataLeftToTx : Nat, dummyLeftToTx : Nat,
        dataLeftToRx : Nat, dummyLeftToRx : Nat]
Object == [currentJob : Pointer, operationStarting : BOOLEAN,
           operationEnded : BOOLEAN, symbolsInProgress : 0..255, sel : BOOLEAN]
Hardware == [tx : 0..FifoSize, rx : 0..FifoSize, rov : BOOLEAN]

NoJob == [dataLeftToTx |-> 0, dummyLeftToTx |-> 0,
          dataLeftToRx |-> 0, dummyLeftToRx |-> 0]

\* The main loop in the application, or at a step of a bus's tasks.
App == [bus |-> 0, step |-> "app", job |-> NULL]
AtStep(b, s) == loop.bus = b /\ loop.step = s
GoTo(b, s) == loop' = [loop EXCEPT !.bus = b, !.step = s]

\* SYS_Tasks: bus 0, bus 1, the application.
NextBus(b) ==
  loop' = IF b = 0 THEN [bus |-> 1, step |-> "tasks", job |-> NULL] ELSE App

leastOf(a, b) == IF a < b THEN a ELSE b
mostOf(a, b) == IF a < b THEN b ELSE a

LeftToTx(e) == job[e].dataLeftToTx + job[e].dummyLeftToTx
LeftToRx(e) == job[e].dataLeftToRx + job[e].dummyLeftToRx
-----------------------------------------------------------------------------
InitialObject == [currentJob |-> NULL, operationStarting |-> FALSE,
                  operationEnded |-> FALSE, symbolsInProgress |-> 0,
                  sel |-> FALSE]

SpiInit ==
  /\ pool = Initialize
  /\ job = [e \in Element |-> NoJob]
  /\ obj = [b \in Bus |-> InitialObject]
  /\ hw = [b \in Bus |-> [tx |-> 0, rx |-> 0, rov |-> FALSE]]
  /\ loop = [bus |-> 0, step |-> "boot", job |-> NULL]
  /\ fault = "no" /\ disturbed = {}

\* Instance 0 creates the manager, each instance its queue.
InitializeInstance(b) ==
  /\ AtStep(b, "boot")
  /\ ~CreateQueueRefused(pool)
  /\ pool' = CreateQueue(pool, b)
  /\ IF b = 0 THEN GoTo(1, "boot") ELSE GoTo(0, "open")
  /\ UNCHANGED <<job, obj, hw, fault, disturbed>>

DRV_SPI0_Initialize == InitializeInstance(0)
DRV_SPI1_Initialize == InitializeInstance(1)
DRV_SPI_Initialize(index) ==
  \/ index = 0 /\ DRV_SPI0_Initialize
  \/ index = 1 /\ DRV_SPI1_Initialize
-----------------------------------------------------------------------------
\* The job objects the calls fill in.
ReadJob(size) ==
  [NoJob EXCEPT !.dataLeftToRx = size, !.dummyLeftToTx = size]
WriteJob(size) ==
  [NoJob EXCEPT !.dataLeftToTx = size, !.dummyLeftToRx = size]
WriteReadJob(txSize, rxSize) ==
  [dataLeftToTx |-> txSize, dataLeftToRx |-> rxSize,
   dummyLeftToTx |-> IF rxSize > txSize THEN rxSize - txSize ELSE 0,
   dummyLeftToRx |-> IF txSize > rxSize THEN txSize - rxSize ELSE 0]

JobsOffered ==
  {ReadJob(n) : n \in ReadSizes} \union {WriteJob(n) : n \in WriteSizes}
    \union {WriteReadJob(s[1], s[2]) : s \in WriteReadSizes}

\* No client asks for a transfer of nothing.  The driver does not refuse one.
NoEmptyJob ==
  \A j \in JobsOffered : j.dataLeftToRx + j.dummyLeftToRx # 0

\* A job is queued, or the call returns NULL and leaves everything alone.
BufferAdd(b, j) ==
  /\ ~AllocElementRefused(pool, b)
  /\ LET e == ElementOf(pool) IN
     /\ pool' = EnqueueLock(AllocElementLock(pool, b), b, e)
     /\ job' = [job EXCEPT ![e] = j]

Call(b, j) ==
  loop = App /\ BufferAdd(b, j) /\ UNCHANGED <<obj, hw, loop, fault, disturbed>>

DRV_SPI0_BufferAddRead2 == \E n \in ReadSizes : Call(0, ReadJob(n))
DRV_SPI0_BufferAddWrite2 == \E n \in WriteSizes : Call(0, WriteJob(n))
DRV_SPI0_BufferAddWriteRead2 ==
  \E s \in WriteReadSizes : Call(0, WriteReadJob(s[1], s[2]))
DRV_SPI1_BufferAddRead2 == \E n \in ReadSizes : Call(1, ReadJob(n))
DRV_SPI1_BufferAddWrite2 == \E n \in WriteSizes : Call(1, WriteJob(n))
DRV_SPI1_BufferAddWriteRead2 ==
  \E s \in WriteReadSizes : Call(1, WriteReadJob(s[1], s[2]))
DRV_SPI0_BufferAddWriteReadNew == DRV_SPI0_BufferAddWriteRead2
DRV_SPI1_BufferAddWriteReadNew == DRV_SPI1_BufferAddWriteRead2

DRV_SPI_BufferAddRead2(handle) ==
  \/ handle = 0 /\ DRV_SPI0_BufferAddRead2
  \/ handle = 1 /\ DRV_SPI1_BufferAddRead2
DRV_SPI_BufferAddWrite2(handle) ==
  \/ handle = 0 /\ DRV_SPI0_BufferAddWrite2
  \/ handle = 1 /\ DRV_SPI1_BufferAddWrite2
DRV_SPI_BufferAddWriteRead2(handle) ==
  \/ handle = 0 /\ DRV_SPI0_BufferAddWriteRead2
  \/ handle = 1 /\ DRV_SPI1_BufferAddWriteRead2

\* The same calls without a place for the handle.
DRV_SPI0_BufferAddRead == DRV_SPI0_BufferAddRead2
DRV_SPI1_BufferAddRead == DRV_SPI1_BufferAddRead2
DRV_SPI0_BufferAddWrite == DRV_SPI0_BufferAddWrite2
DRV_SPI1_BufferAddWrite == DRV_SPI1_BufferAddWrite2

DRV_SPI_BufferAddRead(handle) ==
  \/ handle = 0 /\ DRV_SPI0_BufferAddRead
  \/ handle = 1 /\ DRV_SPI1_BufferAddRead
DRV_SPI_BufferAddWrite(handle) ==
  \/ handle = 0 /\ DRV_SPI0_BufferAddWrite
  \/ handle = 1 /\ DRV_SPI1_BufferAddWrite
DRV_SPI_BufferAddWriteRead(handle) ==
  \/ handle = 0 /\ DRV_SPI0_BufferAddWriteReadNew
  \/ handle = 1 /\ DRV_SPI1_BufferAddWriteReadNew

\* A handle is the index of its instance.
DRV_SPI0_Open == 0
DRV_SPI1_Open == 1
DRV_SPI_Open(index) == IF index = 0 THEN DRV_SPI0_Open ELSE DRV_SPI1_Open

\* The clients open the driver before the first turn; those that configure it
\* give either callback, both or none, the others no cfgData.
ClientConfigure(b) ==
  /\ AtStep(b, "open")
  /\ \E starting, ended \in {FALSE, (b \in ConfiguredBus)} :
       obj' = [obj EXCEPT ![b].operationStarting = starting,
                          ![b].operationEnded = ended]
  /\ IF b = 0 THEN GoTo(1, "open") ELSE loop' = App
  /\ UNCHANGED <<pool, job, hw, fault, disturbed>>

DRV_SPI0_ClientConfigure == ClientConfigure(0)
DRV_SPI1_ClientConfigure == ClientConfigure(1)
DRV_SPI_ClientConfigure(handle) ==
  \/ handle = 0 /\ DRV_SPI0_ClientConfigure
  \/ handle = 1 /\ DRV_SPI1_ClientConfigure
-----------------------------------------------------------------------------
\* The next job, if there is one.
Take(b) ==
  /\ AtStep(b, "tasks")
  /\ obj[b].currentJob = NULL /\ ~IsEmpty(pool, b)
  /\ LET e == pool.queue[b].pHead IN
     /\ pool' = DequeueLock(pool, b)
     /\ obj' = [obj EXCEPT ![b].currentJob = e, ![b].symbolsInProgress = 0,
                           ![b].sel = @ \/ obj[b].operationStarting]
     /\ loop' = [bus |-> b, step |-> "starting", job |-> e]
  /\ UNCHANGED <<job, hw, fault, disturbed>>

NothingToDo(b) ==
  /\ AtStep(b, "tasks")
  /\ obj[b].currentJob = NULL /\ IsEmpty(pool, b)
  /\ NextBus(b)
  /\ UNCHANGED <<pool, job, obj, hw, fault, disturbed>>

\* Mutant: the receiver is flushed at every pass.
ResumeFlushed(b) ==
  /\ AtStep(b, "tasks")
  /\ obj[b].currentJob # NULL
  /\ loop' = [bus |-> b, step |-> "send", job |-> obj[b].currentJob]
  /\ hw' = [hw EXCEPT ![b].rx = 0]
  /\ UNCHANGED <<pool, job, obj, fault, disturbed>>

Resume(b) ==
  /\ AtStep(b, "tasks")
  /\ obj[b].currentJob # NULL
  /\ loop' = [bus |-> b, step |-> "send", job |-> obj[b].currentJob]
  /\ UNCHANGED <<pool, job, obj, hw, fault, disturbed>>

\* The callbacks may queue jobs, on either bus: operationStarting before the
\* transfer, completeCB and operationEnded before the element is given back.
Callback(b) ==
  /\ \/ AtStep(b, "starting") /\ obj[b].operationStarting
     \/ AtStep(b, "dropping")
     \/ AtStep(b, "ending")
  /\ \E other \in Bus : \E j \in JobsOffered : BufferAdd(other, j)
  /\ UNCHANGED <<obj, hw, loop, fault, disturbed>>

Start(b) ==
  /\ AtStep(b, "starting")
  /\ hw' = [hw EXCEPT ![b].rx = 0]
  /\ GoTo(b, "send")
  /\ UNCHANGED <<pool, job, obj, fault, disturbed>>

\* Mutant: the room is what the transmit FIFO has left.
RoomUncounted(b) == (FifoSize - hw[b].tx) % 256

\* bufferBytes: what may be sent without an answer being lost.
RoomToSend(b) == (FifoSize - mostOf(obj[b].symbolsInProgress, hw[b].tx)) % 256

\* Data first, dummies in the room left.
MasterEBMSend8BitPolled(b) ==
  /\ AtStep(b, "send")
  /\ LET j == job[loop.job]
         dataUnits == leastOf(j.dataLeftToTx, RoomToSend(b))
         dummyUnits == leastOf(j.dummyLeftToTx, RoomToSend(b) - dataUnits)
         units == dataUnits + dummyUnits
     IN /\ job' = [job EXCEPT ![loop.job].dataLeftToTx = @ - dataUnits,
                              ![loop.job].dummyLeftToTx = @ - dummyUnits]
        /\ obj' = [obj EXCEPT ![b].symbolsInProgress = (@ + units) % 256]
        /\ hw' = [hw EXCEPT ![b].tx = leastOf(FifoSize, @ + units)]
  /\ GoTo(b, "errors")
  /\ UNCHANGED <<pool, fault, disturbed>>

NoError(b) ==
  /\ AtStep(b, "errors")
  /\ ~hw[b].rov
  /\ GoTo(b, "receive")
  /\ UNCHANGED <<pool, job, obj, hw, fault, disturbed>>

\* An answer was lost: the job ends in error.
AnswerLost(b) ==
  /\ AtStep(b, "errors")
  /\ hw[b].rov
  /\ GoTo(b, "dropping")
  /\ UNCHANGED <<pool, job, obj, hw, fault, disturbed>>

\* The element goes back to the pool and the pass goes on with it.
Drop(b) ==
  /\ AtStep(b, "dropping")
  /\ pool' = FreeElementLock(pool, b, loop.job)
  /\ obj' = [obj EXCEPT ![b].currentJob = NULL,
                        ![b].sel = @ /\ ~obj[b].operationEnded]
  /\ hw' = [hw EXCEPT ![b].rx = 0, ![b].rov = FALSE]
  /\ GoTo(b, "receive")
  /\ UNCHANGED <<job, fault, disturbed>>

PolledErrorTasks(b) == NoError(b) \/ AnswerLost(b) \/ Drop(b)
DRV_SPI0_PolledErrorTasks == PolledErrorTasks(0)
DRV_SPI1_PolledErrorTasks == PolledErrorTasks(1)

\* Data first, then the answers to be thrown away.  With nothing left to receive
\* the routine is not called, and the job ends.
MasterEBMReceive8BitPolled(b) ==
  /\ AtStep(b, "receive")
  /\ LeftToRx(loop.job) # 0 => obj[b].currentJob # NULL
  /\ LET j == job[loop.job]
         dataUnits == leastOf(j.dataLeftToRx, hw[b].rx)
         dummyUnits == leastOf(j.dummyLeftToRx, hw[b].rx - dataUnits)
         units == dataUnits + dummyUnits
     IN /\ job' = [job EXCEPT ![loop.job].dataLeftToRx = @ - dataUnits,
                              ![loop.job].dummyLeftToRx = @ - dummyUnits]
        /\ obj' = [obj EXCEPT ![b].symbolsInProgress = (@ - units) % 256]
        /\ hw' = [hw EXCEPT ![b].rx = @ - units]
        /\ IF LeftToRx(loop.job) = units THEN GoTo(b, "ending") ELSE NextBus(b)
  /\ UNCHANGED <<pool, fault, disturbed>>

\* The job ended in error with symbols left: the receive step follows the
\* pointer the error step cleared.
ReceiveForNoJob(b) ==
  /\ AtStep(b, "receive")
  /\ LeftToRx(loop.job) # 0 /\ obj[b].currentJob = NULL
  /\ fault' = "null job"
  /\ UNCHANGED <<pool, job, obj, hw, loop, disturbed>>

\* The element goes back to the pool: a second time, if the job was empty and
\* the error step has ended it already.
Finish(b) ==
  /\ AtStep(b, "ending")
  /\ pool' = FreeElementLock(pool, b, loop.job)
  /\ obj' = [obj EXCEPT ![b].currentJob = NULL,
                        ![b].sel = @ /\ ~obj[b].operationEnded]
  /\ NextBus(b)
  /\ UNCHANGED <<job, hw, fault, disturbed>>

\* The steps of a pass outside the routines it calls.
PassItself(b) ==
  \/ Take(b) \/ NothingToDo(b) \/ Resume(b) \/ Start(b)
  \/ ReceiveForNoJob(b) \/ Finish(b)

DRV_SPI0_MasterEBMSend8BitPolled == MasterEBMSend8BitPolled(0)
DRV_SPI1_MasterEBMSend8BitPolled == MasterEBMSend8BitPolled(1)
DRV_SPI0_MasterEBMReceive8BitPolled == MasterEBMReceive8BitPolled(0)
DRV_SPI1_MasterEBMReceive8BitPolled == MasterEBMReceive8BitPolled(1)

DRV_SPI0_PolledMasterEBM8BitTasks ==
  \/ PassItself(0) \/ DRV_SPI0_MasterEBMSend8BitPolled
  \/ DRV_SPI0_PolledErrorTasks \/ DRV_SPI0_MasterEBMReceive8BitPolled
DRV_SPI1_PolledMasterEBM8BitTasks ==
  \/ PassItself(1) \/ DRV_SPI1_MasterEBMSend8BitPolled
  \/ DRV_SPI1_PolledErrorTasks \/ DRV_SPI1_MasterEBMReceive8BitPolled

DRV_SPI0_Tasks == DRV_SPI0_PolledMasterEBM8BitTasks
DRV_SPI1_Tasks == DRV_SPI1_PolledMasterEBM8BitTasks
DRV_SPI_Tasks(object) ==
  \/ object = 0 /\ DRV_SPI0_Tasks
  \/ object = 1 /\ DRV_SPI1_Tasks

\* The application has returned.
EndOfTurn ==
  /\ loop = App
  /\ GoTo(0, "tasks")
  /\ UNCHANGED <<pool, job, obj, hw, fault, disturbed>>
-----------------------------------------------------------------------------
\* DRV_SPIn_BufferAddWriteRead, the blocking exchange of the old interface, of
\* a client that uses it alone: no job is queued or running.
Exchange(b, size) ==
  /\ loop = App
  /\ obj[b].currentJob = NULL /\ IsEmpty(pool, b)
  /\ loop' = [bus |-> b, step |-> "exchange", job |-> NULL, size |-> size,
            txcounter |-> 0, rxcounter |-> 0]
  /\ UNCHANGED <<pool, job, obj, hw, fault, disturbed>>

DRV_SPI0_BufferAddWriteRead == \E n \in ExchangeSizes : Exchange(0, n)
DRV_SPI1_BufferAddWriteRead == \E n \in ExchangeSizes : Exchange(1, n)

\* An empty transmit FIFO is filled.
ExchangeFill(b) ==
  /\ AtStep(b, "exchange")
  /\ loop.txcounter = loop.rxcounter /\ loop.txcounter < loop.size
  /\ hw[b].tx = 0
  /\ LET units == leastOf(FifoSize, loop.size - loop.txcounter) IN
     /\ hw' = [hw EXCEPT ![b].tx = units]
     /\ loop' = [loop EXCEPT !.txcounter = @ + units]
  /\ UNCHANGED <<pool, job, obj, fault, disturbed>>

\* As many answers are waited for, one by one.
ExchangeRead(b) ==
  /\ AtStep(b, "exchange")
  /\ loop.txcounter # loop.rxcounter /\ hw[b].rx > 0
  /\ hw' = [hw EXCEPT ![b].rx = @ - 1]
  /\ loop' = [loop EXCEPT !.rxcounter = @ + 1]
  /\ UNCHANGED <<pool, job, obj, fault, disturbed>>

\* The application returns too: it makes at most one exchange a turn.
ExchangeEnds(b) ==
  /\ AtStep(b, "exchange")
  /\ loop.txcounter = loop.rxcounter
  /\ loop.txcounter = loop.size \/ hw[b].tx # 0
  /\ loop' = [bus |-> 0, step |-> "tasks", job |-> NULL]
  /\ UNCHANGED <<pool, job, obj, hw, fault, disturbed>>
-----------------------------------------------------------------------------
Received(h, n) ==
  [h EXCEPT !.rx = leastOf(FifoSize, @ + n), !.rov = @ \/ h.rx + n > FifoSize]

\* The hardware sends a symbol and gets one; a full receive FIFO loses it.
Shift(b) ==
  /\ hw[b].tx > 0
  /\ hw' = [hw EXCEPT ![b] = Received([hw[b] EXCEPT !.tx = hw[b].tx - 1], 1)]
  /\ UNCHANGED <<pool, job, obj, loop, fault, disturbed>>

\* A symbol is written, or lost if the FIFO is full, and the bus waited for.
Written(h) == Received([h EXCEPT !.tx = 0], leastOf(FifoSize, h.tx + 1))

\* Timer 3's interrupt writes the DAC, wherever the main loop is.
spi_write1 ==
  /\ 1 \in SharedBus
  /\ hw' = [hw EXCEPT ![1] = Written(@)]
  /\ disturbed' = disturbed \union {1}
  /\ UNCHANGED <<pool, job, obj, loop, fault>>

\* The application writes the display and empties the receive FIFO.
spi_write2 ==
  /\ 0 \in SharedBus /\ loop = App
  /\ hw' = [hw EXCEPT ![0] = [Written(@) EXCEPT !.rx = 0]]
  /\ disturbed' = disturbed \union {0}
  /\ UNCHANGED <<pool, job, obj, loop, fault>>

Client(b) ==
  \/ LET handle == DRV_SPI_Open(b) IN
       \/ DRV_SPI_BufferAddRead(handle) \/ DRV_SPI_BufferAddRead2(handle)
       \/ DRV_SPI_BufferAddWrite(handle) \/ DRV_SPI_BufferAddWrite2(handle)
       \/ DRV_SPI_BufferAddWriteRead(handle)
       \/ DRV_SPI_BufferAddWriteRead2(handle)
  \/ Callback(b)

Blocking(b) == ExchangeFill(b) \/ ExchangeRead(b) \/ ExchangeEnds(b)

Turn(b) ==
  \/ DRV_SPI_Initialize(b) \/ DRV_SPI_ClientConfigure(DRV_SPI_Open(b))
  \/ DRV_SPI_Tasks(b) \/ Blocking(b)

SpiNext ==
  /\ fault = "no"
  /\ \/ EndOfTurn
     \/ DRV_SPI0_BufferAddWriteRead \/ DRV_SPI1_BufferAddWriteRead
     \/ spi_write1 \/ spi_write2
     \/ \E b \in Bus : Turn(b) \/ Client(b) \/ Shift(b)

\* The main loop runs and the hardware shifts; clients, the DAC and the display
\* need not.
Fairness ==
  /\ WF_spiVars(fault = "no" /\ (EndOfTurn \/ \E b \in Bus : Turn(b)))
  /\ \A b \in Bus : WF_spiVars(fault = "no" /\ Shift(b))

SpiSpec == SpiInit /\ [][SpiNext]_spiVars /\ Fairness
-----------------------------------------------------------------------------
Running(b) == IF obj[b].currentJob = NULL THEN <<>> ELSE <<obj[b].currentJob>>
Waiting(b) == Chain(pool, pool.queue[b].pHead)
Free == Chain(pool, pool.pFreeElementHead)
Line(b) == Running(b) \o Waiting(b)
ElementsOf(s) == {s[i] : i \in DOMAIN s}
LastOf(s) == IF s = <<>> THEN NULL ELSE s[Len(s)]

\* As long as nothing else has written on its bus an instance loses no answer:
\* what it counts in progress is what is in the FIFOs, fits in one of them, and
\* makes up the difference between what is left to send and to receive.  Between
\* jobs such a bus is quiet.  On any bus the slave of an ended job, in error or
\* not, is no longer selected if its client told how to (the counts of
\* drv_spi_static_ebm_tasks.c).
SymbolsBalanced ==
  /\ job \in [Element -> Job] /\ disturbed \subseteq SharedBus
  /\ \A b \in Bus :
    /\ obj[b] \in Object /\ hw[b] \in Hardware
    /\ obj[b].currentJob = NULL /\ obj[b].operationEnded => ~obj[b].sel
    /\ b \notin disturbed /\ ~AtStep(b, "exchange") =>
         /\ ~hw[b].rov
         /\ LET e == obj[b].currentJob
                inFlight == hw[b].tx + hw[b].rx
            IN IF e = NULL THEN inFlight = 0
               ELSE /\ inFlight = obj[b].symbolsInProgress
                    /\ inFlight <= FifoSize
                    /\ LeftToTx(e) + inFlight = LeftToRx(e)

\* Jobs of a bus end in the order they were accepted, each once, and none is
\* taken from the other bus: the driver implements SpiService.
Service == INSTANCE SpiService WITH
  Jobs <- Element, Capacity <- PoolSize, Limit <- maxElements,
  Reserve <- reserveElements, line <- [b \in Bus |-> Line(b)]
JobsInOrder == Service!Spec

\* Every element is in one place only, in the free list, waiting on a bus or
\* running there, and the tails and counts say so.  A client is refused only
\* when its bus has its share of jobs or the elements left are the other bus's
\* reserve.  (AllocElement, FreeElement, Enqueue and Dequeue keep all this in
\* links and counters, called for both instances and from callbacks.)
PoolSound ==
  /\ pool \in ManagerData
  /\ ElementsOf(Free \o Line(0) \o Line(1)) = Element
  /\ Len(Free) + Len(Line(0)) + Len(Line(1)) = PoolSize
  /\ pool.pFreeElementTail = LastOf(Free)
  /\ pool.numFreeElements = Len(Free)
  /\ \A b \in Bus : /\ pool.queue[b].pTail = LastOf(Waiting(b))
                    /\ pool.queue[b].numAlloc = Len(Line(b))
  /\ loop.step \notin {"boot", "open"} =>
       \A b \in Bus : AllocElementRefused(pool, b) <=> ~Service!Room(b)

\* A bus with jobs waiting comes to run one, and the one it runs ends, complete
\* or in error, as long as nothing else has written on the bus and the tasks of
\* the other one have not stopped the processor.  What another writer sends or
\* throws away may leave a job without its answers for ever.
Undisturbed(b) == b \notin disturbed /\ (fault # "no" => loop.bus = b)

JobsEnd ==
  \A b \in Bus :
    /\ ~IsEmpty(pool, b) ~> (obj[b].currentJob # NULL \/ ~Undisturbed(b))
    /\ obj[b].currentJob # NULL ~> (obj[b].currentJob = NULL \/ ~Undisturbed(b))

=============================================================================
