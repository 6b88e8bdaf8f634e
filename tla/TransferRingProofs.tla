-------------------------- MODULE TransferRingProofs --------------------------
(***************************************************************************)
(* The transfer ring, for any windows and any number of slots, jobs and    *)
(* rebuilds, and whether or not the waits of two seconds run out: every    *)
(* job is handled once, on an idle command buffer, with objects nobody     *)
(* replaces.  The theorems are of MCThreads, and bring in what             *)
(* InputMailboxProofs shows of the mailbox.                                *)
(***************************************************************************)
EXTENDS InputMailboxProofs, SequenceTheorems

Copies == [win : Windows, val : Int]
Entries == [status : 0 .. 2, win : Windows, val : Int]

\* The transfer thread has a job; its slot is no one else's.
Holding == {"take", "check", "wait", "record", "submit", "await"}
Steps == {"scan", "release", "break"} \cup Holding

RingType ==
    /\ ring \in [Jobs!Slots -> Entries]
    /\ busy \in [Windows -> BOOLEAN] /\ wsi_state \in [Windows -> {0, 1}]
    /\ fence \in [Windows -> {"none", "signalled", "unsignalled"}]
    /\ timeline \in Int
    /\ transfer \in [pc : Steps, at : Jobs!Slots]
    /\ lua.pc \in {"run", "request", "fill", "init", "write"}
    /\ lua.pc \in {"init", "write"} => lua.at \in Windows
    /\ lua.pc = "fill" => lua.at \in Jobs!Slots
    /\ gpu \in Seq(Copies) /\ handled \in Seq(Int)

\* A slot belongs to the thread that its status names.
SlotsAreOwned ==
    /\ transfer.pc \in Holding => Jobs!job.status = 2
    /\ lua.pc = "fill" => ring[lua.at].status = 1

\* While the transfer thread looks at a window its flag is up; while vx_stream_init
\* works on one it is closed.
FlagsAreUp ==
    /\ transfer.pc \in Holding \ {"take"} => busy[Jobs!job.win]
    /\ lua.pc \in {"init", "write"} => wsi_state[lua.at] = 0
    /\ Jobs!InitIsAlone

\* A window has at most one copy on the GPU, and its fence says so.
FencesAreTrue ==
    /\ \A k \in 1 .. Len(gpu) : fence[gpu[k].win] = "unsignalled"
    /\ \A j, k \in 1 .. Len(gpu) : gpu[j].win = gpu[k].win => j = k
    /\ transfer.pc = "record" => fence[Jobs!job.win] = "signalled"
    /\ transfer.pc = "submit" =>
          /\ fence[Jobs!job.win] = "unsignalled"
          /\ \A k \in 1 .. Len(gpu) : gpu[k].win # Jobs!job.win

\* Values given to jobs: the last one reserved is of no job before the slot is filled.
Given == IF lua.pc \in {"request", "fill"} THEN 1 .. timeline - 1 ELSE 1 .. timeline

\* The job of this slot waits to be handled.
Waits(i) == ring[i].status = 2 /\ ~(transfer.pc = "await" /\ transfer.at = i)

ValuesAreOnce ==
    /\ timeline >= 0 /\ (lua.pc \in {"request", "fill"} => timeline >= 1)
    /\ \A i \in Jobs!Slots : ring[i].status = 2 => ring[i].val \in Given
    /\ \A i, j \in Jobs!Slots :
          ring[i].status = 2 /\ ring[j].status = 2 /\ ring[i].val = ring[j].val => i = j
    /\ \A k \in 1 .. Len(handled) : handled[k] \in Given
    /\ \A k \in 1 .. Len(handled) : \A i \in Jobs!Slots :
          Waits(i) => ring[i].val # handled[k]
    /\ \A j, k \in 1 .. Len(handled) : handled[j] = handled[k] => j = k

RingInv == RingType /\ SlotsAreOwned /\ FlagsAreUp /\ FencesAreTrue /\ ValuesAreOnce

LEMMA RingInit == Jobs!TransferAssumption /\ Jobs!Init => RingInv
<1> SUFFICES ASSUME Jobs!TransferAssumption, Jobs!Init PROVE RingInv
  OBVIOUS
<1>1. Jobs!FirstWindow \in Windows /\ SlotCount \in Nat \ {0} /\ 1 \in Jobs!Slots
  BY DEF Jobs!TransferAssumption, Jobs!FirstWindow, Jobs!Slots
<1>2. /\ transfer.pc = "scan" /\ transfer.at = 1 /\ lua.pc = "run"
      /\ transfer \in [pc : Steps, at : Jobs!Slots]
  BY <1>1 DEF Jobs!Init, Jobs!At, Steps
<1>3. /\ gpu \in Seq(Copies) /\ handled \in Seq(Int)
      /\ Len(gpu) = 0 /\ Len(handled) = 0
  BY EmptySeq DEF Jobs!Init
<1>4. /\ ring \in [Jobs!Slots -> Entries] /\ \A i \in Jobs!Slots : ring[i].status = 0
  BY <1>1 DEF Jobs!Init, Entries
<1>5. RingType
  BY <1>1, <1>2, <1>3, <1>4 DEF Jobs!Init, RingType
<1>6. QED
  BY <1>2, <1>3, <1>4, <1>5
     DEF Jobs!Init, RingInv, SlotsAreOwned, FlagsAreUp, FencesAreTrue, ValuesAreOnce,
         Holding, Jobs!InitIsAlone, Waits, Given

-----------------------------------------------------------------------------
(* Types and slots.                                                         *)

LEMMA NextSlotIsOne ==
    ASSUME Jobs!TransferAssumption, NEW i \in Jobs!Slots
    PROVE  Jobs!Following(i) \in Jobs!Slots
  BY DEF Jobs!TransferAssumption, Jobs!Slots, Jobs!Following

LEMMA NewStatus ==
    ASSUME NEW x \in Entries, NEW s \in 0 .. 2
    PROVE  /\ [x EXCEPT !.status = s] \in Entries
           /\ [x EXCEPT !.status = s].status = s
           /\ [x EXCEPT !.status = s].val = x.val
  BY DEF Entries

\* What the game thread does to the ring: nothing, or to a slot that is not full.
LEMMA LuaRing ==
    ASSUME RingType, SlotsAreOwned, Jobs!Lua
    PROVE  /\ ring' \in [Jobs!Slots -> Entries]
           /\ \A i \in Jobs!Slots : ring[i].status = 2 => ring'[i] = ring[i]
           /\ UNCHANGED <<transfer, gpu, handled, busy>>
           /\ \A i \in Jobs!Slots : ring'[i] # ring[i] =>
                 \/ ring'[i].status = 1
                 \/ /\ lua.pc = "fill" /\ lua'.pc = "run" /\ lua.at = i
                    /\ timeline' = timeline /\ ring'[i].val = timeline
<1>1. ASSUME NEW w \in Windows,
             Jobs!AllocateTenant(w) \/ Jobs!AskRebuild(w) \/ Jobs!BeginInit(w)
      PROVE  UNCHANGED <<ring, transfer, gpu, handled, busy>>
  BY <1>1 DEF Jobs!AllocateTenant, Jobs!AskRebuild, Jobs!BeginInit, Jobs!gpuVars
<1>2. CASE Jobs!RequestTransfer \/ Jobs!WaitTransfer \/ Jobs!OpenStream
  BY <1>2
     DEF Jobs!RequestTransfer, Jobs!WaitTransfer, Jobs!OpenStream, Jobs!gpuVars,
         Jobs!windowVars, RingType
<1>3. CASE Jobs!TrySlot
  <2>1. CASE UNCHANGED ring
    BY <1>3, <2>1 DEF Jobs!TrySlot, Jobs!gpuVars, Jobs!windowVars, RingType
  <2>2. CASE /\ lua.at \in Jobs!Slots /\ ring[lua.at].status = 0
             /\ ring' = [ring EXCEPT ![lua.at].status = Jobs!Reserved]
    <3> DEFINE reserved == [ring[lua.at] EXCEPT !.status = 1]
    <3>1. reserved \in Entries /\ reserved.status = 1
      <4>1. ring[lua.at] \in Entries /\ 1 \in 0 .. 2
        BY <2>2 DEF RingType
      <4>2. QED
        BY <4>1, NewStatus, Zenon
    <3>2. ring' = [ring EXCEPT ![lua.at] = reserved]
      BY <2>2 DEF Jobs!Reserved
    <3> HIDE DEF reserved
    <3>3. UNCHANGED <<transfer, gpu, handled, busy>>
      BY <1>3 DEF Jobs!TrySlot, Jobs!gpuVars, Jobs!windowVars
    <3>4. /\ lua.at \in Jobs!Slots /\ ring[lua.at].status = 0
          /\ ring \in [Jobs!Slots -> Entries]
      BY <2>2 DEF RingType
    <3>5. /\ ring' \in [Jobs!Slots -> Entries] /\ ring'[lua.at] = reserved
          /\ \A i \in Jobs!Slots : i # lua.at => ring'[i] = ring[i]
      BY <3>1, <3>2, <3>4
    <3>6. QED
      BY <3>1, <3>3, <3>4, <3>5
  <2>3. QED
    BY <1>3, <2>1, <2>2 DEF Jobs!TrySlot
<1>4. CASE Jobs!FillSlot
  <2>1. PICK w \in Windows :
           ring' = [ring EXCEPT ![lua.at] = [status |-> 2, win |-> w, val |-> timeline]]
    BY <1>4 DEF Jobs!FillSlot
  <2>2. lua.at \in Jobs!Slots /\ ring[lua.at].status = 1 /\ lua'.pc = "run"
        /\ timeline' = timeline
    BY <1>4 DEF Jobs!FillSlot, RingType, SlotsAreOwned, Jobs!At
  <2>3. UNCHANGED <<transfer, gpu, handled, busy>>
    BY <1>4 DEF Jobs!FillSlot, Jobs!gpuVars, Jobs!windowVars
  <2>4. [status |-> 2, win |-> w, val |-> timeline] \in Entries
    BY DEF RingType, Entries
  <2>5. QED
    BY <1>4, <2>1, <2>2, <2>3, <2>4 DEF RingType, Jobs!FillSlot
<1>5. QED
  BY <1>1, <1>2, <1>3, <1>4 DEF Jobs!Lua, RingType

LEMMA LuaTypes ==
    ASSUME RingType, SlotsAreOwned, Jobs!Lua
    PROVE  RingType' /\ SlotsAreOwned'
<1>1. /\ ring' \in [Jobs!Slots -> Entries] /\ UNCHANGED <<transfer, gpu, handled, busy>>
      /\ \A i \in Jobs!Slots : ring[i].status = 2 => ring'[i] = ring[i]
  BY LuaRing
<1>2. /\ wsi_state' \in [Windows -> {0, 1}] /\ timeline' \in Int
      /\ fence' \in [Windows -> {"none", "signalled", "unsignalled"}]
  <2>1. CASE \E w \in Windows :
               Jobs!AllocateTenant(w) \/ Jobs!AskRebuild(w) \/ Jobs!BeginInit(w)
    BY <2>1 DEF Jobs!AllocateTenant, Jobs!AskRebuild, Jobs!BeginInit, RingType
  <2>2. CASE Jobs!RequestTransfer \/ Jobs!TrySlot \/ Jobs!FillSlot \/ Jobs!WaitTransfer
    BY <2>2
       DEF Jobs!RequestTransfer, Jobs!TrySlot, Jobs!FillSlot, Jobs!WaitTransfer,
           Jobs!windowVars, RingType
  <2>3. CASE Jobs!OpenStream
    BY <2>3 DEF Jobs!OpenStream, RingType
  <2>4. QED
    BY <2>1, <2>2, <2>3 DEF Jobs!Lua
<1>3. /\ lua'.pc \in {"run", "request", "fill", "init", "write"}
      /\ lua'.pc \in {"init", "write"} => lua'.at \in Windows
      /\ lua'.pc = "fill" => lua'.at \in Jobs!Slots /\ ring'[lua'.at].status = 1
  <2>1. CASE Jobs!TrySlot
    BY <2>1 DEF Jobs!TrySlot, Jobs!At, Jobs!Reserved, RingType, Entries
  <2>2. CASE Jobs!WaitTransfer
    BY <2>2 DEF Jobs!WaitTransfer, Jobs!At, RingType
  <2>3. CASE \E w \in Windows : Jobs!AllocateTenant(w) \/ Jobs!BeginInit(w)
    BY <2>3 DEF Jobs!AllocateTenant, Jobs!BeginInit, Jobs!At
  <2>4. CASE Jobs!RequestTransfer \/ Jobs!FillSlot \/ Jobs!OpenStream
    BY <2>4 DEF Jobs!RequestTransfer, Jobs!FillSlot, Jobs!OpenStream, Jobs!At
  <2>5. CASE \E w \in Windows : Jobs!AskRebuild(w)
    BY <2>5 DEF Jobs!AskRebuild, RingType
  <2>6. QED
    BY <2>1, <2>2, <2>3, <2>4, <2>5 DEF Jobs!Lua
<1>4. transfer.pc \in Holding => Jobs!job'.status = 2
  BY <1>1 DEF Jobs!job, RingType, SlotsAreOwned
<1>5. QED
  BY <1>1, <1>2, <1>3, <1>4 DEF RingType, SlotsAreOwned

\* A job of the transfer thread is a job of a window.
LEMMA JobType == ASSUME RingType PROVE Jobs!job \in Entries /\ transfer.at \in Jobs!Slots
  BY DEF RingType, Jobs!job

\* Giving back a slot changes its status and no other slot.
LEMMA FreeRing ==
    ASSUME RingType, NEW i \in Jobs!Slots
    PROVE  /\ Jobs!Free(ring, i) \in [Jobs!Slots -> Entries]
           /\ Jobs!Free(ring, i)[i].status = 0
           /\ \A j \in Jobs!Slots : j # i => Jobs!Free(ring, i)[j] = ring[j]
<1> DEFINE freed == [ring[i] EXCEPT !.status = 0]
<1>1. freed \in Entries /\ freed.status = 0
  <2>1. ring[i] \in Entries /\ 0 \in 0 .. 2
    BY DEF RingType
  <2>2. QED
    BY <2>1, NewStatus, Zenon
<1>2. Jobs!Free(ring, i) = [ring EXCEPT ![i] = freed]
  BY DEF Jobs!Free
<1> HIDE DEF freed
<1>3. QED
  BY <1>1, <1>2 DEF RingType

\* Where a step of the transfer thread leads, and what it does to the ring: a slot
\* that it leaves it has given back.
LEMMA TransferRuns ==
    ASSUME Jobs!TransferAssumption, RingType, SlotsAreOwned, Jobs!Transfer
    PROVE  /\ transfer' \in [pc : Steps, at : Jobs!Slots]
           /\ transfer'.pc \in Holding => transfer'.at = transfer.at /\ Jobs!job.status = 2
           /\ UNCHANGED Jobs!luaAndRender
           /\ \/ UNCHANGED ring
              \/ /\ ring' = Jobs!Free(ring, transfer.at)
                 /\ transfer.pc \in Holding /\ transfer'.pc \notin Holding
<1>1. /\ transfer.at \in Jobs!Slots /\ 1 \in Jobs!Slots
      /\ Jobs!Following(transfer.at) \in Jobs!Slots
  BY JobType, NextSlotIsOne DEF Jobs!TransferAssumption, Jobs!Slots
<1>2. CASE Jobs!ScanSlot
  BY <1>1, <1>2 DEF Jobs!ScanSlot, Jobs!Goes, Jobs!NextSlot, Jobs!At, Steps, Holding
<1>3. CASE \/ Jobs!RaiseBusy \/ Jobs!KeepJob \/ Jobs!WaitFence
           \/ Jobs!RecordCopy \/ Jobs!SubmitCopy
  BY <1>1, <1>3
     DEF Jobs!RaiseBusy, Jobs!KeepJob, Jobs!WaitFence, Jobs!RecordCopy, Jobs!SubmitCopy,
         Jobs!Goes, Jobs!At, Steps, Holding, SlotsAreOwned
<1>4. CASE Jobs!DropJob \/ Jobs!FenceTimeout \/ Jobs!AwaitCopy
  BY <1>1, <1>4
     DEF Jobs!DropJob, Jobs!FenceTimeout, Jobs!AwaitCopy, Jobs!Goes, Jobs!At, Steps,
         Holding
<1>5. CASE Jobs!LowerBusy
  BY <1>1, <1>5 DEF Jobs!LowerBusy, Jobs!NextSlot, Jobs!At, Steps, Holding
<1>6. QED
  BY <1>2, <1>3, <1>4, <1>5 DEF Jobs!Transfer

LEMMA TransferTypes ==
    ASSUME Jobs!TransferAssumption, RingType, SlotsAreOwned, Jobs!Transfer
    PROVE  RingType' /\ SlotsAreOwned'
<1>1. /\ Jobs!job \in Entries /\ transfer.at \in Jobs!Slots
      /\ Jobs!job.win \in Windows /\ Jobs!job.val \in Int
  BY JobType DEF Entries
<1>2. ring' \in [Jobs!Slots -> Entries]
      /\ \A i \in Jobs!Slots : i # transfer.at => ring'[i] = ring[i]
  BY TransferRuns, <1>1, FreeRing DEF RingType
<1>3. busy' \in [Windows -> BOOLEAN]
  BY DEF Jobs!Transfer, Jobs!ScanSlot, Jobs!RaiseBusy, Jobs!KeepJob, Jobs!WaitFence,
         Jobs!RecordCopy, Jobs!SubmitCopy, Jobs!DropJob, Jobs!FenceTimeout,
         Jobs!AwaitCopy, Jobs!LowerBusy, RingType, Jobs!Raised, Jobs!Lowered
<1>4. /\ wsi_state' \in [Windows -> {0, 1}]
      /\ fence' \in [Windows -> {"none", "signalled", "unsignalled"}]
  <2>1. CASE Jobs!FenceTimeout
    BY <1>1, <2>1 DEF Jobs!FenceTimeout, RingType
  <2>2. CASE Jobs!RecordCopy
    BY <1>1, <2>2 DEF Jobs!RecordCopy, RingType
  <2>3. CASE ~Jobs!FenceTimeout /\ ~Jobs!RecordCopy
    BY <2>3
       DEF Jobs!Transfer, Jobs!ScanSlot, Jobs!RaiseBusy, Jobs!KeepJob, Jobs!WaitFence,
           Jobs!SubmitCopy, Jobs!DropJob, Jobs!AwaitCopy, Jobs!LowerBusy, RingType
  <2>4. QED
    BY <2>1, <2>2, <2>3
<1>5. gpu' \in Seq(Copies)
  <2>1. CASE Jobs!SubmitCopy
    <3>1. [win |-> Jobs!job.win, val |-> Jobs!job.val] \in Copies
      BY <1>1 DEF Copies
    <3>2. QED
      BY <2>1, <3>1, AppendProperties DEF Jobs!SubmitCopy, RingType
  <2>2. CASE ~Jobs!SubmitCopy
    BY <2>2
       DEF Jobs!Transfer, Jobs!ScanSlot, Jobs!RaiseBusy, Jobs!KeepJob, Jobs!WaitFence,
           Jobs!RecordCopy, Jobs!DropJob, Jobs!FenceTimeout, Jobs!AwaitCopy,
           Jobs!LowerBusy, Jobs!gpuVars, RingType
  <2>3. QED
    BY <2>1, <2>2
<1>6. handled' \in Seq(Int)
  <2>1. CASE handled' = Append(handled, Jobs!job.val)
    BY <1>1, <2>1, AppendProperties DEF RingType
  <2>2. CASE handled' = handled
    BY <2>2 DEF RingType
  <2>3. QED
    BY <2>1, <2>2
       DEF Jobs!Transfer, Jobs!ScanSlot, Jobs!RaiseBusy, Jobs!KeepJob, Jobs!WaitFence,
           Jobs!RecordCopy, Jobs!SubmitCopy, Jobs!DropJob, Jobs!FenceTimeout,
           Jobs!AwaitCopy, Jobs!LowerBusy
<1>7. RingType'
  BY <1>2, <1>3, <1>4, <1>5, <1>6, TransferRuns DEF RingType, Jobs!luaAndRender
<1>8. transfer'.pc \in Holding => Jobs!job'.status = 2
  BY TransferRuns DEF Jobs!job
<1>9. lua.pc = "fill" => ring'[lua.at].status = 1
  <2>1. ASSUME lua.pc = "fill", ring' # ring PROVE lua.at # transfer.at
    BY <2>1, TransferRuns DEF SlotsAreOwned, Jobs!job
  <2>2. QED
    BY <1>2, <2>1 DEF RingType, SlotsAreOwned
<1>10. QED
  BY <1>7, <1>8, <1>9, TransferRuns DEF SlotsAreOwned, Jobs!luaAndRender

LEMMA OthersTypes ==
    ASSUME RingType, SlotsAreOwned, Jobs!Render \/ Jobs!GpuDone \/ UNCHANGED jobVars
    PROVE  RingType' /\ SlotsAreOwned'
<1>1. UNCHANGED <<ring, busy, timeline, lua, transfer, handled>>
  BY DEF Jobs!Render, Jobs!TakeRebuild, Jobs!IdleQueues, Jobs!ResetPools,
         Jobs!CloseWindow, Jobs!AckRebuild, Jobs!RenderGoes, Jobs!GpuDone, jobVars,
         Jobs!windowVars
<1>2. wsi_state' \in [Windows -> {0, 1}]
  BY DEF Jobs!Render, Jobs!TakeRebuild, Jobs!IdleQueues, Jobs!ResetPools,
         Jobs!CloseWindow, Jobs!AckRebuild, Jobs!GpuDone, jobVars, Jobs!windowVars,
         RingType
<1>3. fence' \in [Windows -> {"none", "signalled", "unsignalled"}] /\ gpu' \in Seq(Copies)
  <2>1. CASE Jobs!GpuDone
    <3>1. Tail(gpu) \in Seq(Copies)
      BY <2>1, HeadTailProperties DEF Jobs!GpuDone, RingType
    <3>2. QED
      BY <2>1, <3>1 DEF Jobs!GpuDone, RingType
  <2>2. CASE Jobs!Render \/ UNCHANGED jobVars
    BY <2>2
       DEF Jobs!Render, Jobs!TakeRebuild, Jobs!IdleQueues, Jobs!ResetPools,
           Jobs!CloseWindow, Jobs!AckRebuild, Jobs!RenderGoes, jobVars, Jobs!windowVars,
           Jobs!gpuVars, RingType
  <2>3. QED
    BY <2>1, <2>2
<1>4. QED
  BY <1>1, <1>2, <1>3 DEF RingType, SlotsAreOwned, Jobs!job

-----------------------------------------------------------------------------
(* The flags.                                                               *)

LEMMA LuaFlags ==
    ASSUME RingType, SlotsAreOwned, FlagsAreUp, Jobs!Lua
    PROVE  FlagsAreUp'
<1>1. /\ UNCHANGED <<transfer, busy>>
      /\ transfer.pc \in Holding => Jobs!job' = Jobs!job
  BY LuaRing, JobType DEF SlotsAreOwned, Jobs!job
<1>2. \A w \in Windows : Jobs!Uses(w)' <=> Jobs!Uses(w)
  BY <1>1 DEF Jobs!Uses, Holding
<1>3. CASE \E w \in Windows : Jobs!AllocateTenant(w) \/ Jobs!BeginInit(w)
  BY <1>1, <1>3
     DEF Jobs!AllocateTenant, Jobs!BeginInit, Jobs!At, FlagsAreUp, Jobs!InitIsAlone,
         RingType, Holding
<1>4. CASE Jobs!WaitTransfer
  <2>1. lua.at \in Windows /\ wsi_state[lua.at] = 0 /\ UNCHANGED wsi_state
    BY <1>4 DEF Jobs!WaitTransfer, RingType, FlagsAreUp, Jobs!windowVars
  <2>2. lua'.pc = "write" => lua'.at = lua.at /\ ~busy[lua.at]
    BY <1>4 DEF Jobs!WaitTransfer, Jobs!At
  <2>3. lua'.pc = "write" => ~Jobs!Uses(lua'.at)
    BY <2>2 DEF Jobs!Uses, FlagsAreUp, Holding
  <2>4. lua'.pc \in {"write", "run"}
    BY <1>4 DEF Jobs!WaitTransfer, Jobs!At
  <2>5. QED
    BY <1>1, <1>2, <2>1, <2>2, <2>3, <2>4 DEF FlagsAreUp, Jobs!InitIsAlone, Holding
<1>5. CASE Jobs!RequestTransfer \/ Jobs!TrySlot \/ Jobs!FillSlot \/ Jobs!OpenStream
  BY <1>1, <1>5
     DEF Jobs!RequestTransfer, Jobs!TrySlot, Jobs!FillSlot, Jobs!OpenStream, Jobs!At,
         FlagsAreUp, Jobs!InitIsAlone, Holding
<1>6. CASE \E w \in Windows : Jobs!AskRebuild(w)
  BY <1>1, <1>6 DEF Jobs!AskRebuild, FlagsAreUp, Jobs!InitIsAlone, Holding
<1>7. QED
  BY <1>3, <1>4, <1>5, <1>6 DEF Jobs!Lua

LEMMA TransferFlags ==
    ASSUME Jobs!TransferAssumption, RingType, SlotsAreOwned, FlagsAreUp, Jobs!Transfer
    PROVE  FlagsAreUp'
<1>1. Jobs!job \in Entries /\ transfer.at \in Jobs!Slots /\ Jobs!job.win \in Windows
  BY JobType DEF Entries
<1>2. UNCHANGED lua
  BY TransferRuns DEF Jobs!luaAndRender
<1>3. CASE Jobs!RaiseBusy
  BY <1>1, <1>2, <1>3
     DEF Jobs!RaiseBusy, Jobs!Goes, Jobs!At, Jobs!job, FlagsAreUp, Jobs!InitIsAlone,
         Jobs!Uses, Holding, RingType, Jobs!Raised
<1>4. CASE Jobs!KeepJob
  BY <1>1, <1>2, <1>4
     DEF Jobs!KeepJob, Jobs!Goes, Jobs!At, Jobs!job, FlagsAreUp, Jobs!InitIsAlone,
         Jobs!Uses, Holding
<1>5. CASE Jobs!WaitFence \/ Jobs!RecordCopy \/ Jobs!SubmitCopy
  BY <1>1, <1>2, <1>5
     DEF Jobs!WaitFence, Jobs!RecordCopy, Jobs!SubmitCopy, Jobs!Goes, Jobs!At, Jobs!job,
         FlagsAreUp, Jobs!InitIsAlone, Jobs!Uses, Holding
<1>6. CASE Jobs!ScanSlot
  BY <1>2, <1>6
     DEF Jobs!ScanSlot, Jobs!NextSlot, Jobs!Goes, Jobs!At, FlagsAreUp, Jobs!InitIsAlone,
         Jobs!Uses, Holding
<1>7. CASE Jobs!DropJob \/ Jobs!FenceTimeout \/ Jobs!AwaitCopy \/ Jobs!LowerBusy
  <2>1. transfer'.pc \in {"release", "break", "scan"}
    BY <1>7
       DEF Jobs!DropJob, Jobs!FenceTimeout, Jobs!AwaitCopy, Jobs!LowerBusy, Jobs!NextSlot,
           Jobs!Goes, Jobs!At
  <2>2. lua.pc \in {"init", "write"} => wsi_state'[lua.at] = 0
    BY <1>1, <1>7
       DEF Jobs!DropJob, Jobs!FenceTimeout, Jobs!AwaitCopy, Jobs!LowerBusy, FlagsAreUp,
           RingType
  <2>3. QED
    BY <1>2, <2>1, <2>2 DEF FlagsAreUp, Jobs!InitIsAlone, Jobs!Uses, Holding
<1>8. QED
  BY <1>3, <1>4, <1>5, <1>6, <1>7 DEF Jobs!Transfer

LEMMA OthersFlags ==
    ASSUME RingType, FlagsAreUp, Jobs!Render \/ Jobs!GpuDone \/ UNCHANGED jobVars
    PROVE  FlagsAreUp'
<1>1. UNCHANGED <<ring, busy, lua, transfer>>
  BY DEF Jobs!Render, Jobs!TakeRebuild, Jobs!IdleQueues, Jobs!ResetPools,
         Jobs!CloseWindow, Jobs!AckRebuild, Jobs!RenderGoes, Jobs!GpuDone, jobVars,
         Jobs!windowVars
<1>2. lua.pc \in {"init", "write"} => wsi_state'[lua.at] = 0
  BY DEF Jobs!Render, Jobs!TakeRebuild, Jobs!IdleQueues, Jobs!ResetPools,
         Jobs!CloseWindow, Jobs!AckRebuild, Jobs!GpuDone, jobVars, Jobs!windowVars,
         RingType, FlagsAreUp
<1>3. QED
  BY <1>1, <1>2 DEF FlagsAreUp, Jobs!InitIsAlone, Jobs!Uses, Jobs!job

-----------------------------------------------------------------------------
(* The fences.                                                              *)

LEMMA GpuWindows ==
    ASSUME RingType, NEW k \in 1 .. Len(gpu)
    PROVE  gpu[k] \in Copies /\ gpu[k].win \in Windows
<1>1. gpu \in Seq(Copies)
  BY DEF RingType
<1>2. gpu \in [1 .. Len(gpu) -> Copies]
  BY <1>1, LenProperties
<1>3. gpu[k] \in Copies
  BY <1>2
<1>4. QED
  BY <1>3 DEF Copies

LEMMA LuaFences ==
    ASSUME RingType, SlotsAreOwned, FencesAreTrue, Jobs!Lua
    PROVE  FencesAreTrue'
<1>1. /\ UNCHANGED <<transfer, gpu>>
      /\ transfer.pc \in Holding => Jobs!job' = Jobs!job
  BY LuaRing, JobType DEF SlotsAreOwned, Jobs!job
<1>2. \A w \in Windows : fence[w] # "none" => fence'[w] = fence[w]
  BY DEF Jobs!Lua, Jobs!AllocateTenant, Jobs!AskRebuild, Jobs!BeginInit,
         Jobs!RequestTransfer, Jobs!TrySlot, Jobs!FillSlot, Jobs!WaitTransfer,
         Jobs!OpenStream, Jobs!windowVars, RingType
<1>3. Jobs!job.win \in Windows
  BY JobType DEF Entries
<1>4. QED
  BY <1>1, <1>2, <1>3, GpuWindows DEF FencesAreTrue, Holding

LEMMA TransferFences ==
    ASSUME Jobs!TransferAssumption, RingType, SlotsAreOwned, FencesAreTrue, Jobs!Transfer
    PROVE  FencesAreTrue'
<1>1. Jobs!job \in Entries /\ Jobs!job.win \in Windows /\ Jobs!job.val \in Int
  BY JobType DEF Entries
<1>2. CASE Jobs!WaitFence
  <2>1. UNCHANGED <<ring, fence, gpu, Jobs!job>> /\ transfer'.pc = "record"
        /\ fence[Jobs!job.win] = "signalled"
    BY <1>2
       DEF Jobs!WaitFence, Jobs!Goes, Jobs!At, Jobs!gpuVars, Jobs!FenceSignalled, Jobs!job
  <2>2. QED
    BY <2>1 DEF FencesAreTrue
<1>3. CASE Jobs!RecordCopy
  <2>1. UNCHANGED <<gpu, Jobs!job>> /\ transfer'.pc = "submit" /\ transfer.pc = "record"
        /\ fence' = [fence EXCEPT ![Jobs!job.win] = "unsignalled"]
    BY <1>3 DEF Jobs!RecordCopy, Jobs!Goes, Jobs!At, Jobs!gpuVars, Jobs!job
  <2>2. fence'[Jobs!job.win] = "unsignalled"
        /\ \A w \in Windows : w # Jobs!job.win => fence'[w] = fence[w]
    BY <1>1, <2>1 DEF RingType
  <2>3. \A k \in 1 .. Len(gpu) : gpu[k].win # Jobs!job.win
    BY <2>1 DEF FencesAreTrue
  <2>4. QED
    BY <2>1, <2>2, <2>3, GpuWindows DEF FencesAreTrue
<1>4. CASE Jobs!SubmitCopy
  <2> DEFINE copy == [win |-> Jobs!job.win, val |-> Jobs!job.val]
  <2>1. /\ UNCHANGED fence /\ transfer.pc = "submit" /\ transfer'.pc = "await"
        /\ gpu' = Append(gpu, copy)
    BY <1>4 DEF Jobs!SubmitCopy, Jobs!Goes, Jobs!At
  <2>2. copy \in Copies /\ copy.win = Jobs!job.win
    BY <1>1 DEF Copies
  <2> HIDE DEF copy
  <2>3. /\ Len(gpu') = Len(gpu) + 1 /\ Len(gpu) \in Nat
        /\ gpu'[Len(gpu) + 1].win = Jobs!job.win
        /\ \A k \in 1 .. Len(gpu) : gpu'[k] = gpu[k]
    BY <2>1, <2>2, AppendProperties, LenProperties DEF RingType
  <2>4. \A k \in 1 .. Len(gpu') : k \in 1 .. Len(gpu) \/ k = Len(gpu) + 1
    BY <2>3
  <2>5. QED
    BY <2>1, <2>3, <2>4 DEF FencesAreTrue
<1>5. CASE ~Jobs!WaitFence /\ ~Jobs!RecordCopy /\ ~Jobs!SubmitCopy
  <2>1. UNCHANGED <<fence, gpu>> /\ transfer'.pc \notin {"record", "submit"}
    BY <1>5
       DEF Jobs!Transfer, Jobs!ScanSlot, Jobs!RaiseBusy, Jobs!KeepJob, Jobs!DropJob,
           Jobs!FenceTimeout, Jobs!AwaitCopy, Jobs!LowerBusy, Jobs!NextSlot, Jobs!Goes,
           Jobs!At, Jobs!gpuVars
  <2>2. QED
    BY <2>1 DEF FencesAreTrue
<1>6. QED
  BY <1>2, <1>3, <1>4, <1>5

LEMMA OthersFences ==
    ASSUME RingType, FencesAreTrue, Jobs!Render \/ Jobs!GpuDone \/ UNCHANGED jobVars
    PROVE  FencesAreTrue'
<1>1. UNCHANGED <<transfer, Jobs!job>>
  BY DEF Jobs!Render, Jobs!TakeRebuild, Jobs!IdleQueues, Jobs!ResetPools,
         Jobs!CloseWindow, Jobs!AckRebuild, Jobs!RenderGoes, Jobs!GpuDone, jobVars,
         Jobs!job
<1>2. CASE Jobs!GpuDone
  <2>1. /\ gpu # << >> /\ gpu' = Tail(gpu)
        /\ fence' = [fence EXCEPT ![Head(gpu).win] = "signalled"]
    BY <1>2 DEF Jobs!GpuDone
  <2>2. Len(gpu) \in Nat /\ Len(gpu) # 0 /\ Head(gpu) = gpu[1]
    BY <2>1, EmptySeq, LenProperties DEF RingType
  <2>3. /\ Len(gpu') = Len(gpu) - 1
        /\ \A k \in 1 .. Len(gpu') : gpu'[k] = gpu[k + 1]
    BY <2>1, HeadTailProperties DEF RingType
  <2>4. 1 \in 1 .. Len(gpu) /\ \A k \in 1 .. Len(gpu') : k + 1 \in 1 .. Len(gpu)
    BY <2>2, <2>3
  <2>5. gpu[1].win \in Windows
    BY <2>4, GpuWindows
  <2>6. fence'[gpu[1].win] = "signalled"
        /\ \A w \in Windows : w # gpu[1].win => fence'[w] = fence[w]
    BY <2>1, <2>2, <2>5 DEF RingType
  <2>7. ASSUME NEW k \in 1 .. Len(gpu')
        PROVE  /\ gpu[k + 1].win # gpu[1].win /\ gpu[k + 1].win \in Windows
               /\ fence'[gpu'[k].win] = "unsignalled"
    <3>1. k + 1 \in 1 .. Len(gpu) /\ k + 1 # 1
      BY <2>4
    <3>2. gpu[k + 1].win # gpu[1].win /\ gpu[k + 1].win \in Windows
      BY <2>4, <3>1, GpuWindows DEF FencesAreTrue
    <3>3. QED
      BY <2>3, <2>6, <3>1, <3>2 DEF FencesAreTrue
  <2>8. ASSUME NEW j \in 1 .. Len(gpu'), NEW k \in 1 .. Len(gpu'),
               gpu'[j].win = gpu'[k].win
        PROVE  j = k
    <3>1. j + 1 = k + 1
      BY <2>3, <2>4, <2>8 DEF FencesAreTrue
    <3>2. QED
      BY <3>1
  <2>9. Jobs!job.win \in Windows
    BY JobType DEF Entries
  <2>10. transfer.pc = "record" => fence'[Jobs!job.win] = "signalled"
    BY <2>6, <2>9 DEF FencesAreTrue
  <2>11. transfer.pc = "submit" =>
            /\ fence'[Jobs!job.win] = "unsignalled"
            /\ \A k \in 1 .. Len(gpu') : gpu'[k].win # Jobs!job.win
    BY <2>3, <2>4, <2>6, <2>9 DEF FencesAreTrue
  <2>12. QED
    BY <1>1, <2>7, <2>8, <2>10, <2>11 DEF FencesAreTrue
<1>3. CASE Jobs!Render \/ UNCHANGED jobVars
  <2>1. UNCHANGED <<gpu, fence>>
    BY <1>3
       DEF Jobs!Render, Jobs!TakeRebuild, Jobs!IdleQueues, Jobs!ResetPools,
           Jobs!CloseWindow, Jobs!AckRebuild, Jobs!RenderGoes, jobVars, Jobs!windowVars,
           Jobs!gpuVars
  <2>2. QED
    BY <1>1, <2>1 DEF FencesAreTrue
<1>4. QED
  BY <1>2, <1>3

-----------------------------------------------------------------------------
(* The values.                                                              *)

\* The game thread gives a value at most once: that of the slot it fills.
LEMMA LuaValues ==
    ASSUME RingType, SlotsAreOwned, ValuesAreOnce, Jobs!Lua
    PROVE  ValuesAreOnce'
<1> DEFINE Filled(i) == /\ lua.pc = "fill" /\ lua'.pc = "run" /\ lua.at = i
                        /\ timeline' = timeline /\ ring'[i].val = timeline
<1>1. /\ UNCHANGED <<transfer, handled>>
      /\ \A i \in Jobs!Slots : ring[i].status = 2 => ring'[i] = ring[i]
      /\ \A i \in Jobs!Slots : ring'[i] = ring[i] \/ ring'[i].status = 1 \/ Filled(i)
  BY LuaRing
<1>2. /\ timeline' >= 0 /\ (lua'.pc \in {"request", "fill"} => timeline' >= 1)
      /\ Given \subseteq Given'
      /\ lua.pc = "fill" => timeline \in Given' /\ timeline \notin Given
  <2>1. CASE Jobs!RequestTransfer
    BY <2>1 DEF Jobs!RequestTransfer, Jobs!At, ValuesAreOnce, Given, RingType
  <2>2. CASE Jobs!TrySlot
    BY <2>2 DEF Jobs!TrySlot, Jobs!At, ValuesAreOnce, Given, RingType
  <2>3. CASE Jobs!FillSlot
    BY <2>3 DEF Jobs!FillSlot, Jobs!At, ValuesAreOnce, Given, RingType
  <2>4. CASE Jobs!WaitTransfer \/ Jobs!OpenStream
    BY <2>4 DEF Jobs!WaitTransfer, Jobs!OpenStream, Jobs!At, ValuesAreOnce, Given, RingType
  <2>5. CASE \E w \in Windows :
               Jobs!AllocateTenant(w) \/ Jobs!AskRebuild(w) \/ Jobs!BeginInit(w)
    BY <2>5
       DEF Jobs!AllocateTenant, Jobs!AskRebuild, Jobs!BeginInit, Jobs!At, ValuesAreOnce,
           Given, RingType
  <2>6. QED
    BY <2>1, <2>2, <2>3, <2>4, <2>5 DEF Jobs!Lua
<1> HIDE DEF Filled
<1>3. \A i \in Jobs!Slots : ring'[i].status = 2 =>
         \/ ring'[i] = ring[i]
         \/ ring'[i].val = timeline /\ lua.pc = "fill" /\ lua.at = i
  BY <1>1 DEF Filled
<1>4. \A i \in Jobs!Slots : ring'[i].status = 2 => ring'[i].val \in Given'
  BY <1>2, <1>3 DEF ValuesAreOnce
<1>5. ASSUME NEW i \in Jobs!Slots, NEW j \in Jobs!Slots, ring'[i].status = 2,
             ring'[j].status = 2, ring'[i].val = ring'[j].val
      PROVE  i = j
  <2>1. ring'[i] = ring[i] => ring'[i].val \in Given
    BY <1>5 DEF ValuesAreOnce
  <2>2. ring'[j] = ring[j] => ring'[j].val \in Given
    BY <1>5 DEF ValuesAreOnce
  <2>3. QED
    BY <1>2, <1>3, <1>5, <2>1, <2>2 DEF ValuesAreOnce
<1>6. ASSUME NEW k \in 1 .. Len(handled), NEW i \in Jobs!Slots, Waits(i)'
      PROVE  ring'[i].val # handled[k]
  <2>1. handled[k] \in Given
    BY DEF ValuesAreOnce
  <2>2. CASE ring'[i] = ring[i]
    BY <1>1, <1>6, <2>2 DEF Waits, ValuesAreOnce
  <2>3. CASE ring'[i] # ring[i]
    BY <1>2, <1>3, <1>6, <2>1, <2>3 DEF Waits
  <2>4. QED
    BY <2>2, <2>3
<1>7. QED
  BY <1>1, <1>2, <1>4, <1>5, <1>6 DEF ValuesAreOnce

\* The transfer thread handles the job of its slot, and gives the slot back.
LEMMA TransferValues ==
    ASSUME Jobs!TransferAssumption, RingType, SlotsAreOwned, ValuesAreOnce, Jobs!Transfer
    PROVE  ValuesAreOnce'
<1>1. /\ transfer.at \in Jobs!Slots /\ Jobs!job = ring[transfer.at]
      /\ Jobs!job \in Entries /\ Jobs!job.val \in Int
  BY JobType DEF Entries, Jobs!job
<1>2. UNCHANGED <<lua, timeline>>
  BY TransferRuns DEF Jobs!luaAndRender
<1>3. Given' = Given
  BY <1>2 DEF Given
<1>4. \/ UNCHANGED ring
      \/ /\ ring'[transfer.at].status = 0
         /\ \A i \in Jobs!Slots : i # transfer.at => ring'[i] = ring[i]
  BY <1>1, TransferRuns, FreeRing
<1>5. \A i \in Jobs!Slots : ring'[i].status = 2 => ring'[i] = ring[i]
  BY <1>4
<1>6. CASE handled' = handled
  <2>1. ASSUME NEW i \in Jobs!Slots, Waits(i)' PROVE Waits(i)
    <3>1. CASE transfer.pc # "await" \/ transfer.at # i
      BY <1>5, <2>1, <3>1 DEF Waits
    <3>2. CASE transfer.pc = "await" /\ transfer.at = i
      <4>1. Jobs!AwaitCopy
        BY <3>2
           DEF Jobs!Transfer, Jobs!ScanSlot, Jobs!RaiseBusy, Jobs!KeepJob, Jobs!WaitFence,
               Jobs!RecordCopy, Jobs!SubmitCopy, Jobs!DropJob, Jobs!FenceTimeout,
               Jobs!AwaitCopy, Jobs!LowerBusy, Jobs!NextSlot, Jobs!Goes
      <4>2. ring'[i].status = 0
        BY <1>1, <3>2, <4>1, FreeRing DEF Jobs!AwaitCopy
      <4>3. QED
        BY <2>1, <4>2 DEF Waits
    <3>3. QED
      BY <3>1, <3>2
  <2>2. ASSUME NEW i \in Jobs!Slots, Waits(i)' PROVE ring'[i] = ring[i] /\ Waits(i)
    BY <1>5, <2>1, <2>2 DEF Waits
  <2>3. QED
    BY <1>2, <1>3, <1>5, <1>6, <2>2 DEF ValuesAreOnce
<1>7. CASE Jobs!DropJob \/ Jobs!FenceTimeout \/ Jobs!SubmitCopy
  <2>1. /\ handled' = Append(handled, Jobs!job.val)
        /\ transfer.pc \in Holding \ {"await"}
        /\ transfer'.at = transfer.at /\ ~Waits(transfer.at)'
    <3>1. CASE Jobs!SubmitCopy
      BY <3>1 DEF Jobs!SubmitCopy, Jobs!Goes, Jobs!At, Holding, Waits
    <3>2. CASE Jobs!DropJob \/ Jobs!FenceTimeout
      BY <1>1, <3>2, FreeRing
         DEF Jobs!DropJob, Jobs!FenceTimeout, Jobs!Goes, Jobs!At, Holding, Waits
    <3>3. QED
      BY <1>7, <3>1, <3>2
  <2>2. /\ Len(handled') = Len(handled) + 1 /\ Len(handled) \in Nat
        /\ handled'[Len(handled) + 1] = Jobs!job.val
        /\ \A k \in 1 .. Len(handled) : handled'[k] = handled[k]
    BY <1>1, <2>1, AppendProperties, LenProperties DEF RingType
  <2>3. \A k \in 1 .. Len(handled') : k \in 1 .. Len(handled) \/ k = Len(handled) + 1
    BY <2>2
  <2>4. Jobs!job.status = 2 /\ Waits(transfer.at)
    BY <1>1, <2>1 DEF SlotsAreOwned, Waits
  <2>5. Jobs!job.val \in Given /\ \A k \in 1 .. Len(handled) : handled[k] # Jobs!job.val
    BY <1>1, <2>4 DEF ValuesAreOnce
  <2>6. ASSUME NEW i \in Jobs!Slots, Waits(i)'
        PROVE  ring'[i] = ring[i] /\ Waits(i) /\ ring[i].val # Jobs!job.val
    <3>1. i # transfer.at
      BY <2>1, <2>6 DEF Waits
    <3>2. ring'[i].status = 2
      BY <2>6 DEF Waits
    <3>3. ring'[i] = ring[i] /\ ring[i].status = 2
      BY <1>5, <2>6, <3>2
    <3>4. QED
      BY <1>1, <2>4, <3>1, <3>3 DEF Waits, ValuesAreOnce
  <2>7. \A k \in 1 .. Len(handled') : handled'[k] \in Given
    BY <2>2, <2>3, <2>5 DEF ValuesAreOnce
  <2>8. \A k \in 1 .. Len(handled') : \A i \in Jobs!Slots :
           Waits(i)' => ring'[i].val # handled'[k]
    BY <2>2, <2>3, <2>6 DEF ValuesAreOnce
  <2>9. \A j, k \in 1 .. Len(handled') : handled'[j] = handled'[k] => j = k
    BY <2>2, <2>3, <2>5 DEF ValuesAreOnce
  <2>10. QED
    BY <1>2, <1>3, <1>5, <2>7, <2>8, <2>9 DEF ValuesAreOnce
<1>8. QED
  BY <1>6, <1>7
     DEF Jobs!Transfer, Jobs!ScanSlot, Jobs!RaiseBusy, Jobs!KeepJob, Jobs!WaitFence,
         Jobs!RecordCopy, Jobs!AwaitCopy, Jobs!LowerBusy, Jobs!gpuVars

LEMMA OthersValues ==
    ASSUME ValuesAreOnce, Jobs!Render \/ Jobs!GpuDone \/ UNCHANGED jobVars
    PROVE  ValuesAreOnce'
<1>1. UNCHANGED <<ring, timeline, lua, transfer, handled>>
  BY DEF Jobs!Render, Jobs!TakeRebuild, Jobs!IdleQueues, Jobs!ResetPools,
         Jobs!CloseWindow, Jobs!AckRebuild, Jobs!RenderGoes, Jobs!GpuDone, jobVars
<1>2. QED
  BY <1>1 DEF ValuesAreOnce, Waits, Given

-----------------------------------------------------------------------------
LEMMA RingStep == Jobs!TransferAssumption /\ RingInv /\ [Jobs!Next]_jobVars => RingInv'
<1> SUFFICES ASSUME Jobs!TransferAssumption, RingInv, [Jobs!Next]_jobVars PROVE RingInv'
  OBVIOUS
<1>1. CASE Jobs!Lua
  BY <1>1, LuaTypes, LuaFlags, LuaFences, LuaValues DEF RingInv
<1>2. CASE Jobs!Transfer
  BY <1>2, TransferTypes, TransferFlags, TransferFences, TransferValues DEF RingInv
<1>3. CASE Jobs!Render \/ Jobs!GpuDone \/ UNCHANGED jobVars
  BY <1>3, OthersTypes, OthersFlags, OthersFences, OthersValues DEF RingInv
<1>4. QED
  BY <1>1, <1>2, <1>3 DEF Jobs!Next

-----------------------------------------------------------------------------
(* The remaining types.                                                     *)

\* Bounds; a rebuild asked for suspends its window; and a window is busy only while the
\* transfer thread has a job.
RestType ==
    /\ timeline <= MaxJobs /\ counter \in 0 .. MaxJobs /\ copied \subseteq 1 .. MaxJobs
    /\ \A i \in Jobs!Slots : ring[i].val \in 0 .. MaxJobs
    /\ \A k \in 1 .. Len(gpu) : gpu[k].val \in 1 .. MaxJobs
    /\ command \subseteq suspended /\ suspended \subseteq Windows
    /\ rebuilds \in 0 .. MaxRebuilds
    /\ render.pc \in {"poll", "wait", "idle", "reset", "ack"}
    /\ transfer.pc \in {"scan", "take"} => \A w \in Windows : ~busy[w]

LEMMA RestInit == Jobs!TransferAssumption /\ Jobs!Init => RestType
<1> SUFFICES ASSUME Jobs!TransferAssumption, Jobs!Init PROVE RestType
  OBVIOUS
<1>1. Len(gpu) = 0
  BY EmptySeq DEF Jobs!Init
<1>2. QED
  BY <1>1 DEF Jobs!TransferAssumption, Jobs!Init, Jobs!At, RestType

LEMMA LuaRest ==
    ASSUME Jobs!TransferAssumption, RingInv, RestType, Jobs!Lua
    PROVE  RestType'
<1>1. UNCHANGED <<transfer, gpu, busy, counter, copied, render>>
  BY LuaRing
     DEF RingInv, Jobs!Lua, Jobs!AllocateTenant, Jobs!AskRebuild, Jobs!BeginInit,
         Jobs!RequestTransfer, Jobs!TrySlot, Jobs!FillSlot, Jobs!WaitTransfer,
         Jobs!OpenStream, Jobs!gpuVars
<1>2. timeline' <= MaxJobs
  BY DEF RingInv, RingType, RestType, Jobs!TransferAssumption, Jobs!Lua,
         Jobs!AllocateTenant, Jobs!AskRebuild, Jobs!BeginInit, Jobs!RequestTransfer,
         Jobs!TrySlot, Jobs!FillSlot, Jobs!WaitTransfer, Jobs!OpenStream
<1>3. \A i \in Jobs!Slots : ring'[i].val \in 0 .. MaxJobs
  <2>1. CASE Jobs!FillSlot
    <3>1. ring'[lua.at].val = timeline
          /\ \A i \in Jobs!Slots : i # lua.at => ring'[i] = ring[i]
      BY <2>1 DEF Jobs!FillSlot, RingInv, RingType
    <3>2. timeline \in 0 .. MaxJobs
      BY DEF RingInv, RingType, ValuesAreOnce, RestType, Jobs!TransferAssumption
    <3>3. QED
      BY <3>1, <3>2 DEF RestType
  <2>2. CASE Jobs!TrySlot
    <3>1. CASE UNCHANGED ring
      BY <3>1 DEF RestType
    <3>2. CASE ring' = [ring EXCEPT ![lua.at].status = Jobs!Reserved]
      BY <3>2 DEF RestType, RingInv, RingType, Entries
    <3>3. QED
      BY <2>2, <3>1, <3>2 DEF Jobs!TrySlot
  <2>3. CASE ~Jobs!FillSlot /\ ~Jobs!TrySlot
    BY <2>3
       DEF RestType, Jobs!Lua, Jobs!AllocateTenant, Jobs!AskRebuild, Jobs!BeginInit,
           Jobs!RequestTransfer, Jobs!WaitTransfer, Jobs!OpenStream
  <2>4. QED
    BY <2>1, <2>2, <2>3
<1>4. command' \subseteq suspended' /\ suspended' \subseteq Windows
  BY DEF RestType, Jobs!Lua, Jobs!AllocateTenant, Jobs!AskRebuild, Jobs!BeginInit,
         Jobs!RequestTransfer, Jobs!TrySlot, Jobs!FillSlot, Jobs!WaitTransfer,
         Jobs!OpenStream, Jobs!windowVars
<1>5. rebuilds' \in 0 .. MaxRebuilds
  BY DEF RestType, Jobs!TransferAssumption, Jobs!Lua, Jobs!AllocateTenant,
         Jobs!AskRebuild, Jobs!BeginInit, Jobs!RequestTransfer, Jobs!TrySlot,
         Jobs!FillSlot, Jobs!WaitTransfer, Jobs!OpenStream
<1>6. QED
  BY <1>1, <1>2, <1>3, <1>4, <1>5 DEF RestType

LEMMA TransferRest ==
    ASSUME Jobs!TransferAssumption, RingInv, RestType, Jobs!Transfer
    PROVE  RestType'
<1>1. UNCHANGED <<timeline, command, suspended, rebuilds, render, counter, copied>>
  BY DEF Jobs!Transfer, Jobs!ScanSlot, Jobs!RaiseBusy, Jobs!DropJob, Jobs!KeepJob,
         Jobs!WaitFence, Jobs!FenceTimeout, Jobs!RecordCopy, Jobs!SubmitCopy,
         Jobs!AwaitCopy, Jobs!LowerBusy, Jobs!luaAndRender, Jobs!gpuVars
<1>2. \A i \in Jobs!Slots : ring'[i].val \in 0 .. MaxJobs
  <2>1. CASE UNCHANGED ring
    BY <2>1 DEF RestType
  <2>2. CASE ring' = Jobs!Free(ring, transfer.at)
    BY <2>2 DEF Jobs!Free, RestType, RingInv, RingType, Entries
  <2>3. QED
    BY <2>1, <2>2, TransferRuns DEF RingInv
<1>3. \A k \in 1 .. Len(gpu') : gpu'[k].val \in 1 .. MaxJobs
  <2>1. CASE Jobs!SubmitCopy
    <3> DEFINE copy == [win |-> Jobs!job.win, val |-> Jobs!job.val]
    <3>1. Jobs!job.status = 2 /\ Jobs!job = ring[transfer.at] /\ transfer.at \in Jobs!Slots
          /\ Jobs!job.win \in Windows /\ Jobs!job.val \in Int
      BY <2>1, JobType
         DEF Jobs!SubmitCopy, Jobs!Goes, Holding, RingInv, SlotsAreOwned, Jobs!job, Entries
    <3>2. Jobs!job.val \in 1 .. timeline
      BY <3>1 DEF RingInv, RingType, ValuesAreOnce, Given
    <3>3. copy.val \in 1 .. MaxJobs /\ copy \in Copies /\ gpu' = Append(gpu, copy)
      BY <2>1, <3>1, <3>2
         DEF Copies, RestType, RingInv, RingType, Jobs!TransferAssumption, Jobs!SubmitCopy
    <3> HIDE DEF copy
    <3>4. /\ Len(gpu') = Len(gpu) + 1 /\ Len(gpu) \in Nat /\ gpu'[Len(gpu) + 1] = copy
          /\ \A k \in 1 .. Len(gpu) : gpu'[k] = gpu[k]
      BY <3>3, AppendProperties, LenProperties DEF RingInv, RingType
    <3>5. \A k \in 1 .. Len(gpu') : k \in 1 .. Len(gpu) \/ k = Len(gpu) + 1
      BY <3>4
    <3>6. QED
      BY <3>3, <3>4, <3>5 DEF RestType
  <2>2. CASE UNCHANGED gpu
    BY <2>2 DEF RestType
  <2>3. QED
    BY <2>1, <2>2
       DEF Jobs!Transfer, Jobs!ScanSlot, Jobs!RaiseBusy, Jobs!DropJob, Jobs!KeepJob,
           Jobs!WaitFence, Jobs!FenceTimeout, Jobs!RecordCopy, Jobs!AwaitCopy,
           Jobs!LowerBusy, Jobs!gpuVars
<1>4. transfer'.pc \in {"scan", "take"} => \A w \in Windows : ~busy'[w]
  <2>1. CASE Jobs!ScanSlot
    BY <2>1 DEF Jobs!ScanSlot, Jobs!Goes, Jobs!NextSlot, RestType
  <2>2. CASE Jobs!LowerBusy
    BY <2>2 DEF Jobs!LowerBusy, Jobs!Lowered
  <2>3. CASE ~Jobs!ScanSlot /\ ~Jobs!LowerBusy
    BY <2>3
       DEF Jobs!Transfer, Jobs!RaiseBusy, Jobs!DropJob, Jobs!KeepJob, Jobs!WaitFence,
           Jobs!FenceTimeout, Jobs!RecordCopy, Jobs!SubmitCopy, Jobs!AwaitCopy, Jobs!Goes,
           Jobs!At
  <2>4. QED
    BY <2>1, <2>2, <2>3
<1>5. QED
  BY <1>1, <1>2, <1>3, <1>4 DEF RestType

LEMMA OthersRest ==
    ASSUME Jobs!TransferAssumption, RingInv, RestType,
           Jobs!Render \/ Jobs!GpuDone \/ UNCHANGED jobVars
    PROVE  RestType'
<1>1. UNCHANGED <<ring, busy, timeline, transfer, suspended, rebuilds>>
      /\ command' \subseteq command
  BY DEF Jobs!Render, Jobs!TakeRebuild, Jobs!IdleQueues, Jobs!ResetPools,
         Jobs!CloseWindow, Jobs!AckRebuild, Jobs!RenderGoes, Jobs!GpuDone, jobVars
<1>2. render'.pc \in {"poll", "wait", "idle", "reset", "ack"}
  BY DEF Jobs!Render, Jobs!TakeRebuild, Jobs!IdleQueues, Jobs!ResetPools,
         Jobs!CloseWindow, Jobs!AckRebuild, Jobs!RenderGoes, Jobs!At, Jobs!GpuDone, jobVars,
         RestType
<1>3. /\ \A k \in 1 .. Len(gpu') : gpu'[k].val \in 1 .. MaxJobs
      /\ counter' \in 0 .. MaxJobs /\ copied' \subseteq 1 .. MaxJobs
  <2>1. CASE Jobs!GpuDone
    <3>1. /\ gpu # << >> /\ gpu' = Tail(gpu) /\ copied' = copied \cup {Head(gpu).val}
          /\ counter' = counter \/ counter' = Head(gpu).val
      BY <2>1 DEF Jobs!GpuDone
    <3>2. Len(gpu) \in Nat /\ Len(gpu) # 0 /\ Head(gpu) = gpu[1] /\ 1 \in 1 .. Len(gpu)
      BY <3>1, EmptySeq, LenProperties DEF RingInv, RingType
    <3>3. /\ Len(gpu') = Len(gpu) - 1
          /\ \A k \in 1 .. Len(gpu') : gpu'[k] = gpu[k + 1]
      BY <3>1, HeadTailProperties DEF RingInv, RingType
    <3>4. \A k \in 1 .. Len(gpu') : k + 1 \in 1 .. Len(gpu)
      BY <3>2, <3>3
    <3>5. Head(gpu).val \in 1 .. MaxJobs
      BY <3>2 DEF RestType
    <3>6. \A k \in 1 .. Len(gpu') : gpu'[k].val \in 1 .. MaxJobs
      BY <3>3, <3>4 DEF RestType
    <3>7. counter' \in 0 .. MaxJobs
      BY <3>1, <3>5 DEF RestType, Jobs!TransferAssumption
    <3>8. copied' \subseteq 1 .. MaxJobs
      BY <3>1, <3>5 DEF RestType
    <3>9. QED
      BY <3>6, <3>7, <3>8
  <2>2. CASE Jobs!Render \/ UNCHANGED jobVars
    BY <2>2
       DEF Jobs!Render, Jobs!TakeRebuild, Jobs!IdleQueues, Jobs!ResetPools,
           Jobs!CloseWindow, Jobs!AckRebuild, Jobs!RenderGoes, Jobs!gpuVars, jobVars,
           RestType
  <2>3. QED
    BY <2>1, <2>2
<1>4. QED
  BY <1>1, <1>2, <1>3 DEF RestType

LEMMA RestStep ==
    Jobs!TransferAssumption /\ RingInv /\ RestType /\ [Jobs!Next]_jobVars => RestType'
  BY LuaRest, TransferRest, OthersRest DEF Jobs!Next

-----------------------------------------------------------------------------
(* The threads: the ring and the mailbox.                                   *)

ThreadsInv == InputInv /\ RingInv /\ RestType

LEMMA ThreadsInit == MCInit => ThreadsInv
  BY InputInit, RingInit, RestInit, ThreadsAssumption DEF MCInit, ThreadsInv

LEMMA ThreadsKept == ThreadsInv /\ [MCNext]_allVars => ThreadsInv'
<1> SUFFICES ASSUME ThreadsInv, [MCNext]_allVars PROVE ThreadsInv'
  OBVIOUS
<1>1. [Jobs!Next]_jobVars
  BY DEF MCNext, Clicking, Moving, Copying, allVars
<1>2. QED
  BY <1>1, InputKept, RingStep, RestStep, ThreadsAssumption DEF ThreadsInv

\* For every number of windows, slots, jobs and rebuilds, and when waits run out too: a
\* job is run or dropped once, its command buffer is recorded only when the GPU is done
\* with it, and vx_stream_init replaces no objects in use
\* (vk_transfer_loop.c:8-81 against vk_transfer_api.c:11-27 and ring_stream.c:56-76).
THEOREM JobsSafe == MCSpec => []JobsAreSafe
<1>1. RingInv => JobsAreSafe
  <2> SUFFICES ASSUME RingInv PROVE Jobs!JobsAreSafe
    BY DEF JobsAreSafe
  <2>1. DOMAIN handled = 1 .. Len(handled) /\ DOMAIN gpu = 1 .. Len(gpu)
    BY LenProperties DEF RingInv, RingType
  <2>2. Jobs!IsInjective(handled)
    BY <2>1 DEF RingInv, ValuesAreOnce, Jobs!IsInjective
  <2>3. Jobs!Range(handled) \subseteq 1 .. timeline
    <3>1. Given \subseteq 1 .. timeline
      BY DEF RingInv, RingType, Given
    <3>2. QED
      BY <2>1, <3>1 DEF RingInv, ValuesAreOnce, Jobs!Range
  <2>4. Jobs!BufferIdle
    BY <2>1 DEF RingInv, FencesAreTrue, Jobs!BufferIdle
  <2>5. QED
    BY <2>2, <2>3, <2>4 DEF Jobs!JobsAreSafe, Jobs!JobsAreHandledOnce, RingInv, FlagsAreUp
<1>2. ThreadsInv => JobsAreSafe
  BY <1>1 DEF ThreadsInv
<1>3. QED
  BY ThreadsInit, ThreadsKept, <1>2, PTL DEF MCSpec

\* A sequence whose elements are of a set is a sequence over it.
LEMMA SeqOf ==
    ASSUME NEW S, NEW T, NEW seq \in Seq(S), \A k \in 1 .. Len(seq) : seq[k] \in T
    PROVE  seq \in Seq(T)
<1>1. Len(seq) \in Nat /\ seq = [k \in 1 .. Len(seq) |-> seq[k]]
  BY LenProperties
<1>2. seq \in [1 .. Len(seq) -> T]
  BY <1>1
<1>3. QED
  BY <1>1, <1>2, SeqDef

\* Every part of the mailbox and of the ring is what it should be, no value is given
\* beyond the jobs accepted, and a window is busy only while the transfer thread has
\* a job (vk_transfer_loop.c:13, 16, 23, 38, 81).
THEOREM ThreadsAreTyped == MCSpec => []ThreadsTypeOK
<1>1. RingInv /\ RestType => Jobs!TypeOK
  <2> SUFFICES ASSUME RingInv, RestType PROVE Jobs!TypeOK
    OBVIOUS
  <2>1. timeline \in 0 .. MaxJobs /\ MaxJobs \in Nat
    BY ThreadsAssumption
       DEF RingInv, RingType, ValuesAreOnce, RestType, Jobs!TransferAssumption
  <2>2. ring \in [Jobs!Slots -> [status : 0 .. 2, win : Windows, val : 0 .. MaxJobs]]
    <3>1. ASSUME NEW i \in Jobs!Slots
          PROVE  ring[i] \in [status : 0 .. 2, win : Windows, val : 0 .. MaxJobs]
      <4>1. ring[i] \in Entries /\ ring[i].val \in 0 .. MaxJobs
        BY DEF RingInv, RingType, RestType
      <4>2. QED
        BY <4>1 DEF Entries
    <3>2. QED
      BY <3>1 DEF RingInv, RingType
  <2>3. gpu \in Seq([win : Windows, val : 1 .. MaxJobs])
    <3>1. ASSUME NEW k \in 1 .. Len(gpu)
          PROVE  gpu[k] \in [win : Windows, val : 1 .. MaxJobs]
      <4>1. gpu[k] \in Copies /\ gpu[k].val \in 1 .. MaxJobs
        BY GpuWindows DEF RingInv, RestType
      <4>2. QED
        BY <4>1 DEF Copies
    <3>2. gpu \in Seq(Copies)
      BY DEF RingInv, RingType
    <3>3. QED
      BY <3>1, <3>2, SeqOf
  <2>4. handled \in Seq(0 .. MaxJobs)
    <3>1. \A k \in 1 .. Len(handled) : handled[k] \in 0 .. MaxJobs
      <4>1. Given \subseteq 0 .. MaxJobs
        BY <2>1 DEF Given
      <4>2. QED
        BY <4>1 DEF RingInv, ValuesAreOnce
    <3>2. handled \in Seq(Int)
      BY DEF RingInv, RingType
    <3>3. QED
      BY <3>1, <3>2, SeqOf
  <2>5. /\ transfer.at \in Jobs!Slots
        /\ transfer.pc \in {"scan", "take", "check", "wait", "record", "submit", "await",
                            "release", "break"}
    BY DEF RingInv, RingType, Steps, Holding
  <2>6. QED
    BY <2>1, <2>2, <2>3, <2>4, <2>5 DEF RingInv, RingType, RestType, Jobs!TypeOK
<1>2. ThreadsInv => ThreadsTypeOK
  BY <1>1, InputIsTyped DEF ThreadsInv, ThreadsTypeOK
<1>3. QED
  BY ThreadsInit, ThreadsKept, <1>2, PTL DEF MCSpec
=============================================================================
