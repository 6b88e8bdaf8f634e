---------------------------- MODULE RenderRingProofs ----------------------------
(***************************************************************************)
(* The render ring, for every number of slots: types, the command buffers, *)
(* and, if one slot more than frames in rotation is there, as in the code  *)
(* (4 and 3), that no packet is written while it is read, and that the     *)
(* ring is the queue of FrameQueue.                                        *)
(***************************************************************************)
EXTENDS RenderRing, SequenceTheorems, TLAPS

-----------------------------------------------------------------------------
(* Counting in a circle.                                                    *)

LEMMA ModType == ASSUME NEW N \in Nat \ {0}, NEW x \in Int PROVE x % N \in 0 .. N - 1
  OBVIOUS

LEMMA DivType == ASSUME NEW N \in Nat \ {0}, NEW x \in Int PROVE x \div N \in Int
  OBVIOUS

LEMMA DivMod ==
    ASSUME NEW N \in Nat \ {0}, NEW x \in Int
    PROVE  x = N * (x \div N) + (x % N)
  BY SMTT(30)

LEMMA ModUnique ==
    ASSUME NEW N \in Nat \ {0}, NEW q \in Int, NEW m \in 0 .. N - 1
    PROVE  (N * q + m) % N = m
  OBVIOUS

LEMMA Distributes ==
    ASSUME NEW N \in Int, NEW q \in Int, NEW p \in Int
    PROVE  N * q - N * p = N * (q - p) /\ N * q + N * p = N * (q + p)
  OBVIOUS

\* Two numbers less than N apart with the same remainder are the same.
LEMMA ModInjective ==
    ASSUME NEW N \in Nat \ {0}, NEW x \in Int, NEW y \in Int,
           x % N = y % N, x - y < N, y - x < N
    PROVE  x = y
<1> DEFINE q == x \div N
           p == y \div N
           m == x % N
           a == N * q
           b == N * p
<1>1. q \in Int /\ p \in Int /\ m \in Int
  BY ModType, DivType
<1>2. x = a + m /\ y = b + m
  BY DivMod
<1>3. a \in Int /\ b \in Int /\ a - b = N * (q - p)
  BY <1>1, Distributes
<1>4. \A d \in Int : d >= 1 => N * d >= N
  OBVIOUS
<1>5. \A d \in Int : d <= -1 => N * d <= 0 - N
  OBVIOUS
<1>6. N * 0 = 0
  OBVIOUS
<1> HIDE DEF q, p, m, a, b
<1>7. x - y = N * (q - p)
  BY <1>1, <1>2, <1>3
<1>8. q - p = 0
  BY <1>1, <1>4, <1>5, <1>7
<1>9. QED
  BY <1>1, <1>6, <1>7, <1>8

LEMMA ModAdd ==
    ASSUME NEW N \in Nat \ {0}, NEW x \in Int, NEW i \in Int
    PROVE  ((x % N) + i) % N = (x + i) % N
<1> DEFINE q == x \div N
           m == x % N
           y == m + i
           p == y \div N
           k == y % N
           a == N * q
           b == N * p
<1>1. q \in Int /\ m \in Int /\ x = a + m
  BY ModType, DivType, DivMod
<1>2. y \in Int /\ y = m + i
  BY <1>1
<1>3. p \in Int /\ k \in 0 .. N - 1 /\ y = b + k
  BY <1>2, ModType, DivType, DivMod
<1>4. a \in Int /\ b \in Int /\ a + b = N * (q + p)
  BY <1>1, <1>3, Distributes
<1>5. k = ((x % N) + i) % N
  OBVIOUS
<1> HIDE DEF q, p, m, a, b, y, k
<1>6. x + i = a + b + k
  BY <1>1, <1>2, <1>3, <1>4
<1>7. q + p \in Int /\ x + i = N * (q + p) + k
  BY <1>1, <1>3, <1>4, <1>6
<1>8. (x + i) % N = k
  BY <1>3, <1>7, ModUnique
<1>9. QED
  BY <1>5, <1>8

LEMMA ModPeriod ==
    ASSUME NEW N \in Nat \ {0}, NEW x \in Int
    PROVE  (x - N) % N = x % N
<1> DEFINE q == x \div N
           m == x % N
           a == N * q
<1>1. q \in Int /\ m \in 0 .. N - 1 /\ x = a + m
  BY ModType, DivType, DivMod
<1>2. a \in Int /\ a - N * 1 = N * (q - 1)
  BY <1>1, Distributes
<1>3. N * 1 = N /\ m = x % N
  OBVIOUS
<1> HIDE DEF q, m, a
<1>4. q - 1 \in Int /\ x - N = N * (q - 1) + m
  BY <1>1, <1>2, <1>3
<1>5. QED
  BY <1>1, <1>3, <1>4, ModUnique

-----------------------------------------------------------------------------
(* Types.                                                                   *)

RingType ==
    /\ locked_mask \subseteq Slots
    /\ ready_idx \in Places /\ local_read \in Places
    /\ active_slots \in [Frames -> Places]
    /\ packets \in [Slots -> 0 .. FrameIds - 1]
    /\ wsi_state \in {0, 1} /\ render_busy \in BOOLEAN
    /\ window_resized \in BOOLEAN /\ rebuild_cmd \in BOOLEAN

LuaType ==
    /\ lua_pc \in {"frame", "scan", "pack", "init_wait", "init_reset"}
    /\ scan \in 1 .. RingSlots /\ write_idx \in Places
    /\ lua_pc = "pack" => write_idx \in Slots
    /\ last_frame \in 0 .. FrameIds - 1 /\ suspended \in BOOLEAN

\* The packet the render thread reads is in a slot.
Reading == {"raise_busy", "retire", "check", "fence", "image", "submit"}

RenderType ==
    /\ render_pc \in Reading \cup {"commands", "poll", "load_local", "advance",
                                   "frame_done"}
    /\ ready \in Places /\ local_read_val \in Places
    /\ render_pc \in Reading => local_read_val \in Slots
    /\ current_frame \in Frames

GpuType ==
    /\ fence \in [Frames -> BOOLEAN] /\ gpu \in [Frames -> Places]
    /\ \A f \in Frames : ~fence[f] => gpu[f] # NoSlot

TypeInv == RingType /\ LuaType /\ RenderType /\ GpuType

\* Counting in a circle stays in it.
LEMMA CircleType ==
    /\ \A s \in Int, i \in Int : SlotAfter(s, i) \in Slots
    /\ (current_frame \in Int => (current_frame + 1) % FrameSlots \in Frames)
    /\ \A i \in Int : i % FrameIds \in 0 .. FrameIds - 1
<1>1. ASSUME NEW s \in Int, NEW i \in Int PROVE SlotAfter(s, i) \in Slots
  <2>1. s + i \in Int
    OBVIOUS
  <2>2. QED
    BY <2>1, SlotsAssumption, ModType DEF SlotAfter, Slots
<1>2. FrameSlots \in Nat \ {0} /\ FrameIds \in Nat \ {0}
  BY SlotsAssumption
<1>3. ASSUME current_frame \in Int PROVE (current_frame + 1) % FrameSlots \in Frames
  <2>1. current_frame + 1 \in Int
    BY <1>3
  <2>2. QED
    BY <1>2, <2>1, ModType DEF Frames
<1>4. QED
  BY <1>1, <1>2, <1>3, ModType

LEMMA PlaceType == Places \subseteq Int
  BY SlotsAssumption DEF Places, Slots, NoSlot

LEMMA TypeInit == Init => TypeInv
<1> SUFFICES ASSUME Init PROVE TypeInv
  OBVIOUS
<1>1. 0 \in 0 .. FrameIds - 1 /\ 1 \in 1 .. RingSlots /\ 0 \in Frames
  BY SlotsAssumption DEF Frames
<1>2. RingType
  BY <1>1 DEF Init, RingType, Places
<1>3. LuaType
  BY <1>1 DEF Init, LuaType, Places
<1>4. RenderType /\ GpuType
  BY <1>1 DEF Init, RenderType, GpuType, Places, Reading
<1>5. QED
  BY <1>2, <1>3, <1>4 DEF TypeInv

LEMMA TypeLua == ASSUME TypeInv, Lua PROVE TypeInv'
<1> USE DEF TypeInv, RingType, LuaType, RenderType, GpuType
<1>1. CASE RequestRebuild
  BY <1>1 DEF RequestRebuild, ringVars, renderVars, gpuVars
<1>2. CASE BeginInit
  BY <1>2 DEF BeginInit, ringVars, renderVars, gpuVars
<1>3. CASE WaitForRenderer
  BY <1>3 DEF WaitForRenderer, ringVars, flagVars, renderVars, gpuVars
<1>4. CASE AbortInit
  BY <1>4 DEF AbortInit, ringVars, flagVars, renderVars, gpuVars
<1>5. CASE ResetRing
  BY <1>5 DEF ResetRing, renderVars, Places
<1>6. CASE BeginAcquire
  BY <1>6, SlotsAssumption DEF BeginAcquire, ringVars, flagVars, renderVars, gpuVars
<1>7. CASE ScanSlot
  <2> DEFINE s == SlotAfter(ready_idx, scan)
  <2>0. ready_idx \in Int /\ scan \in Int
    BY PlaceType, SlotsAssumption
  <2>1. s \in Slots
    BY <2>0, CircleType
  <2>2. UNCHANGED <<ready_idx, local_read, active_slots, packets, flagVars, last_frame,
                    suspended, renderVars, gpuVars>>
    BY <1>7 DEF ScanSlot
  <2>3. CASE s \notin locked_mask
    BY <1>7, <2>1, <2>2, <2>3 DEF ScanSlot, flagVars, renderVars, gpuVars, Places
  <2>4. CASE s \in locked_mask /\ scan < RingSlots
    BY <1>7, <2>2, <2>4, SlotsAssumption DEF ScanSlot, flagVars, renderVars, gpuVars
  <2>5. CASE s \in locked_mask /\ ~(scan < RingSlots)
    BY <1>7, <2>2, <2>5 DEF ScanSlot, flagVars, renderVars, gpuVars
  <2>6. QED
    BY <2>3, <2>4, <2>5
<1>8. CASE Commit
  <2>1. last_frame' \in 0 .. FrameIds - 1
    BY <1>8, CircleType DEF Commit, PackFrame
  <2>2. QED
    BY <1>8, <2>1 DEF Commit, PackFrame, flagVars, renderVars, gpuVars, Places
<1>9. QED
  BY <1>1, <1>2, <1>3, <1>4, <1>5, <1>6, <1>7, <1>8 DEF Lua

LEMMA TypeRender == ASSUME TypeInv, Render PROVE TypeInv'
<1> USE DEF TypeInv, RingType, LuaType, RenderType, GpuType, Reading
<1>1. CASE TakeCommands
  BY <1>1 DEF TakeCommands, ringVars, luaVars, gpuVars
<1>2. CASE LoadReady
  BY <1>2 DEF LoadReady, ringVars, flagVars, luaVars, gpuVars
<1>3. CASE LoadLocal
  BY <1>3 DEF LoadLocal, ringVars, flagVars, luaVars, gpuVars
<1>4. CASE Advance
  <2>0. SlotAfter(local_read_val, 1) \in Slots
    BY PlaceType, CircleType
  <2>1. TakenSlot(ready, local_read_val) \in Slots
    BY <2>0 DEF TakenSlot
  <2>2. QED
    BY <1>4, <2>1 DEF Advance, flagVars, luaVars, gpuVars, Places
<1>5. CASE RaiseBusy
  BY <1>5 DEF RaiseBusy, ringVars, luaVars, gpuVars
<1>6. CASE Retire
  BY <1>6 DEF Retire, flagVars, luaVars, gpuVars
<1>7. CASE Check
  BY <1>7 DEF Check, ringVars, flagVars, luaVars, gpuVars
<1>8. CASE WaitForFence
  BY <1>8 DEF WaitForFence, AfterTimeout, ringVars, flagVars, luaVars, gpuVars
<1>9. CASE AcquireImage
  BY <1>9 DEF AcquireImage, FenceBeforeImage, ringVars, luaVars
<1>10. CASE Submit
  <2>1. local_read_val \in Slots /\ local_read_val # NoSlot
    BY <1>10 DEF Submit, Slots, NoSlot
  <2>2. GpuType'
    BY <1>10, <2>1 DEF Submit, Places
  <2>3. QED
    BY <1>10, <2>2 DEF Submit, ringVars, flagVars, luaVars
<1>11. CASE FrameDone
  <2>1. current_frame' \in Frames
    BY <1>11, CircleType DEF FrameDone, Frames
  <2>2. QED
    BY <1>11, <2>1 DEF FrameDone, ringVars, luaVars, gpuVars
<1>12. QED
  BY <1>1, <1>2, <1>3, <1>4, <1>5, <1>6, <1>7, <1>8, <1>9, <1>10, <1>11 DEF Render

LEMMA TypeStep == TypeInv /\ [Next]_vars => TypeInv'
<1> USE DEF TypeInv, RingType, LuaType, RenderType, GpuType
<1>1. ASSUME TypeInv, Resize PROVE TypeInv'
  BY <1>1 DEF Resize, ringVars, luaVars, renderVars, gpuVars
<1>2. ASSUME TypeInv, NEW f \in Frames, Finish(f) PROVE TypeInv'
  BY <1>2 DEF Finish, ringVars, flagVars, luaVars, renderVars, Places
<1>3. ASSUME TypeInv, UNCHANGED vars PROVE TypeInv'
  BY <1>3 DEF vars, ringVars, flagVars, luaVars, renderVars, gpuVars
<1> HIDE DEF TypeInv, RingType, LuaType, RenderType, GpuType
<1>4. QED
  BY <1>1, <1>2, <1>3, TypeLua, TypeRender DEF Next

\* All state keeps its type, and no fence is left unsignalled with nothing behind it
\* that would signal it, so that the wait for it ends (vk_render_loop.c:86-103).
THEOREM TypesHold == Spec => []TypeOK
<1>1. TypeInv => TypeOK
  BY DEF TypeInv, RingType, LuaType, RenderType, GpuType, TypeOK, Reading
<1>2. QED
  BY TypeInit, TypeStep, <1>1, PTL DEF Spec

-----------------------------------------------------------------------------
(* Command buffers.                                                         *)

\* The window is closed, and the GPU has nothing of it to do.
Drained == /\ wsi_state = 0 /\ render_pc \notin {"fence", "image", "submit"}
           /\ \A f \in Frames : gpu[f] = NoSlot

\* A signalled fence is that of an idle command buffer, although vx_stream_init makes
\* all fences signalled: the rebuild before it was acknowledged by a drained GPU.
GpuInv ==
    /\ \A f \in Frames : fence[f] => gpu[f] = NoSlot
    /\ render_pc \in {"image", "submit"} => fence[current_frame]
    /\ suspended /\ ~window_resized => Drained
    /\ lua_pc \in {"init_wait", "init_reset"} => Drained
    /\ lua_pc # "frame" => ~suspended

LEMMA GpuInit == Init => GpuInv
  BY DEF Init, GpuInv

LEMMA GpuLua == ASSUME TypeInv, GpuInv, Lua PROVE GpuInv'
<1> USE DEF GpuInv, Drained
<1>1. CASE RequestRebuild
  BY <1>1 DEF RequestRebuild, renderVars, gpuVars
<1>2. CASE BeginInit
  BY <1>2 DEF BeginInit, renderVars, gpuVars
<1>3. CASE WaitForRenderer
  BY <1>3 DEF WaitForRenderer, flagVars, renderVars, gpuVars
<1>4. CASE AbortInit
  BY <1>4 DEF AbortInit, flagVars, renderVars, gpuVars
<1>5. CASE ResetRing
  BY <1>5 DEF ResetRing, renderVars, TypeInv, LuaType
<1>6. CASE BeginAcquire
  BY <1>6 DEF BeginAcquire, flagVars, renderVars, gpuVars
<1>7. CASE ScanSlot
  BY <1>7 DEF ScanSlot, flagVars, renderVars, gpuVars
<1>8. CASE Commit
  BY <1>8 DEF Commit, PackFrame, flagVars, renderVars, gpuVars
<1>9. QED
  BY <1>1, <1>2, <1>3, <1>4, <1>5, <1>6, <1>7, <1>8 DEF Lua

LEMMA GpuRender == ASSUME TypeInv, GpuInv, Render PROVE GpuInv'
<1> USE DEF GpuInv, Drained
<1>1. CASE TakeCommands
  BY <1>1 DEF TakeCommands, luaVars, gpuVars
<1>2. CASE LoadReady \/ LoadLocal
  BY <1>2 DEF LoadReady, LoadLocal, flagVars, luaVars, gpuVars
<1>3. CASE Advance \/ Retire
  BY <1>3 DEF Advance, Retire, flagVars, luaVars, gpuVars
<1>4. CASE RaiseBusy
  BY <1>4 DEF RaiseBusy, luaVars, gpuVars
<1>5. CASE Check
  BY <1>5 DEF Check, flagVars, luaVars, gpuVars
<1>6. CASE WaitForFence
  BY <1>6 DEF WaitForFence, AfterTimeout, flagVars, luaVars, gpuVars
<1>7. CASE AcquireImage
  BY <1>7 DEF AcquireImage, FenceBeforeImage, luaVars
<1>8. CASE Submit
  BY <1>8 DEF Submit, flagVars, luaVars, TypeInv, RenderType, GpuType
<1>9. CASE FrameDone
  BY <1>9 DEF FrameDone, luaVars, gpuVars
<1>10. QED
  BY <1>1, <1>2, <1>3, <1>4, <1>5, <1>6, <1>7, <1>8, <1>9 DEF Render

LEMMA GpuStep == TypeInv /\ GpuInv /\ [Next]_vars => GpuInv'
<1> USE DEF GpuInv, Drained
<1>1. ASSUME GpuInv, Resize PROVE GpuInv'
  BY <1>1 DEF Resize, luaVars, renderVars, gpuVars
<1>2. ASSUME TypeInv, GpuInv, NEW f \in Frames, Finish(f) PROVE GpuInv'
  BY <1>2 DEF Finish, flagVars, luaVars, renderVars, TypeInv, RenderType, GpuType
<1>3. ASSUME GpuInv, UNCHANGED vars PROVE GpuInv'
  BY <1>3 DEF vars, flagVars, luaVars, renderVars, gpuVars
<1> HIDE DEF GpuInv, Drained
<1>4. QED
  BY <1>1, <1>2, <1>3, GpuLua, GpuRender DEF Next

\* A command buffer is recorded again only after the GPU is done with it, whatever was
\* dropped, timed out or rebuilt before, and with any timing of vx_stream_init
\* (vk_render_loop.c:76-107 against ring_stream.c:62-90).
THEOREM CommandBuffersIdle == Spec => []CommandBufferIdle
<1>1. TypeInv /\ GpuInv => CommandBufferIdle
  BY DEF TypeInv, RenderType, GpuInv, CommandBufferIdle
<1>2. QED
  BY TypeInit, TypeStep, GpuInit, GpuStep, <1>1, PTL DEF Spec

-----------------------------------------------------------------------------
(* The ring as a stretch of an endless line.  Positions on the line are     *)
(* numbered as frames are taken; a slot, or a command buffer, stands for    *)
(* every position that is equal to it in the circle.                        *)

At(x) == x % RingSlots
Buffer(x) == x % FrameSlots

\* The slots of the positions from a to b.
Stretch(a, b) == {At(x) : x \in a .. b}

LEMMA Sizes == /\ RingSlots \in Nat \ {0, 1} /\ FrameSlots \in Nat \ {0}
               /\ FrameSlots < RingSlots
  BY SlotsAssumption

LEMMA AtType == ASSUME NEW x \in Int PROVE At(x) \in Slots
  BY SlotsAssumption, ModType DEF At, Slots

LEMMA AtInjective ==
    ASSUME NEW x \in Int, NEW y \in Int, x - y < RingSlots, y - x < RingSlots,
           At(x) = At(y)
    PROVE  x = y
  BY SlotsAssumption, ModInjective DEF At

LEMMA AtAfter ==
    ASSUME NEW x \in Int, NEW i \in Int
    PROVE  SlotAfter(At(x), i) = At(x + i)
  BY SlotsAssumption, ModAdd DEF At, SlotAfter

LEMMA AtPeriod == ASSUME NEW x \in Int PROVE At(x - RingSlots) = At(x)
  BY SlotsAssumption, ModPeriod DEF At

LEMMA BufferType == ASSUME NEW x \in Int PROVE Buffer(x) \in Frames
  BY Sizes, ModType DEF Buffer, Frames

LEMMA BufferInjective ==
    ASSUME NEW x \in Int, NEW y \in Int, x - y < FrameSlots, y - x < FrameSlots,
           Buffer(x) = Buffer(y)
    PROVE  x = y
  BY Sizes, ModInjective DEF Buffer

LEMMA BufferNext ==
    ASSUME NEW x \in Int
    PROVE  (Buffer(x) + 1) % FrameSlots = Buffer(x + 1)
<1>1. 1 \in Int
  OBVIOUS
<1>2. QED
  BY <1>1, Sizes, ModAdd, Zenon DEF Buffer

LEMMA BufferPeriod == ASSUME NEW x \in Int PROVE Buffer(x - FrameSlots) = Buffer(x)
  BY Sizes, ModPeriod DEF Buffer

\* The next position is not in a stretch that is shorter than the circle ...
LEMMA StretchNext ==
    ASSUME NEW a \in Int, NEW b \in Int, a <= b + 1, b + 1 - a < RingSlots
    PROVE  At(b + 1) \notin Stretch(a, b)
  BY AtInjective, SlotsAssumption DEF Stretch

\* ... and extends it.
LEMMA StretchExtend ==
    ASSUME NEW a \in Int, NEW b \in Int, a <= b + 1
    PROVE  Stretch(a, b + 1) = Stretch(a, b) \cup {At(b + 1)}
<1>1. a .. b + 1 = (a .. b) \cup {b + 1}
  OBVIOUS
<1>2. QED
  BY <1>1 DEF Stretch

\* Without its first position it is shorter.
LEMMA StretchShrink ==
    ASSUME NEW a \in Int, NEW b \in Int, a <= b, b - a < RingSlots
    PROVE  Stretch(a, b) \ {At(a)} = Stretch(a + 1, b)
<1>1. a .. b = {a} \cup (a + 1 .. b)
  OBVIOUS
<1>2. \A x \in a + 1 .. b : At(x) # At(a)
  BY AtInjective, SlotsAssumption
<1>3. QED
  BY <1>1, <1>2 DEF Stretch

\* A stretch that leaves at most one slot out has all but the next.
LEMMA StretchFull ==
    ASSUME NEW a \in Int, NEW b \in Int, NEW i \in 2 .. RingSlots,
           a <= b + 2 - RingSlots
    PROVE  At(b + i) \in Stretch(a, b)
<1>1. RingSlots \in Int
  BY SlotsAssumption
<1>2. b + i - RingSlots \in a .. b
  BY <1>1
<1>3. At(b + i - RingSlots) = At(b + i)
  <2>1. PICK y \in Int : y = b + i
    BY <1>1
  <2>2. At(y - RingSlots) = At(y)
    BY AtPeriod
  <2>3. QED
    BY <1>1, <2>1, <2>2
<1>4. QED
  BY <1>2, <1>3 DEF Stretch

\* One that leaves none out has the next one too.
LEMMA StretchWhole ==
    ASSUME NEW a \in Int, NEW b \in Int, a = b + 1 - RingSlots
    PROVE  At(b + 1) \in Stretch(a, b)
<1>1. RingSlots \in Nat \ {0, 1}
  BY SlotsAssumption
<1>2. a \in a .. b /\ b + 1 - RingSlots = a
  BY <1>1
<1>3. At(b + 1 - RingSlots) = At(b + 1)
  <2>1. PICK y \in Int : y = b + 1
    OBVIOUS
  <2>2. At(y - RingSlots) = At(y)
    BY AtPeriod
  <2>3. QED
    BY <1>1, <2>1, <2>2
<1>4. QED
  BY <1>2, <1>3 DEF Stretch

LEMMA StretchEmpty == ASSUME NEW a \in Int PROVE Stretch(a, a - 1) = {}
  BY DEF Stretch

-----------------------------------------------------------------------------
(* Where everything is on the line.                                         *)

\* A slot was taken, but not yet noted as that of a command buffer; it was.
Taken == render_pc \in {"raise_busy", "retire"}
Noted == render_pc \in {"check", "fence", "image", "submit", "frame_done"}

\* The slot each command buffer was used for: the last n up to P, the last one first.
BuffersAt(P, C, n) ==
    \A k \in 1 .. FrameSlots :
        active_slots[Buffer(C - k)] = IF k <= n THEN At(P + 1 - k) ELSE NoSlot

\* P is the position noted last, n positions up to P belong to command buffers, w
\* positions after P were committed, and C counts the frames.  The locked slots
\* are one stretch, and the slot being packed is at its end.
Around(P, C, n, w) ==
    /\ n + w <= RingSlots
    /\ n < FrameSlots => P = n - 1
    /\ BuffersAt(P, C, n)
    /\ local_read = IF Taken THEN At(P + 1) ELSE IF n = 0 THEN NoSlot ELSE At(P)
    /\ Taken \/ render_pc = "advance" => w >= 1
    /\ Noted => n >= 1
    /\ render_pc \in Reading \cup {"advance"} => local_read_val = local_read
    /\ current_frame = IF Noted THEN Buffer(C - 1) ELSE Buffer(C)
    /\ ready_idx = IF n + w = 0 THEN NoSlot ELSE At(P + w)
    /\ locked_mask = Stretch(P + 1 - n, IF lua_pc = "pack" THEN P + w + 1 ELSE P + w)
    /\ lua_pc = "pack" => n + w < RingSlots /\ write_idx = At(P + w + 1)
    /\ lua_pc = "scan" /\ scan > 1 => n + w >= RingSlots - 1
    /\ render_pc = "load_local" =>
          ready = NoSlot \/ \E j \in 0 .. w : ready = At(P + j) /\ (n = 0 => j >= 1)

RingInv == \E P \in Int, C \in Int, n \in 0 .. FrameSlots, w \in 0 .. RingSlots :
              Around(P, C, n, w)

\* One slot more than there are frames in rotation.
OneSpare == RingSlots = FrameSlots + 1

LEMMA RingInit == Init => RingInv
<1> SUFFICES ASSUME Init PROVE RingInv
  OBVIOUS
<1>1. \A k \in 1 .. FrameSlots : Buffer(0 - k) \in Frames
  BY SlotsAssumption, BufferType
<1>2. Buffer(0) = 0
  BY SlotsAssumption DEF Buffer
<1>3. Stretch(0, -1) = {}
  BY StretchEmpty
<1>4. FrameSlots \in Nat \ {0} /\ RingSlots \in Nat \ {0}
  BY SlotsAssumption
<1>5. Around(-1, 0, 0, 0)
  BY <1>1, <1>2, <1>3, <1>4 DEF Init, Around, BuffersAt, Taken, Noted, Reading
<1>6. QED
  BY <1>4, <1>5 DEF RingInv

-----------------------------------------------------------------------------
(* What a step does to the line.                                            *)

\* The game thread is served: the slot it locks is the next one.
LEMMA AroundScan ==
    ASSUME OneSpare, TypeInv, ScanSlot,
           NEW P \in Int, NEW C \in Int, NEW n \in 0 .. FrameSlots,
           NEW w \in 0 .. RingSlots, Around(P, C, n, w)
    PROVE  Around(P, C, n, w)'
<1> DEFINE s == SlotAfter(ready_idx, scan)
           a == P + 1 - n
           b == P + w
<1>1. RingSlots \in Nat /\ FrameSlots \in Nat /\ n \in Int /\ w \in Int
  BY Sizes
<1>2. scan \in 1 .. RingSlots /\ lua_pc = "scan"
  BY DEF ScanSlot, TypeInv, LuaType
<1>3. s = At(b + scan)
  <2>1. CASE n + w = 0
    <3>1. n = 0 /\ w = 0 /\ P = -1 /\ ready_idx = -1
      BY <1>1, <2>1, Sizes DEF Around, BuffersAt, NoSlot
    <3>2. QED
      BY <3>1 DEF SlotAfter, At
  <2>2. CASE n + w # 0
    <3>1. ready_idx = At(b)
      BY <2>2 DEF Around, BuffersAt
    <3>2. b \in Int /\ scan \in Int
      BY <1>1, <1>2
    <3>3. QED
      BY <3>1, <3>2, AtAfter
  <2>3. QED
    BY <2>1, <2>2
<1>4. locked_mask = Stretch(a, b) /\ n + w <= RingSlots /\ a \in Int /\ b \in Int
      /\ (scan > 1 => n + w >= RingSlots - 1)
  BY <1>1, <1>2 DEF Around, BuffersAt
<1>5. UNCHANGED <<ready_idx, local_read, active_slots, ready, local_read_val, render_pc,
                  current_frame>>
  BY DEF ScanSlot, renderVars
<1>6. CASE s \notin locked_mask
  <2>1. scan = 1
    <3>1. ASSUME scan # 1 PROVE FALSE
      <4>1. scan \in 2 .. RingSlots /\ a <= b + 2 - RingSlots
        BY <1>1, <1>2, <1>4, <3>1
      <4>2. QED
        BY <1>3, <1>4, <1>6, <4>1, StretchFull
    <3>2. QED
      BY <3>1
  <2>2. n + w # RingSlots
    <3>1. ASSUME n + w = RingSlots PROVE FALSE
      <4>1. a = b + 1 - RingSlots
        BY <1>1, <3>1
      <4>2. QED
        BY <1>3, <1>4, <1>6, <2>1, <4>1, StretchWhole
    <3>2. QED
      BY <3>1
  <2>3. n + w < RingSlots
    BY <1>1, <1>4, <2>2
  <2>4. locked_mask' = Stretch(a, b + 1)
    <3>1. a <= b + 1
      BY <1>1
    <3>2. locked_mask' = locked_mask \cup {At(b + 1)}
      BY <1>3, <1>6, <2>1 DEF ScanSlot
    <3>3. QED
      BY <1>4, <3>1, <3>2, StretchExtend
  <2>5. write_idx' = At(b + 1) /\ lua_pc' = "pack"
    BY <1>3, <1>6, <2>1 DEF ScanSlot
  <2>6. QED
    BY <1>1, <1>4, <1>5, <2>3, <2>4, <2>5 DEF Around, BuffersAt, Taken, Noted
<1>7. CASE s \in locked_mask
  <2>1. n + w >= RingSlots - 1
    <3>1. CASE scan = 1
      <4>1. ASSUME n + w < RingSlots PROVE FALSE
        <5>1. a <= b + 1 /\ b + 1 - a < RingSlots
          BY <1>1, <4>1
        <5>2. QED
          BY <1>3, <1>4, <1>7, <3>1, <5>1, StretchNext
      <4>2. QED
        BY <1>1, <4>1
    <3>2. QED
      BY <1>2, <1>4, <3>1
  <2>2. UNCHANGED locked_mask /\ lua_pc' \in {"scan", "frame"}
    BY <1>2, <1>7 DEF ScanSlot
  <2>3. QED
    BY <1>1, <1>2, <1>4, <1>5, <2>1, <2>2 DEF Around, BuffersAt, Taken, Noted
<1>8. QED
  BY <1>6, <1>7

\* Committing the packed slot lengthens what waits.
LEMMA AroundCommit ==
    ASSUME TypeInv, Commit,
           NEW P \in Int, NEW C \in Int, NEW n \in 0 .. FrameSlots,
           NEW w \in 0 .. RingSlots, Around(P, C, n, w)
    PROVE  w + 1 \in 0 .. RingSlots /\ Around(P, C, n, w + 1)'
<1>1. RingSlots \in Nat /\ FrameSlots \in Nat /\ n \in Int /\ w \in Int
  BY Sizes
<1>2. n + w < RingSlots /\ write_idx = At(P + w + 1)
      /\ locked_mask = Stretch(P + 1 - n, P + w + 1)
  BY DEF Around, BuffersAt, Commit, PackFrame
<1>3. /\ ready_idx' = At(P + (w + 1)) /\ n + (w + 1) <= RingSlots /\ n + (w + 1) # 0
      /\ locked_mask' = Stretch(P + 1 - n, P + (w + 1))
      /\ w + 1 \in 0 .. RingSlots /\ P + (w + 1) = P + w + 1
  BY <1>1, <1>2 DEF Commit, PackFrame
<1>4. lua_pc' = "frame"
  BY DEF Commit, PackFrame
<1>5. UNCHANGED <<local_read, active_slots, ready, local_read_val, render_pc,
                  current_frame>>
  BY DEF Commit, PackFrame, renderVars
<1>6. render_pc = "load_local" =>
        ready = NoSlot \/ \E j \in 0 .. w + 1 : ready = At(P + j) /\ (n = 0 => j >= 1)
  <2>1. 0 .. w \subseteq 0 .. w + 1
    BY <1>1
  <2>2. QED
    BY <2>1 DEF Around, BuffersAt
<1>7. QED
  BY <1>1, <1>3, <1>4, <1>5, <1>6 DEF Around, BuffersAt, Taken, Noted

\* A slot is taken only if one waits, whenever ready_idx was read.
LEMMA AroundLoad ==
    ASSUME TypeInv, LoadLocal,
           NEW P \in Int, NEW C \in Int, NEW n \in 0 .. FrameSlots,
           NEW w \in 0 .. RingSlots, Around(P, C, n, w)
    PROVE  Around(P, C, n, w)'
<1>1. RingSlots \in Nat /\ FrameSlots \in Nat /\ n \in Int /\ w \in Int
  BY Sizes
<1>2. UNCHANGED <<ready_idx, local_read, active_slots, locked_mask, lua_pc, scan,
                  write_idx, ready, current_frame>>
  BY DEF LoadLocal, ringVars, luaVars
<1>3. render_pc = "load_local" /\ local_read_val' = local_read
      /\ render_pc' = IF ready = NoSlot \/ ready = local_read
                      THEN "commands" ELSE "advance"
  BY DEF LoadLocal, NothingNew
<1>4. ready # NoSlot /\ ready # local_read => w >= 1
  <2>1. SUFFICES ASSUME ready # NoSlot, ready # local_read PROVE w >= 1
    OBVIOUS
  <2>2. PICK j \in 0 .. w : ready = At(P + j) /\ (n = 0 => j >= 1)
    BY <1>3, <2>1 DEF Around, BuffersAt
  <2>3. n # 0 => local_read = At(P)
    BY <1>3 DEF Around, BuffersAt, Taken
  <2>4. j # 0
    BY <2>1, <2>2, <2>3
  <2>5. QED
    BY <1>1, <2>4
<1>5. ~Taken /\ ~Noted /\ ~Taken' /\ ~Noted'
  BY <1>3 DEF Taken, Noted
<1>6. QED
  BY <1>2, <1>3, <1>4, <1>5 DEF Around, BuffersAt, Reading

\* The slot taken is the next one that waits.
LEMMA AroundAdvance ==
    ASSUME TypeInv, Advance,
           NEW P \in Int, NEW C \in Int, NEW n \in 0 .. FrameSlots,
           NEW w \in 0 .. RingSlots, Around(P, C, n, w)
    PROVE  Around(P, C, n, w)' /\ local_read' = At(P + 1) /\ w >= 1
<1>1. RingSlots \in Nat /\ FrameSlots \in Nat \ {0} /\ n \in Int /\ w \in Int
  BY Sizes
<1>2. UNCHANGED <<ready_idx, active_slots, locked_mask, lua_pc, scan, write_idx,
                  ready, current_frame>>
  BY DEF Advance, luaVars
<1>3. render_pc = "advance" /\ render_pc' = "raise_busy" /\ local_read_val' = local_read'
      /\ local_read' = SlotAfter(local_read_val, 1)
  BY DEF Advance, TakenSlot
<1>4. w >= 1 /\ local_read_val = IF n = 0 THEN NoSlot ELSE At(P)
  BY <1>3 DEF Around, BuffersAt, Taken
<1>5. local_read' = At(P + 1)
  <2>1. CASE n = 0
    <3>1. P = -1 /\ local_read_val = -1
      BY <1>1, <1>4, <2>1 DEF Around, BuffersAt, NoSlot
    <3>2. QED
      BY <1>3, <3>1 DEF SlotAfter, At
  <2>2. CASE n # 0
    BY <1>3, <1>4, <2>2, AtAfter
  <2>3. QED
    BY <2>1, <2>2
<1>6. Taken' /\ ~Taken /\ ~Noted /\ ~Noted'
  BY <1>3 DEF Taken, Noted
<1>7. QED
  BY <1>2, <1>3, <1>4, <1>5, <1>6 DEF Around, BuffersAt, Reading

\* The command buffers after one more slot was noted.
LEMMA NotedBuffers ==
    ASSUME NEW P \in Int, NEW C \in Int, NEW n \in 0 .. FrameSlots, NEW m \in Int,
           m = (IF n < FrameSlots THEN n + 1 ELSE n),
           active_slots \in [Frames -> Places],
           BuffersAt(P, C, n),
           active_slots' = [active_slots EXCEPT ![Buffer(C)] = At(P + 1)]
    PROVE  BuffersAt(P + 1, C + 1, m)'
<1> SUFFICES ASSUME NEW k \in 1 .. FrameSlots
             PROVE  active_slots'[Buffer((C + 1) - k)] =
                        IF k <= m THEN At((P + 1) + 1 - k) ELSE NoSlot
  BY DEF BuffersAt
<1>1. FrameSlots \in Nat \ {0} /\ k \in Int /\ n \in Int
  BY Sizes
<1>2. CASE k = 1
  <2>1. Buffer(C) \in Frames
    BY BufferType
  <2>2. (C + 1) - k = C /\ (P + 1) + 1 - k = P + 1 /\ k <= m
    BY <1>1, <1>2
  <2>3. QED
    BY <2>1, <2>2
<1>3. CASE k # 1
  <2>1. PICK j \in Int : j = k - 1
    BY <1>1
  <2>2. j \in 1 .. FrameSlots /\ j < FrameSlots /\ (C + 1) - k = C - j
        /\ (P + 1) + 1 - k = P + 1 - j /\ (k <= m <=> j <= n)
    BY <1>1, <1>3, <2>1
  <2>3. PICK x \in Int : x = C - j
    BY <2>1
  <2>4. Buffer(x) # Buffer(C)
    <3>1. x # C /\ x - C < FrameSlots /\ C - x < FrameSlots
      BY <1>1, <2>2, <2>3
    <3>2. QED
      BY <3>1, BufferInjective
  <2>5. Buffer(x) \in Frames
    BY BufferType
  <2>6. active_slots'[Buffer(x)] = active_slots[Buffer(x)]
    BY <2>4, <2>5
  <2>7. active_slots[Buffer(C - j)] = IF j <= n THEN At(P + 1 - j) ELSE NoSlot
    BY <2>2 DEF BuffersAt
  <2>8. QED
    BY <2>2, <2>3, <2>6, <2>7
<1>4. QED
  BY <1>2, <1>3

\* The slot taken is noted, and the one noted longest ago is unlocked, at the other
\* end of the stretch.
LEMMA AroundRetire ==
    ASSUME OneSpare, TypeInv, Retire,
           NEW P \in Int, NEW C \in Int, NEW n \in 0 .. FrameSlots,
           NEW w \in 0 .. RingSlots, Around(P, C, n, w)
    PROVE  \E m \in 0 .. FrameSlots : Around(P + 1, C + 1, m, w - 1)' /\ w >= 1
<1>0. PICK m \in 0 .. FrameSlots : m = (IF n < FrameSlots THEN n + 1 ELSE n)
  BY Sizes
<1> DEFINE top == IF lua_pc = "pack" THEN P + w + 1 ELSE P + w
<1>1. /\ RingSlots \in Nat /\ FrameSlots \in Nat \ {0} /\ n \in Int /\ w \in Int
      /\ RingSlots = FrameSlots + 1 /\ m \in Int /\ top \in Int
  BY Sizes DEF OneSpare
<1>2. UNCHANGED <<ready_idx, local_read, lua_pc, scan, write_idx, ready,
                  local_read_val, current_frame>>
  BY DEF Retire, luaVars
<1>3. /\ render_pc = "retire" /\ render_pc' = "check"
      /\ locked_mask' = locked_mask \ ({active_slots[current_frame]}
                                         \ {NoSlot, local_read_val})
      /\ active_slots' = [active_slots EXCEPT ![current_frame] = local_read_val]
  BY DEF Retire, Retired
<1>4. Taken /\ ~Noted /\ ~Taken' /\ Noted'
  BY <1>3 DEF Taken, Noted
<1>5. /\ w >= 1 /\ local_read = At(P + 1) /\ local_read_val = At(P + 1)
      /\ current_frame = Buffer(C) /\ n + w <= RingSlots
      /\ n < FrameSlots => P = n - 1
      /\ ready_idx = At(P + w)
      /\ locked_mask = Stretch(P + 1 - n, top)
      /\ lua_pc = "pack" => n + w < RingSlots /\ write_idx = At(P + w + 1)
      /\ lua_pc = "scan" /\ scan > 1 => n + w >= RingSlots - 1
  BY <1>1, <1>3, <1>4 DEF Around, BuffersAt, Reading
<1>6. active_slots[Buffer(C)] = IF n = FrameSlots THEN At(P + 1 - FrameSlots) ELSE NoSlot
  <2>1. Buffer(C - FrameSlots) = Buffer(C)
    BY BufferPeriod
  <2>2. FrameSlots \in 1 .. FrameSlots /\ (FrameSlots <= n <=> n = FrameSlots)
    BY <1>1
  <2>3. active_slots[Buffer(C - FrameSlots)] =
            IF FrameSlots <= n THEN At(P + 1 - FrameSlots) ELSE NoSlot
    BY <2>2 DEF Around, BuffersAt
  <2>4. QED
    BY <2>1, <2>2, <2>3
<1>7. BuffersAt(P + 1, C + 1, m)'
  <2>1. active_slots \in [Frames -> Places]
    BY DEF TypeInv, RingType
  <2>2. BuffersAt(P, C, n)
    BY DEF Around
  <2>3. active_slots' = [active_slots EXCEPT ![Buffer(C)] = At(P + 1)]
    BY <1>3, <1>5
  <2>4. QED
    BY <1>0, <1>1, <2>1, <2>2, <2>3, NotedBuffers
<1>8. locked_mask' = Stretch((P + 1) + 1 - m, top)
  <2>1. CASE n < FrameSlots
    <3>1. (P + 1) + 1 - m = P + 1 - n
      BY <1>0, <1>1, <2>1
    <3>2. QED
      BY <1>1, <1>3, <1>5, <1>6, <2>1, <3>1
  <2>2. CASE n = FrameSlots
    <3> DEFINE a == P + 1 - n
    <3>1. a \in Int /\ a <= top /\ top - a < RingSlots /\ (P + 1) + 1 - m = a + 1
      BY <1>0, <1>1, <1>5, <2>2
    <3>2. At(a) # At(P + 1)
      <4>1. P + 1 # a /\ P + 1 - a < RingSlots /\ a - (P + 1) < RingSlots
            /\ P + 1 \in Int
        BY <1>1, <2>2
      <4>2. QED
        BY <3>1, <4>1, AtInjective
    <3>3. At(a) # NoSlot
      BY <3>1, AtType DEF Slots, NoSlot
    <3>4. locked_mask' = Stretch(a, top) \ {At(a)}
      BY <1>3, <1>5, <1>6, <2>2, <3>2, <3>3
    <3>5. QED
      BY <1>1, <3>1, <3>4, StretchShrink
  <2>3. QED
    BY <1>1, <2>1, <2>2
<1>9. /\ m + (w - 1) <= RingSlots
      /\ m < FrameSlots => P + 1 = m - 1
      /\ m >= 1 /\ m + (w - 1) # 0
      /\ (P + 1) + (w - 1) = P + w /\ (P + 1) + (w - 1) + 1 = P + w + 1
      /\ (C + 1) - 1 = C
      /\ lua_pc = "pack" => m + (w - 1) < RingSlots
      /\ lua_pc = "scan" /\ scan > 1 => m + (w - 1) >= RingSlots - 1
  BY <1>0, <1>1, <1>5
<1>10. Around(P + 1, C + 1, m, w - 1)'
  BY <1>2, <1>3, <1>4, <1>5, <1>7, <1>8, <1>9 DEF Around, Reading
<1>11. QED
  BY <1>1, <1>5, <1>10

\* The render thread goes on to the next command buffer.
LEMMA AroundDone ==
    ASSUME TypeInv, FrameDone,
           NEW P \in Int, NEW C \in Int, NEW n \in 0 .. FrameSlots,
           NEW w \in 0 .. RingSlots, Around(P, C, n, w)
    PROVE  Around(P, C, n, w)'
<1>1. UNCHANGED <<ready_idx, local_read, active_slots, locked_mask, lua_pc, scan,
                  write_idx, ready, local_read_val>>
  BY DEF FrameDone, ringVars, luaVars
<1>2. render_pc = "frame_done" /\ render_pc' = "commands"
      /\ current_frame' = (current_frame + 1) % FrameSlots
  BY DEF FrameDone
<1>3. ~Taken /\ Noted /\ ~Taken' /\ ~Noted'
  BY <1>2 DEF Taken, Noted
<1>4. current_frame = Buffer(C - 1) /\ n >= 1
  BY <1>3 DEF Around, BuffersAt
<1>5. current_frame' = Buffer(C)
  <2>1. PICK x \in Int : x = C - 1
    OBVIOUS
  <2>2. (Buffer(x) + 1) % FrameSlots = Buffer(x + 1)
    BY BufferNext
  <2>3. x + 1 = C
    BY <2>1
  <2>4. QED
    BY <1>2, <1>4, <2>1, <2>2, <2>3
<1>6. QED
  BY <1>1, <1>2, <1>3, <1>5 DEF Around, BuffersAt, Reading

\* Reading what was committed last.
LEMMA AroundReady ==
    ASSUME TypeInv, LoadReady,
           NEW P \in Int, NEW C \in Int, NEW n \in 0 .. FrameSlots,
           NEW w \in 0 .. RingSlots, Around(P, C, n, w)
    PROVE  Around(P, C, n, w)'
<1>1. UNCHANGED <<ready_idx, local_read, active_slots, locked_mask, lua_pc, scan,
                  write_idx, local_read_val, current_frame>>
  BY DEF LoadReady, ringVars, luaVars
<1>2. render_pc = "poll" /\ render_pc' = "load_local" /\ ready' = ready_idx
  BY DEF LoadReady
<1>3. ~Taken /\ ~Noted /\ ~Taken' /\ ~Noted'
  BY <1>2 DEF Taken, Noted
<1>4. ready' = NoSlot \/ \E j \in 0 .. w : ready' = At(P + j) /\ (n = 0 => j >= 1)
  <2>1. n \in Nat /\ w \in Nat
    BY Sizes
  <2>2. CASE n + w = 0
    BY <1>2, <2>2 DEF Around, BuffersAt
  <2>3. CASE n + w # 0
    <3>1. ready' = At(P + w) /\ w \in 0 .. w /\ (n = 0 => w >= 1)
      BY <1>2, <2>1, <2>3 DEF Around, BuffersAt
    <3>2. QED
      BY <3>1
  <2>4. QED
    BY <2>2, <2>3
<1>5. QED
  BY <1>1, <1>2, <1>3, <1>4 DEF Around, BuffersAt, Reading

\* An empty ring begins anew; the frames are counted on.
LEMMA AroundReset ==
    ASSUME TypeInv, ResetRing, Quiet, NEW C \in Int, NEW P \in Int,
           NEW n \in 0 .. FrameSlots, NEW w \in 0 .. RingSlots, Around(P, C, n, w)
    PROVE  Around(-1, C, 0, 0)'
<1>1. RingSlots \in Nat \ {0} /\ FrameSlots \in Nat \ {0}
  BY Sizes
<1>2. render_pc = "commands" /\ render_pc' = "commands"
  BY DEF ResetRing, Quiet, renderVars
<1>3. ~Taken /\ ~Noted /\ ~Taken' /\ ~Noted'
  BY <1>2 DEF Taken, Noted
<1>4. current_frame' = Buffer(C)
  BY <1>3 DEF Around, BuffersAt, ResetRing, renderVars
<1>5. BuffersAt(-1, C, 0)'
  <2>1. \A k \in 1 .. FrameSlots : C - k \in Int
    BY <1>1
  <2>2. QED
    BY <1>1, <2>1, BufferType DEF ResetRing, BuffersAt
<1>6. locked_mask' = {} /\ ready_idx' = NoSlot /\ local_read' = NoSlot
      /\ lua_pc' = "frame"
  BY DEF ResetRing
<1>7. Stretch(0, -1) = {}
  BY StretchEmpty
<1>8. QED
  BY <1>1, <1>2, <1>3, <1>4, <1>5, <1>6, <1>7 DEF Around, Reading

\* A step that neither moves on the line nor begins or ends anything on it ...
Still ==
    /\ UNCHANGED <<ready_idx, local_read, active_slots, locked_mask, write_idx, ready,
                   local_read_val, current_frame>>
    /\ lua_pc' = "scan" => scan' = 1 \/ (lua_pc = "scan" /\ scan' = scan)
    /\ lua_pc' = "pack" <=> lua_pc = "pack"
    /\ \/ render_pc' = render_pc
       \/ render_pc \in {"commands", "poll"} /\ render_pc' \in {"commands", "poll"}
       \/ Taken /\ Taken'
       \/ Noted /\ Noted' /\ render_pc # "frame_done"

\* ... leaves it alone.
LEMMA AroundStill ==
    ASSUME Still, NEW P \in Int, NEW C \in Int, NEW n \in 0 .. FrameSlots,
           NEW w \in 0 .. RingSlots, Around(P, C, n, w)
    PROVE  Around(P, C, n, w)'
<1>1. (Taken' <=> Taken) /\ (Noted' <=> Noted)
  BY DEF Still, Taken, Noted
<1>2. /\ render_pc' = "load_local" => render_pc = "load_local"
      /\ render_pc' = "advance" => render_pc = "advance"
      /\ render_pc' \in Reading => render_pc \in Reading
  BY DEF Still, Taken, Noted, Reading
<1>3. BuffersAt(P, C, n)' <=> BuffersAt(P, C, n)
  BY DEF Still, BuffersAt
<1>4. QED
  BY <1>1, <1>2, <1>3 DEF Still, Around

LEMMA RingStill == RingInv /\ Still => RingInv'
  BY AroundStill DEF RingInv

LEMMA RingLua ==
    ASSUME OneSpare, TypeInv, RingInv, Lua, ResetRing => Quiet
    PROVE  RingInv'
<1>1. PICK P \in Int, C \in Int, n \in 0 .. FrameSlots, w \in 0 .. RingSlots :
         Around(P, C, n, w)
  BY DEF RingInv
<1>2. CASE ScanSlot
  BY <1>1, <1>2, AroundScan DEF RingInv
<1>3. CASE Commit
  BY <1>1, <1>3, AroundCommit DEF RingInv
<1>4. CASE ResetRing
  <2>1. Around(-1, C, 0, 0)'
    BY <1>1, <1>4, AroundReset
  <2>2. -1 \in Int /\ 0 \in 0 .. FrameSlots /\ 0 \in 0 .. RingSlots
    BY Sizes
  <2>3. QED
    BY <2>1, <2>2 DEF RingInv
<1>5. CASE RequestRebuild \/ BeginInit \/ WaitForRenderer \/ AbortInit \/ BeginAcquire
  <2> USE DEF ringVars, renderVars, Still
  <2>1. ASSUME RequestRebuild PROVE Still
    BY <2>1 DEF RequestRebuild
  <2>2. ASSUME BeginInit PROVE Still
    BY <2>2 DEF BeginInit
  <2>3. ASSUME WaitForRenderer PROVE Still
    BY <2>3 DEF WaitForRenderer
  <2>4. ASSUME AbortInit PROVE Still
    BY <2>4 DEF AbortInit
  <2>5. ASSUME BeginAcquire PROVE Still
    BY <2>5 DEF BeginAcquire
  <2> HIDE DEF ringVars, renderVars, Still
  <2>6. QED
    BY <1>5, <2>1, <2>2, <2>3, <2>4, <2>5, RingStill
<1>6. QED
  BY <1>2, <1>3, <1>4, <1>5 DEF Lua

LEMMA RingRender ==
    ASSUME OneSpare, TypeInv, RingInv, Render
    PROVE  RingInv'
<1>1. PICK P \in Int, C \in Int, n \in 0 .. FrameSlots, w \in 0 .. RingSlots :
         Around(P, C, n, w)
  BY DEF RingInv
<1>2. CASE LoadReady
  BY <1>1, <1>2, AroundReady DEF RingInv
<1>3. CASE LoadLocal
  BY <1>1, <1>3, AroundLoad DEF RingInv
<1>4. CASE Advance
  BY <1>1, <1>4, AroundAdvance DEF RingInv
<1>5. CASE Retire
  <2>1. PICK m \in 0 .. FrameSlots : Around(P + 1, C + 1, m, w - 1)' /\ w >= 1
    BY <1>1, <1>5, AroundRetire
  <2>2. P + 1 \in Int /\ C + 1 \in Int /\ w - 1 \in 0 .. RingSlots
    BY <2>1, Sizes
  <2>3. QED
    BY <2>1, <2>2 DEF RingInv
<1>6. CASE FrameDone
  BY <1>1, <1>6, AroundDone DEF RingInv
<1>7. CASE TakeCommands
  <2>1. Still
    BY <1>7 DEF TakeCommands, ringVars, luaVars, Still
  <2>2. QED
    BY <2>1, RingStill
<1>8. CASE RaiseBusy
  <2>1. Still
    BY <1>8 DEF RaiseBusy, ringVars, luaVars, Taken, Still
  <2>2. QED
    BY <2>1, RingStill
<1>9. CASE Check \/ WaitForFence \/ AcquireImage \/ Submit
  <2>1. Noted /\ Noted' /\ render_pc # "frame_done"
    BY <1>9 DEF Check, WaitForFence, AfterTimeout, AcquireImage, Submit, Noted
  <2>2. Still
    BY <1>9, <2>1
       DEF Check, WaitForFence, AcquireImage, Submit, ringVars, luaVars, Still
  <2>3. QED
    BY <2>2, RingStill
<1>10. QED
  BY <1>2, <1>3, <1>4, <1>5, <1>6, <1>7, <1>8, <1>9 DEF Render

LEMMA RingStep ==
    ASSUME OneSpare
    PROVE  TypeInv /\ RingInv /\ [QuietNext]_vars => RingInv'
<1>1. ASSUME RingInv, Resize \/ (\E f \in Frames : Finish(f)) \/ UNCHANGED vars
      PROVE  RingInv'
  <2>1. Still
    BY <1>1 DEF Resize, Finish, vars, ringVars, luaVars, renderVars, Still
  <2>2. QED
    BY <1>1, <2>1, RingStill
<1>2. QED
  BY <1>1, RingLua, RingRender DEF QuietNext, Next

\* Whatever the threads do, the slot being packed is on the line behind the slot being
\* read, and less than a circle away.
LEMMA RingSafe == OneSpare /\ TypeInv /\ RingInv => ReadUndisturbed
<1> SUFFICES ASSUME OneSpare, TypeInv, RingInv, render_pc \in Reading, lua_pc = "pack"
             PROVE  write_idx # local_read_val
  BY DEF ReadUndisturbed, Reading
<1>1. PICK P \in Int, C \in Int, n \in 0 .. FrameSlots, w \in 0 .. RingSlots :
         Around(P, C, n, w)
  BY DEF RingInv
<1>2. RingSlots \in Nat /\ n \in Nat /\ w \in Nat
  BY Sizes
<1>3. n + w < RingSlots /\ write_idx = At(P + w + 1) /\ local_read_val = local_read
  BY <1>1 DEF Around
<1>4. PICK x \in Int : x = P + w + 1
  BY <1>2
<1>5. CASE Taken
  <2>1. local_read = At(P + 1) /\ w >= 1
    BY <1>1, <1>5 DEF Around
  <2>2. PICK y \in Int : y = P + 1
    OBVIOUS
  <2>3. x # y /\ x - y < RingSlots /\ y - x < RingSlots
    BY <1>2, <1>3, <1>4, <2>1, <2>2
  <2>4. QED
    BY <1>3, <1>4, <2>1, <2>2, <2>3, AtInjective
<1>6. CASE ~Taken
  <2>1. Noted
    BY <1>6 DEF Taken, Noted, Reading
  <2>2. local_read = At(P) /\ n >= 1
    BY <1>1, <1>2, <1>6, <2>1 DEF Around
  <2>3. x # P /\ x - P < RingSlots /\ P - x < RingSlots
    BY <1>2, <1>3, <1>4, <2>2
  <2>4. QED
    BY <1>3, <1>4, <2>2, <2>3, AtInjective
<1>7. QED
  BY <1>5, <1>6

\* No packet is packed while the render thread reads it, from the moment it takes the
\* slot to the submission, although a slot is unlocked before the fence of its frame
\* was waited for (vk_render_loop.c:61-70 against ring_stream.c:31-48): of the slots,
\* four in the code, one more is there than command buffers take turns, three.
THEOREM ReadsUndisturbed ==
    ASSUME OneSpare
    PROVE  QuietSpec => []ReadUndisturbed
<1>1. Init => TypeInv /\ RingInv
  BY TypeInit, RingInit
<1>2. TypeInv /\ RingInv /\ [QuietNext]_vars => (TypeInv /\ RingInv)'
  BY TypeStep, RingStep DEF QuietNext
<1>3. TypeInv /\ RingInv => ReadUndisturbed
  BY RingSafe
<1>4. QED
  BY <1>1, <1>2, <1>3, PTL DEF QuietSpec

-----------------------------------------------------------------------------
(* The ring is a queue.                                                     *)

Ids == 0 .. FrameIds - 1

\* The position of the slot taken last, and how many wait after it.
Position(P) == IF Taken THEN P + 1 ELSE P
Behind(w) == IF Taken THEN w - 1 ELSE w

Packets(L, u) == [i \in 1 .. u |-> packets[At(L + i)]]

\* What FrameQueue's variables stand for.
RingQueue == [i \in 1 .. Waiting |-> packets[SlotAfter(local_read, i)]]
RingShown == IF local_read = NoSlot THEN NoSlot ELSE packets[local_read]

LEMMA PacketsType ==
    ASSUME packets \in [Slots -> Ids], NEW L \in Int, NEW u \in Nat
    PROVE  /\ Packets(L, u) \in Seq(Ids) /\ Len(Packets(L, u)) = u
           /\ \A i \in 1 .. u : Packets(L, u)[i] = packets[At(L + i)]
<1>1. \A i \in 1 .. u : packets[At(L + i)] \in Ids
  <2>1. \A i \in 1 .. u : L + i \in Int
    OBVIOUS
  <2>2. QED
    BY <2>1, AtType
<1>2. Packets(L, u) \in [1 .. u -> Ids]
  BY <1>1 DEF Packets
<1>3. Packets(L, u) \in Seq(Ids)
  BY <1>2, SeqDef
<1>4. DOMAIN Packets(L, u) = 1 .. u
  BY DEF Packets
<1>5. Len(Packets(L, u)) = u
  BY <1>3, <1>4, LenProperties
<1>6. QED
  BY <1>3, <1>5 DEF Packets

\* The distance in the circle is the distance on the line, if that is less.
LEMMA Distance ==
    ASSUME NEW x \in Int, NEW u \in 0 .. RingSlots - 1
    PROVE  (At(x + u) - At(x)) % RingSlots = u
<1>1. RingSlots \in Nat \ {0}
  BY Sizes
<1>2. PICK a \in Int : a = At(x)
  BY <1>1, AtType DEF Slots
<1>3. At(x + u) = (a + u) % RingSlots
  BY <1>1, <1>2, AtAfter DEF SlotAfter
<1>4. PICK y \in Int : y = a + u
  BY <1>1, <1>2
<1>5. PICK z \in Int : z = -a
  BY <1>2
<1>6. ((y % RingSlots) + z) % RingSlots = (y + z) % RingSlots
  BY <1>1, ModAdd
<1>7. y + z = u
  BY <1>1, <1>4, <1>5
<1>8. (y % RingSlots) + z = At(x + u) - At(x)
  BY <1>1, <1>2, <1>3, <1>4, <1>5, ModType
<1>9. u % RingSlots = u
  BY <1>1
<1>10. QED
  BY <1>6, <1>7, <1>8, <1>9

Meaning ==
    \A P \in Int, C \in Int, n \in 0 .. FrameSlots, w \in 0 .. RingSlots :
        Around(P, C, n, w) =>
            /\ Position(P) \in Int /\ Behind(w) \in Nat
            /\ RingQueue = Packets(Position(P), Behind(w))

LEMMA RingMeans == Meaning
<1> SUFFICES ASSUME NEW P \in Int, NEW C \in Int, NEW n \in 0 .. FrameSlots,
                    NEW w \in 0 .. RingSlots, Around(P, C, n, w)
             PROVE  /\ Position(P) \in Int /\ Behind(w) \in Nat
                    /\ RingQueue = Packets(Position(P), Behind(w))
  BY DEF Meaning
<1>1. RingSlots \in Nat \ {0} /\ FrameSlots \in Nat \ {0} /\ n \in Nat /\ w \in Nat
      /\ n + w <= RingSlots
  BY Sizes DEF Around
<1>2. PICK L \in Int : L = Position(P)
  BY DEF Position
<1>3. PICK u \in Nat : u = Behind(w)
  BY <1>1 DEF Behind, Around
<1>4. L + u = P + w
  BY <1>1, <1>2, <1>3 DEF Position, Behind
<1>5. CASE ready_idx = NoSlot
  <2>1. n + w = 0
    <3>1. ASSUME n + w # 0 PROVE FALSE
      <4>1. ready_idx = At(P + w) /\ P + w \in Int
        BY <1>1, <3>1 DEF Around
      <4>2. QED
        BY <1>5, <4>1, AtType DEF Slots, NoSlot
    <3>2. QED
      BY <3>1
  <2>2. ~Taken /\ u = 0
    BY <1>1, <1>3, <2>1 DEF Around, Behind
  <2>3. Waiting = 0
    BY <1>5 DEF Waiting
  <2>4. QED
    BY <1>2, <1>3, <2>2, <2>3 DEF RingQueue, Packets
<1>6. CASE ready_idx # NoSlot /\ local_read = NoSlot
  <2>1. P + 1 \in Int /\ NoSlot \notin Slots
    BY DEF NoSlot, Slots
  <2>2. ~Taken /\ n = 0
    BY <1>6, <2>1, AtType DEF Around
  <2>3. P = -1 /\ L = -1 /\ u = w
    BY <1>1, <1>2, <1>3, <2>2 DEF Around, Position, Behind
  <2>4. w # 0 /\ ready_idx = At(w - 1)
    BY <1>1, <1>6, <2>2, <2>3 DEF Around
  <2>5. At(w - 1) = w - 1
    BY <1>1, <2>4 DEF At
  <2>6. Waiting = u
    BY <1>1, <1>6, <2>3, <2>4, <2>5 DEF Waiting
  <2>7. \A i \in 1 .. u : SlotAfter(local_read, i) = At(L + i)
    BY <1>6, <2>3 DEF SlotAfter, At, NoSlot
  <2>8. QED
    BY <1>2, <1>3, <2>6, <2>7 DEF RingQueue, Packets
<1>7. CASE ready_idx # NoSlot /\ local_read # NoSlot
  <2>1. local_read = At(L) /\ (Taken \/ n >= 1)
    BY <1>1, <1>2, <1>7 DEF Around, Position
  <2>2. u \in 0 .. RingSlots - 1
    BY <1>1, <1>3, <2>1 DEF Behind, Around
  <2>3. ready_idx = At(L + u)
    BY <1>1, <1>4, <1>7 DEF Around
  <2>4. Waiting = u
    BY <1>7, <2>1, <2>2, <2>3, Distance DEF Waiting
  <2>5. \A i \in 1 .. u : SlotAfter(local_read, i) = At(L + i)
    BY <2>1, AtAfter
  <2>6. QED
    BY <1>2, <1>3, <2>4, <2>5 DEF RingQueue, Packets
<1>8. QED
  BY <1>5, <1>6, <1>7

LEMMA RingMeansNext == Meaning'
  BY RingMeans, PTL

\* FrameQueue's steps in the ring's terms.
QueueStill == UNCHANGED <<last_frame, RingQueue, RingShown>>
QueueCommit == /\ Len(RingQueue) < RingSlots
               /\ last_frame' = (last_frame + 1) % FrameIds
               /\ RingQueue' = Append(RingQueue, last_frame')
               /\ UNCHANGED RingShown
QueueTake == /\ RingQueue # <<>>
             /\ RingShown' = Head(RingQueue)
             /\ RingQueue' = Tail(RingQueue)
             /\ UNCHANGED last_frame
QueueFlush == RingQueue' = <<>> /\ RingShown' = NoSlot /\ UNCHANGED last_frame

LEMMA QueueSteps ==
    QueueStill \/ QueueCommit \/ QueueTake \/ QueueFlush
    => [Ring!Next]_<<last_frame, RingQueue, RingShown>>
  BY DEF QueueStill, QueueCommit, QueueTake, QueueFlush, RingQueue, RingShown,
         Ring!Next, Ring!Commit, Ring!Take, Ring!Flush, Ring!NoFrame, NoSlot

\* A commit appends: the slot packed is none of those that wait.
LEMMA CommitAppends ==
    ASSUME TypeInv, TypeInv', Commit,
           NEW P \in Int, NEW C \in Int, NEW n \in 0 .. FrameSlots,
           NEW w \in 0 .. RingSlots, Around(P, C, n, w)
    PROVE  QueueCommit
<1>1. RingSlots \in Nat \ {0} /\ FrameSlots \in Nat \ {0} /\ n \in Nat /\ w \in Nat
      /\ n + w < RingSlots /\ write_idx = At(P + w + 1)
  BY Sizes DEF Around, Commit, PackFrame
<1>2. w + 1 \in 0 .. RingSlots /\ Around(P, C, n, w + 1)'
  BY AroundCommit
<1>3. UNCHANGED <<local_read, render_pc>> /\ (Taken' <=> Taken)
  BY DEF Commit, PackFrame, renderVars, Taken
<1>4. PICK L \in Int : L = Position(P) /\ RingQueue = Packets(L, Behind(w))
  BY RingMeans DEF Meaning
<1>5. PICK u \in Nat : u = Behind(w)
  BY RingMeans DEF Meaning
<1>6. Position(P)' = L /\ Behind(w + 1)' = u + 1 /\ L + u = P + w /\ u <= w
  BY <1>1, <1>3, <1>4, <1>5 DEF Position, Behind
<1>7. RingQueue' = Packets(L, u + 1)'
  BY <1>2, <1>6, RingMeansNext DEF Meaning
<1>8. /\ packets \in [Slots -> Ids] /\ packets' \in [Slots -> Ids]
      /\ last_frame' \in Ids
  BY DEF TypeInv, RingType, LuaType, Ids
<1>9. PICK x \in Int : x = P + w + 1
  BY <1>1
<1>10. At(x) \in Slots /\ packets' = [packets EXCEPT ![At(x)] = last_frame']
  BY <1>1, <1>9, AtType DEF Commit, PackFrame
<1>11. ASSUME NEW i \in 1 .. u PROVE packets'[At(L + i)] = packets[At(L + i)]
  <2>1. PICK y \in Int : y = L + i
    BY <1>5
  <2>2. y # x /\ x - y < RingSlots /\ y - x < RingSlots
    BY <1>1, <1>6, <1>9, <2>1
  <2>3. QED
    BY <1>8, <1>10, <2>1, <2>2, AtType, AtInjective
<1>12. RingQueue' = Append(RingQueue, last_frame')
  <2>1. /\ Packets(L, u) \in Seq(Ids) /\ Len(Packets(L, u)) = u
        /\ \A i \in 1 .. u : Packets(L, u)[i] = packets[At(L + i)]
    BY <1>5, <1>8, PacketsType
  <2> DEFINE longer == Append(Packets(L, u), last_frame')
  <2>2. /\ longer \in Seq(Ids) /\ Len(longer) = u + 1
        /\ \A i \in 1 .. u : longer[i] = Packets(L, u)[i]
        /\ longer[u + 1] = last_frame'
    BY <1>8, <2>1, AppendProperties
  <2>3. longer \in [1 .. u + 1 -> Ids]
    BY <2>2, LenProperties
  <2>4. Packets(L, u + 1)' = [i \in 1 .. u + 1 |-> packets'[At(L + i)]]
    BY DEF Packets
  <2>5. ASSUME NEW i \in 1 .. u + 1 PROVE longer[i] = packets'[At(L + i)]
    <3>1. CASE i \in 1 .. u
      BY <1>11, <2>1, <2>2, <3>1
    <3>2. CASE i = u + 1
      <4>1. L + i = x
        BY <1>1, <1>6, <1>9, <3>2
      <4>2. packets'[At(x)] = last_frame'
        BY <1>8, <1>10
      <4>3. QED
        BY <2>2, <3>2, <4>1, <4>2
    <3>3. i \in 1 .. u \/ i = u + 1
      BY <1>5, <2>5
    <3>4. QED
      BY <3>1, <3>2, <3>3
  <2> HIDE DEF longer
  <2>6. longer = [i \in 1 .. u + 1 |-> packets'[At(L + i)]]
    BY <2>3, <2>5
  <2>7. QED
    BY <1>4, <1>5, <1>7, <2>4, <2>6 DEF longer
<1>13. Len(RingQueue) < RingSlots
  <2>1. Len(RingQueue) = u
    BY <1>4, <1>5, <1>8, PacketsType
  <2>2. QED
    BY <1>1, <1>6, <2>1
<1>14. UNCHANGED RingShown
  <2>1. CASE local_read = NoSlot
    BY <1>3, <2>1 DEF RingShown
  <2>2. CASE local_read # NoSlot
    <3>1. local_read = At(L) /\ (Taken \/ n >= 1)
      BY <1>1, <1>4, <2>2 DEF Around, Position
    <3>2. L # x /\ x - L < RingSlots /\ L - x < RingSlots
      BY <1>1, <1>5, <1>6, <1>9, <3>1 DEF Behind
    <3>3. At(L) # At(x) /\ At(L) \in Slots
      BY <3>2, AtType, AtInjective
    <3>4. packets'[At(L)] = packets[At(L)]
      BY <1>8, <1>10, <3>3
    <3>5. QED
      BY <1>3, <2>2, <3>1, <3>4 DEF RingShown
  <2>3. QED
    BY <2>1, <2>2
<1>15. QED
  BY <1>12, <1>13, <1>14 DEF QueueCommit, Commit, PackFrame

\* The render thread takes what waits longest.
LEMMA AdvanceTakes ==
    ASSUME TypeInv, Advance,
           NEW P \in Int, NEW C \in Int, NEW n \in 0 .. FrameSlots,
           NEW w \in 0 .. RingSlots, Around(P, C, n, w)
    PROVE  QueueTake
<1>1. Around(P, C, n, w)' /\ local_read' = At(P + 1) /\ w >= 1 /\ w \in Nat
  BY AroundAdvance, Sizes
<1>2. ~Taken /\ Taken' /\ UNCHANGED <<packets, last_frame>>
  BY DEF Advance, Taken, luaVars
<1>3. RingQueue = Packets(P, w)
  BY <1>2, RingMeans DEF Meaning, Position, Behind
<1>4. RingQueue' = Packets(P + 1, w - 1)'
  BY <1>1, <1>2, RingMeansNext DEF Meaning, Position, Behind
<1>5. packets \in [Slots -> Ids]
  BY DEF TypeInv, RingType, Ids
<1>6. PICK v \in Nat : w = v + 1
  <2>1. w - 1 \in Nat /\ w = (w - 1) + 1
    BY <1>1
  <2>2. QED
    BY <2>1
<1>7. /\ Packets(P, w) \in Seq(Ids) /\ Len(Packets(P, w)) = w
      /\ \A i \in 1 .. w : Packets(P, w)[i] = packets[At(P + i)]
  BY <1>1, <1>5, PacketsType
<1>8. Packets(P, w) # <<>>
  BY <1>1, <1>7, EmptySeq
<1>9. /\ Tail(Packets(P, w)) \in Seq(Ids) /\ Len(Tail(Packets(P, w))) = v
      /\ \A i \in 1 .. v : Tail(Packets(P, w))[i] = Packets(P, w)[i + 1]
  BY <1>6, <1>7, <1>8, HeadTailProperties
<1>10. Tail(Packets(P, w)) = Packets(P + 1, v)
  <2>1. Tail(Packets(P, w)) \in [1 .. v -> Ids]
    BY <1>9, LenProperties
  <2>2. ASSUME NEW i \in 1 .. v
        PROVE  Tail(Packets(P, w))[i] = packets[At(P + 1 + i)]
    <3>1. i + 1 \in 1 .. w /\ P + (i + 1) = P + 1 + i
      BY <1>6
    <3>2. QED
      BY <1>7, <1>9, <3>1
  <2>3. QED
    BY <2>1, <2>2 DEF Packets
<1>11. Packets(P + 1, w - 1)' = Packets(P + 1, v)
  <2>1. w - 1 = v
    BY <1>6
  <2>2. QED
    BY <1>2, <2>1 DEF Packets
<1>12. RingShown' = Head(RingQueue)
  <2>1. Head(Packets(P, w)) = Packets(P, w)[1] /\ 1 \in 1 .. w
    BY <1>1, <1>7, <1>8
  <2>2. Head(RingQueue) = packets[At(P + 1)]
    BY <1>3, <1>7, <2>1
  <2>3. At(P + 1) # NoSlot
    <3>1. P + 1 \in Int
      OBVIOUS
    <3>2. QED
      BY <3>1, AtType DEF Slots, NoSlot
  <2>4. QED
    BY <1>1, <1>2, <2>2, <2>3 DEF RingShown
<1>13. QED
  BY <1>2, <1>3, <1>4, <1>8, <1>10, <1>11, <1>12 DEF QueueTake

\* Initialising the stream throws away what waits.
LEMMA ResetFlushes == ResetRing => QueueFlush
  BY DEF ResetRing, QueueFlush, RingQueue, RingShown, Waiting

\* No other step touches what the queue is made of.
LEMMA OthersAreStill ==
    UNCHANGED <<last_frame, packets, ready_idx, local_read>> => QueueStill
  BY DEF QueueStill, RingQueue, RingShown, Waiting

LEMMA QueueStep ==
    TypeInv /\ TypeInv' /\ RingInv /\ [QuietNext]_vars
    => [Ring!Next]_<<last_frame, RingQueue, RingShown>>
<1> SUFFICES ASSUME TypeInv, TypeInv', RingInv, [QuietNext]_vars
             PROVE  QueueStill \/ QueueCommit \/ QueueTake \/ QueueFlush
  BY QueueSteps
<1>1. PICK P \in Int, C \in Int, n \in 0 .. FrameSlots, w \in 0 .. RingSlots :
         Around(P, C, n, w)
  BY DEF RingInv
<1>2. CASE Commit
  BY <1>1, <1>2, CommitAppends
<1>3. CASE ResetRing
  BY <1>3, ResetFlushes
<1>4. CASE Advance
  BY <1>1, <1>4, AdvanceTakes
<1>5. CASE RequestRebuild \/ BeginInit \/ WaitForRenderer \/ AbortInit \/ BeginAcquire
           \/ ScanSlot
  BY <1>5, OthersAreStill
     DEF RequestRebuild, BeginInit, WaitForRenderer, AbortInit, BeginAcquire, ScanSlot,
         ringVars
<1>6. CASE TakeCommands \/ LoadReady \/ LoadLocal \/ RaiseBusy \/ Retire \/ Check
           \/ WaitForFence \/ AcquireImage \/ Submit \/ FrameDone
  BY <1>6, OthersAreStill
     DEF TakeCommands, LoadReady, LoadLocal, RaiseBusy, Retire, Check, WaitForFence,
         AcquireImage, Submit, FrameDone, ringVars, luaVars
<1>7. CASE Resize \/ (\E f \in Frames : Finish(f)) \/ UNCHANGED vars
  BY <1>7, OthersAreStill DEF Resize, Finish, vars, ringVars, luaVars
<1>8. QED
  BY <1>2, <1>3, <1>4, <1>5, <1>6, <1>7 DEF QuietNext, Next, Lua, Render

\* For every number of slots the ring implements the queue: no frame is lost, repeated,
\* overwritten or overtaken (ring_stream.c:31-54 against vk_render_loop.c:44-69).
THEOREM RingIsAQueue ==
    ASSUME OneSpare
    PROVE  QuietSpec => ImplementsFrameQueue
<1>1. Init => TypeInv /\ RingInv
  BY TypeInit, RingInit
<1>2. TypeInv /\ RingInv /\ [QuietNext]_vars => (TypeInv /\ RingInv)'
  BY TypeStep, RingStep DEF QuietNext
<1>3. Init => Ring!Init
  BY DEF Init, Ring!Init, Waiting, Ring!NoFrame, NoSlot
<1>4. TypeInv /\ RingInv /\ (TypeInv /\ RingInv)' /\ [QuietNext]_vars
      => [Ring!Next]_<<last_frame, RingQueue, RingShown>>
  BY QueueStep
<1>5. QED
  BY <1>1, <1>2, <1>3, <1>4, PTL
     DEF QuietSpec, ImplementsFrameQueue, Ring!Spec, RingQueue, RingShown
=============================================================================
