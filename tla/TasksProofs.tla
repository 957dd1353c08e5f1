----------------------------- MODULE TasksProofs -----------------------------
(***************************************************************************)
(* Theorems about Tasks, for every place of init_task_union and every      *)
(* machine.                                                                *)
(***************************************************************************)
EXTENDS Tasks, TLAPS

-----------------------------------------------------------------------------
(* The invariant *)

TaskType ==
  [prev : Nat \cup {Wild}, next : Nat \cup {Wild},
   state : {"RUNNING", "UNINTERRUPTIBLE", "other"}, kthread : BOOLEAN, pid : Nat,
   thread : {"own", "other"}, rip : {"kernel_thread_func", "ret_from_intr", "other"},
   regs : BOOLEAN]

\* The n-th fork gets page n: the last task in the list, and the last struct.
Last == Len(forks)
Building == pc \in {"new->next", "prev->next"}
Top == IF Building THEN Last + 1 ELSE Last

Typed ==
  /\ pc \in Pcs /\ end \in Machines /\ memory0 \in Memory0 /\ row \in 0 .. Rows - 1
  /\ forks \in Seq(Nat) /\ \A i \in 1 .. Last : forks[i] = i
  /\ task \in [0 .. Top -> TaskType]

Pages ==
  /\ granted \in {Last, Last + 1} /\ granted <= end - 2
  /\ pc \in {"task_init", "do_fork"} => granted = Last
  /\ pc = "task_init" => Last = 0
  /\ pc \in {"tsk", "memset"} \/ Building => granted = Last + 1 /\ tsk = Last + 1
  /\ pc \in {"new->prev", "entry->prev", "state", "thread", "run", "return"} =>
       granted = Last /\ tsk = Last /\ Last > 0
  /\ \A p \in 1 .. Top : FrameAt(p) # NotMapped

\* The list, but for what of the new task list_add_before has still to link.
Links ==
  /\ \A t \in 0 .. Top : {task[t].prev, task[t].next} \subseteq (0 .. Top) \cup {Wild}
  /\ pc # "task_init" =>
       /\ \A t \in 0 .. Last :
            /\ Ruined(t) => OnScreen(t)
            /\ ~ Ruined(t) => task[t].next = IF t < Last THEN t + 1 ELSE 0
       /\ \A t \in 1 .. Last - 1 : ~ Ruined(t) => task[t].prev = t - 1
       /\ Last > 0 /\ pc # "new->prev" /\ ~ Ruined(Last) => task[Last].prev = Last - 1
       /\ task[0].prev = IF pc \in {"new->prev", "entry->prev"} THEN Last - 1 ELSE Last
  /\ Building \/ pc = "new->prev" => ~ Ruined(tsk)
  /\ pc = "prev->next" => task[tsk].next = 0

Threads ==
  /\ pc = "thread" => task[tsk].thread = "own"
  /\ pc = "run" => task[tsk].thread = "own" /\ task[tsk].regs /\ task[tsk].rip # "other"
  /\ \A t \in 1 .. Last :
       task[t].state = "RUNNING" =>
         \/ task[t].thread = "own" /\ task[t].regs /\ task[t].rip # "other"
         \/ t = tsk /\ pc \in {"new->prev", "entry->prev", "state"}

IInv == Typed /\ Pages /\ Links /\ Threads

-----------------------------------------------------------------------------
(* The operators *)

\* The 2MB pages that can be allocated lie in the first table.
LEMMA FrameIs ==
  ASSUME NEW p \in 0 .. 63
  PROVE  FrameAt(p) = CASE p <= 4 -> p [] p \in 5 .. 12 -> 1792 + p - 5 [] OTHER -> NotMapped
<1>1. p \div 262144 = 0 /\ p \div 512 = 0 /\ p % 512 = p
  OBVIOUS
<1>2. FrameAt(p) = PDE[p]
  BY <1>1 DEF FrameAt, Translate, EntriesPerTable, PML4AfterInit, PML4E, PDPTE
<1>3. p \in 0 .. EntriesPerTable - 1
  BY DEF EntriesPerTable
<1>4. PDE[p] = CASE p <= 4 -> p [] p \in 5 .. 12 -> FrameBuffer + (p - 5) [] OTHER -> NotMapped
  BY <1>3 DEF PDE
<1> QED
  BY <1>2, <1>4 DEF FrameBuffer

\* A page is its own frame, or on the screen, or not mapped; page 0 is RAM.
LEMMA Frames ==
  /\ \A p \in 0 .. 63 : FrameAt(p) # NotMapped => FrameAt(p) = p \/ OnScreen(p)
  /\ ~ OnScreen(0)
<1>1. ASSUME NEW p \in 0 .. 63, FrameAt(p) # NotMapped
      PROVE  FrameAt(p) = p \/ OnScreen(p)
  BY <1>1, FrameIs DEF OnScreen, FrameBuffer
<1>2. FrameAt(0) = 0
  BY FrameIs
<1> QED
  BY <1>1, <1>2 DEF OnScreen, FrameBuffer

\* current is never init_task_union: the stack of head.S is below 32KB, and
\* the linker puts the union above 1MB.
LEMMA CurrentIs ==
  CurrentTask = memory0
<1>1. current = 0
  BY DEF current, StackPointer, STACK_SIZE
<1> QED
  BY <1>1, LinkerAssumption DEF CurrentTask

\* Sizes and types, one by one.
LEMMA Structs ==
  ASSUME IInv
  PROVE  /\ Last \in Nat /\ Top \in Nat /\ 0 \in 0 .. Top /\ DOMAIN task = 0 .. Top
         /\ granted \in Nat /\ end \in 2 .. 63 /\ Top <= 61
         /\ \A k \in 0 .. Top : task[k] \in TaskType
<1>1. Typed /\ Pages
  BY DEF IInv
<1>2. Last \in Nat
  BY <1>1 DEF Typed, Last
<1>3. end \in 2 .. 63
  BY <1>1, MachinesAssumption DEF Typed
<1>4. granted \in Nat /\ Top <= granted /\ granted <= end - 2
  BY <1>1, <1>2 DEF Pages, Top
<1>5. Top \in Nat
  BY <1>2 DEF Top
<1> QED
  BY <1>1, <1>2, <1>3, <1>4, <1>5 DEF Typed

\* One store into the struct of task k.
Stored(k, r) == task' = [task EXCEPT ![k] = r]

\* What a store to one field of one struct leaves.
LEMMA StoredIs ==
  ASSUME IInv, NEW k \in 0 .. Top, NEW r \in TaskType, Stored(k, r)
  PROVE  /\ task' \in [0 .. Top -> TaskType] /\ task'[k] = r
         /\ \A t \in 0 .. Top : t # k => task'[t] = task[t]
BY DEF IInv, Typed, Stored

\* What is printed ruins structs on the screen, and no other.
LEMMA Prints ==
  ASSUME IInv, NEW n \in Nat, color_printk(n)
  PROVE  /\ task' \in [0 .. Top -> TaskType] /\ row' \in 0 .. Rows - 1
         /\ \A t \in 0 .. Top :
              \/ task'[t] = task[t]
              \/ /\ t # 0 /\ OnScreen(t) /\ task'[t].prev = Wild /\ task'[t].next = Wild
                 /\ task'[t].state = "other"
<1>1. DOMAIN task = 0 .. Top /\ \A k \in 0 .. Top : task[k] \in TaskType
  BY Structs
<1> DEFINE Wiped(k) == [Cleared EXCEPT !.regs = task[k].regs]
<1>2. task' = [p \in 0 .. Top |-> IF p \in Struck(n) THEN Wiped(p) ELSE task[p]]
  BY <1>1 DEF color_printk
<1>3. \A k \in 0 .. Top : /\ Wiped(k) \in TaskType /\ Wiped(k).prev = Wild
                          /\ Wiped(k).next = Wild /\ Wiped(k).state = "other"
  BY <1>1 DEF Cleared, TaskType
<1>4. \A k \in Struck(n) : OnScreen(k) /\ k # 0
  BY Frames DEF Struck
<1> HIDE DEF Wiped
<1>5. task' \in [0 .. Top -> TaskType]
  BY <1>1, <1>2, <1>3
<1>6. row' \in 0 .. Rows - 1
  <2>1. row \in Nat /\ row + n \in Nat /\ Rows \in Nat \ {0}
    BY DEF IInv, Typed, Rows
  <2>2. (row + n) % Rows \in 0 .. Rows - 1
    BY <2>1 DEF Rows
  <2> QED
    BY <2>2 DEF color_printk
<1>7. ASSUME NEW k \in 0 .. Top
      PROVE  \/ task'[k] = task[k]
             \/ /\ k # 0 /\ OnScreen(k) /\ task'[k].prev = Wild /\ task'[k].next = Wild
                /\ task'[k].state = "other"
  <2>1. CASE k \in Struck(n)
    BY <1>2, <1>3, <1>4, <2>1
  <2>2. CASE k \notin Struck(n)
    BY <1>2, <2>2
  <2> QED
    BY <2>1, <2>2
<1> QED
  BY <1>5, <1>6, <1>7

-----------------------------------------------------------------------------
(* The steps *)

\* The steps that change nothing but pc.
LEMMA IdleStep ==
  ASSUME IInv, ClearFaults \/ ForkAgain \/ SwitchTo
  PROVE  IInv'
<1>1. /\ UNCHANGED <<task, end, memory0, row, forks, granted, tsk>>
      /\ \/ pc = "memset" /\ pc' = "fault"
         \/ pc = "return" /\ pc' = "do_fork"
         \/ pc = "switch" /\ pc' \in {"running", "fault"}
  BY DEF ClearFaults, ForkAgain, SwitchTo, Stop
<1>2. Typed /\ Pages /\ Links /\ Threads /\ Last' = Last /\ Top' = Top
      /\ \A t : Ruined(t)' <=> Ruined(t)
  BY <1>1 DEF IInv, Last, Top, Building, Ruined
<1>3. Typed'
  BY <1>1, <1>2 DEF Typed, Pcs
<1>4. Pages'
  BY <1>1, <1>2 DEF Pages, Building
<1>5. Links'
  BY <1>1, <1>2 DEF Links, Building
<1>6. Threads'
  BY <1>1, <1>2 DEF Threads
<1> QED
  BY <1>3, <1>4, <1>5, <1>6 DEF IInv

\* task_init sets up init_task_union.
LEMMA TaskInitStep ==
  ASSUME IInv, TaskInit
  PROVE  IInv'
<1>1. pc = "task_init" /\ pc' = "do_fork"
      /\ UNCHANGED <<end, memory0, row, forks, granted, tsk>>
  BY DEF TaskInit
<1>2. Typed /\ Pages /\ Links /\ Threads /\ Last = 0 /\ Last' = 0 /\ Top = 0 /\ Top' = 0
  BY <1>1 DEF IInv, Pages, Last, Top, Building
<1> DEFINE r == [task[0] EXCEPT !.prev = 0, !.next = 0]
<1>3. task[0] \in TaskType
  BY <1>2 DEF Typed
<1>4. r \in TaskType /\ r.prev = 0 /\ r.next = 0
  BY <1>3 DEF TaskType
<1>5. Stored(0, r)
  BY DEF TaskInit, Stored
<1> HIDE DEF r
<1>6. task' \in [0 .. 0 -> TaskType] /\ task'[0] = r
  BY <1>2, <1>4, <1>5 DEF Typed, Stored
<1>7. Typed'
  BY <1>1, <1>2, <1>6 DEF Typed, Pcs, Last
<1>8. Pages'
  BY <1>1, <1>2 DEF Pages, Building
<1>9. Links'
  BY <1>1, <1>2, <1>4, <1>6 DEF Links, Building, Ruined, Wild
<1>10. Threads'
  BY <1>1, <1>2 DEF Threads
<1> QED
  BY <1>7, <1>8, <1>9, <1>10 DEF IInv

\* The steps that print: with a page, without one, and its address.
LEMMA PrintStep ==
  ASSUME IInv, AllocPage \/ AllocNone \/ PrintAddress
  PROVE  IInv'
<1>1. /\ \/ /\ pc = "do_fork" /\ pc' = "tsk" /\ granted < end - 2
            /\ granted' = granted + 1 /\ tsk' = granted + 1
         \/ pc = "do_fork" /\ pc' = "fault" /\ UNCHANGED <<granted, tsk>>
         \/ pc = "tsk" /\ pc' = "memset" /\ UNCHANGED <<granted, tsk>>
      /\ UNCHANGED <<end, memory0, forks>>
  BY DEF AllocPage, AllocNone, PrintAddress, Stop, FreePages
<1>2. \E n \in Nat : color_printk(n)
  BY DEF AllocPage, AllocNone, PrintAddress
<1>3. /\ task' \in [0 .. Top -> TaskType] /\ row' \in 0 .. Rows - 1
      /\ \A t \in 0 .. Top :
           \/ task'[t] = task[t]
           \/ /\ t # 0 /\ OnScreen(t) /\ task'[t].prev = Wild /\ task'[t].next = Wild
              /\ task'[t].state = "other"
  BY <1>2, Prints
<1>4. Typed /\ Pages /\ Links /\ Threads /\ Last' = Last /\ Top' = Last /\ Top = Last
      /\ Last \in Nat /\ granted \in Nat /\ end \in 2 .. 63 /\ ~ Building
  BY <1>1, Structs DEF IInv, Last, Top, Building
<1>5. Typed'
  BY <1>1, <1>3, <1>4 DEF Typed, Pcs
<1>6. Pages'
  BY <1>1, <1>4 DEF Pages, Building
<1>7. ASSUME NEW t \in 0 .. Last
      PROVE  /\ {task'[t].prev, task'[t].next} \subseteq (0 .. Last) \cup {Wild}
             /\ Ruined(t)' => OnScreen(t)
             /\ ~ Ruined(t)' => ~ Ruined(t) /\ task'[t] = task[t]
             /\ task'[t].state = "RUNNING" => task'[t] = task[t]
  <2>1. CASE task'[t] = task[t]
    BY <1>1, <1>4, <2>1 DEF Links, Ruined
  <2>2. CASE OnScreen(t) /\ task'[t].prev = Wild /\ task'[t].next = Wild
             /\ task'[t].state = "other"
    BY <2>2 DEF Ruined
  <2> QED
    BY <1>3, <1>4, <2>1, <2>2
<1>8. task'[0] = task[0]
  BY <1>3, <1>4
<1>9. Links'
  <2>1. \A t \in 1 .. Last - 1 : t \in 0 .. Last
    BY <1>4
  <2> QED
    BY <1>1, <1>4, <1>7, <1>8, <2>1 DEF Links, Building
<1>10. Threads'
  BY <1>1, <1>4, <1>7 DEF Threads
<1> QED
  BY <1>5, <1>6, <1>9, <1>10 DEF IInv

\* The copy of current is a struct outside the list.
LEMMA CopyStep ==
  ASSUME IInv, Copy
  PROVE  IInv'
<1>1. pc = "memset" /\ pc' = "new->next" /\ FrameAt(tsk) # NotMapped
      /\ UNCHANGED <<tsk, end, memory0, row, granted, forks>>
  BY DEF Copy
<1>2. Typed /\ Pages /\ Links /\ Threads /\ Last' = Last /\ Top' = Last + 1 /\ Top = Last
      /\ Last \in Nat /\ tsk = Last + 1 /\ DOMAIN task = 0 .. Last
  BY <1>1, Structs DEF IInv, Last, Top, Building, Pages
<1> DEFINE r == [memory0 EXCEPT !.prev = tsk, !.next = tsk, !.rip = "other", !.regs = FALSE,
                                !.thread = "other"]
<1>3. r \in TaskType /\ r.prev = tsk /\ r.next = tsk
  <2>1. Memory0 \subseteq TaskType
    <3> SUFFICES ASSUME NEW s \in Memory0
                 PROVE  s \in TaskType
      OBVIOUS
    <3>1. /\ s.prev \in Nat \cup {Wild} /\ s.next \in Nat \cup {Wild}
          /\ s.state \in {"RUNNING", "UNINTERRUPTIBLE", "other"} /\ s.kthread \in BOOLEAN
          /\ s.pid \in Nat /\ s.thread \in {"own", "other"} /\ s.rip = "other"
          /\ s.regs \in BOOLEAN
      <4>1. s.prev \in {Wild} /\ s.next \in {Wild} /\ s.pid \in {0} /\ s.thread \in {"other"}
            /\ s.rip \in {"other"} /\ s.state \in {"RUNNING", "other"}
        BY DEF Memory0
      <4>2. s.kthread \in BOOLEAN
        BY DEF Memory0
      <4>3. s.regs \in {FALSE}
        BY DEF Memory0
      <4>4. s.regs \in BOOLEAN
        BY <4>3
      <4> QED
        BY <4>1, <4>2, <4>4
    <3>2. s = [prev |-> s.prev, next |-> s.next, state |-> s.state, kthread |-> s.kthread,
               pid |-> s.pid, thread |-> s.thread, rip |-> s.rip, regs |-> s.regs]
      BY DEF Memory0
    <3> QED
      BY <3>1, <3>2 DEF TaskType
  <2>2. memory0 \in TaskType /\ tsk \in Nat
    BY <1>2, <2>1 DEF Typed
  <2> QED
    BY <2>2 DEF TaskType
<1>4. task' = [p \in 0 .. Last + 1 |-> IF p = tsk THEN r ELSE task[p]]
  <2>1. (0 .. Last) \cup {tsk} = 0 .. Last + 1
    BY <1>2
  <2> QED
    BY <1>2, <2>1, CurrentIs DEF Copy
<1> HIDE DEF r
<1>5. task' \in [0 .. Last + 1 -> TaskType] /\ task'[tsk] = r
      /\ \A t \in 0 .. Last : task'[t] = task[t]
  <2>1. \A t \in 0 .. Last + 1 : t # tsk => t \in 0 .. Last
    BY <1>2
  <2>2. \A t \in 0 .. Last : task[t] \in TaskType /\ t # tsk /\ t \in 0 .. Last + 1
    BY <1>2 DEF Typed
  <2>3. tsk \in 0 .. Last + 1
    BY <1>2
  <2> QED
    BY <1>3, <1>4, <2>1, <2>2, <2>3
<1>6. Typed'
  BY <1>1, <1>2, <1>5 DEF Typed, Pcs
<1>7. Pages'
  <2>1. \A p \in 1 .. Last + 1 : p = tsk \/ p \in 1 .. Last
    BY <1>2
  <2> QED
    BY <1>1, <1>2, <2>1 DEF Pages, Building
<1>8. Links'
  <2>1. \A t \in 0 .. Last : Ruined(t)' <=> Ruined(t)
    BY <1>5 DEF Ruined
  <2>2. \A t \in 0 .. Last + 1 : t = tsk \/ t \in 0 .. Last
    BY <1>2
  <2>3. \A t \in 0 .. Last + 1 :
          {task'[t].prev, task'[t].next} \subseteq (0 .. Last + 1) \cup {Wild}
    <3>1. \A t \in 0 .. Last :
            {task[t].prev, task[t].next} \subseteq (0 .. Last) \cup {Wild}
      BY <1>2 DEF Links
    <3>2. (0 .. Last) \cup {Wild} \subseteq (0 .. Last + 1) \cup {Wild}
          /\ tsk \in 0 .. Last + 1
      BY <1>2
    <3> QED
      BY <1>3, <1>5, <2>2, <3>1, <3>2
  <2>4. ~ Ruined(tsk)'
    <3>1. tsk # Wild
      BY <1>2 DEF Wild
    <3> QED
      BY <1>1, <1>3, <1>5, <3>1 DEF Ruined
  <2>5. /\ \A t \in 1 .. Last - 1 : t \in 0 .. Last
        /\ Last \in 0 .. Last /\ 0 \in 0 .. Last
    BY <1>2
  <2> QED
    BY <1>1, <1>2, <1>5, <2>1, <2>3, <2>4, <2>5 DEF Links, Building
<1>9. Threads'
  <2>1. \A t \in 1 .. Last : t \in 0 .. Last
    BY <1>2
  <2> QED
    BY <1>1, <1>2, <1>5, <2>1 DEF Threads
<1> QED
  BY <1>6, <1>7, <1>8, <1>9 DEF IInv

\* new->next.
LEMMA NewNextStep ==
  ASSUME IInv, NewNext
  PROVE  IInv'
<1>1. pc = "new->next" /\ pc' = "prev->next"
      /\ UNCHANGED <<tsk, end, memory0, row, granted, forks>>
  BY DEF NewNext
<1>2. Typed /\ Pages /\ Links /\ Threads /\ Last' = Last /\ Top' = Last + 1 /\ Top = Last + 1
      /\ Last \in Nat /\ tsk = Last + 1
  BY <1>1, Structs DEF IInv, Last, Top, Building, Pages
<1> DEFINE r == [task[tsk] EXCEPT !.next = 0]
<1>3. task[tsk] \in TaskType
  BY <1>2 DEF Typed
<1>4. r \in TaskType /\ r.next = 0 /\ r.prev = task[tsk].prev
  BY <1>3 DEF TaskType
<1>5. Stored(tsk, r) /\ tsk \in 0 .. Top
  BY <1>2 DEF NewNext, Stored
<1> HIDE DEF r
<1>6. task' \in [0 .. Last + 1 -> TaskType] /\ task'[tsk] = r
      /\ \A t \in 0 .. Last + 1 : t # tsk => task'[t] = task[t]
  BY <1>2, <1>4, <1>5, StoredIs
<1>7. Typed'
  BY <1>1, <1>2, <1>6 DEF Typed, Pcs
<1>8. Pages'
  BY <1>1, <1>2 DEF Pages, Building
<1>9. \A t \in 0 .. Last : task'[t] = task[t] /\ (Ruined(t)' <=> Ruined(t))
  BY <1>2, <1>6 DEF Ruined
<1>10. Links'
  <2>1. \A t \in 0 .. Last + 1 :
          {task'[t].prev, task'[t].next} \subseteq (0 .. Last + 1) \cup {Wild}
    BY <1>2, <1>4, <1>6 DEF Links
  <2>2. ~ Ruined(tsk)'
    BY <1>1, <1>2, <1>4, <1>6 DEF Links, Ruined, Building
  <2>3. /\ \A t \in 1 .. Last - 1 : t \in 0 .. Last
        /\ Last \in 0 .. Last /\ 0 \in 0 .. Last
    BY <1>2
  <2> QED
    BY <1>1, <1>2, <1>4, <1>6, <1>9, <2>1, <2>2, <2>3 DEF Links, Building
<1>11. Threads'
  <2>1. \A t \in 1 .. Last : t \in 0 .. Last
    BY <1>2
  <2> QED
    BY <1>1, <1>2, <1>9, <2>1 DEF Threads
<1> QED
  BY <1>7, <1>8, <1>10, <1>11 DEF IInv

\* Here the new task joins the list: Last goes up.
LEMMA PrevNextStep ==
  ASSUME IInv, PrevNext
  PROVE  IInv'
<1> DEFINE m == Last + 1
           r == [task[Last] EXCEPT !.next = tsk]
<1>1. pc = "prev->next" /\ pc' = "new->prev"
      /\ UNCHANGED <<tsk, end, memory0, row, granted>> /\ forks' = Append(forks, tsk)
  BY DEF PrevNext
<1>2. Typed /\ Pages /\ Links /\ Threads /\ Top = m /\ Last \in Nat /\ tsk = m
  BY <1>1, Structs DEF IInv, Top, Building, Pages
<1>3. Last' = m /\ Top' = m /\ forks' \in Seq(Nat) /\ \A i \in 1 .. m : forks'[i] = i
  <2>1. forks \in Seq(Nat) /\ Last = Len(forks) /\ tsk \in Nat
    BY <1>2 DEF Typed, Last
  <2>2. /\ Append(forks, tsk) \in Seq(Nat) /\ Len(Append(forks, tsk)) = Len(forks) + 1
        /\ Append(forks, tsk)[Len(forks) + 1] = tsk
        /\ \A i \in 1 .. Len(forks) : Append(forks, tsk)[i] = forks[i]
    BY <2>1
  <2>3. \A i \in 1 .. m : i = m \/ i \in 1 .. Last
    BY <1>2
  <2> QED
    BY <1>1, <1>2, <2>1, <2>2, <2>3 DEF Typed, Last, Top, Building
<1>4. task[0].prev = Last
  BY <1>1, <1>2 DEF Links
<1>5. task[Last] \in TaskType /\ tsk \in Nat
  BY <1>2 DEF Typed
<1>6. r \in TaskType /\ r.next = tsk /\ r.prev = task[Last].prev /\ r.state = task[Last].state
      /\ r.thread = task[Last].thread /\ r.regs = task[Last].regs /\ r.rip = task[Last].rip
  BY <1>5 DEF TaskType
<1>7. Stored(Last, r) /\ Last \in 0 .. Top
  BY <1>2, <1>4 DEF PrevNext, Stored
<1> HIDE DEF r, m
<1>8. task' \in [0 .. m -> TaskType] /\ task'[Last] = r
      /\ \A t \in 0 .. m : t # Last => task'[t] = task[t]
  BY <1>2, <1>6, <1>7, StoredIs
<1>9. m = Last + 1
  BY DEF m
<1>10. Typed'
  BY <1>1, <1>2, <1>3, <1>8 DEF Typed, Pcs
<1>11. Pages'
  BY <1>1, <1>2, <1>3, <1>9 DEF Pages, Building
<1>12. \A t \in 0 .. m :
         /\ task'[t].prev = task[t].prev /\ (Ruined(t)' <=> Ruined(t))
         /\ task'[t].state = task[t].state /\ task'[t].thread = task[t].thread
         /\ task'[t].regs = task[t].regs /\ task'[t].rip = task[t].rip
  BY <1>6, <1>8 DEF Ruined
<1>13. Links'
  <2>1. \A t \in 0 .. m : {task'[t].prev, task'[t].next} \subseteq (0 .. m) \cup {Wild}
    <3>1. tsk \in 0 .. m
      BY <1>2, <1>9
    <3> QED
      BY <1>2, <1>6, <1>8, <1>12, <3>1 DEF Links
  <2>2. \A t \in 0 .. m : Ruined(t)' => OnScreen(t)
    <3>1. \A t \in 0 .. m : t = m \/ t \in 0 .. Last
      BY <1>2, <1>9
    <3> QED
      BY <1>1, <1>2, <1>12, <3>1 DEF Links, Building
  <2>3. \A t \in 0 .. m : ~ Ruined(t)' => task'[t].next = IF t < m THEN t + 1 ELSE 0
    <3> SUFFICES ASSUME NEW t \in 0 .. m, ~ Ruined(t)'
                 PROVE  task'[t].next = IF t < m THEN t + 1 ELSE 0
      OBVIOUS
    <3>1. ~ Ruined(t)
      BY <1>12
    <3>2. CASE t = m
      BY <1>1, <1>2, <1>8, <1>9, <3>2 DEF Links
    <3>3. CASE t = Last
      BY <1>2, <1>6, <1>8, <1>9, <3>3
    <3>4. CASE t \in 0 .. Last - 1
      <4>1. task[t].next = IF t < Last THEN t + 1 ELSE 0
        BY <1>1, <1>2, <3>1, <3>4 DEF Links
      <4>2. t < Last /\ t < m /\ t # Last
        BY <1>2, <1>9, <3>4
      <4> QED
        BY <1>8, <4>1, <4>2
    <3> QED
      BY <1>2, <1>9, <3>2, <3>3, <3>4
  <2>4. \A t \in 1 .. m - 1 : ~ Ruined(t)' => task'[t].prev = t - 1
    <3>1. \A t \in 1 .. m - 1 : t \in 0 .. m /\ (t \in 1 .. Last - 1 \/ (t = Last /\ Last > 0))
      BY <1>2, <1>9
    <3> QED
      BY <1>1, <1>2, <1>12, <3>1 DEF Links
  <2>5. task'[0].prev = m - 1
    <3>1. 0 \in 0 .. m
      BY <1>2, <1>9
    <3> QED
      BY <1>4, <1>2, <1>9, <1>12, <3>1
  <2>6. ~ Ruined(tsk)'
    <3>1. tsk \in 0 .. m
      BY <1>2, <1>9
    <3> QED
      BY <1>1, <1>2, <1>12, <3>1 DEF Links, Building
  <2> QED
    BY <1>1, <1>3, <2>1, <2>2, <2>3, <2>4, <2>5, <2>6 DEF Links, Building
<1>14. Threads'
  <2>1. \A t \in 1 .. m : t \in 0 .. m /\ (t = tsk \/ t \in 1 .. Last)
    BY <1>2, <1>9
  <2> QED
    BY <1>1, <1>2, <1>3, <1>12, <2>1 DEF Threads
<1> QED
  BY <1>10, <1>11, <1>13, <1>14 DEF IInv

\* new->prev.
LEMMA NewPrevStep ==
  ASSUME IInv, NewPrev
  PROVE  IInv'
<1>1. pc = "new->prev" /\ pc' = "entry->prev"
      /\ UNCHANGED <<tsk, end, memory0, row, granted, forks>>
  BY DEF NewPrev
<1>2. Typed /\ Pages /\ Links /\ Threads /\ Last' = Last /\ Top' = Last /\ Top = Last
      /\ Last \in Nat /\ Last > 0 /\ tsk = Last
  BY <1>1, Structs DEF IInv, Last, Top, Building, Pages
<1> DEFINE r == [task[Last] EXCEPT !.prev = Last - 1]
<1>3. task[Last] \in TaskType /\ task[0].prev = Last - 1 /\ Last - 1 \in Nat
  BY <1>1, <1>2 DEF Typed, Links
<1>4. r \in TaskType /\ r.prev = Last - 1 /\ r.next = task[Last].next
      /\ r.state = task[Last].state
  BY <1>3 DEF TaskType
<1>5. Stored(Last, r) /\ Last \in 0 .. Top
  BY <1>2, <1>3 DEF NewPrev, Stored
<1> HIDE DEF r
<1>6. task' \in [0 .. Last -> TaskType] /\ task'[Last] = r
      /\ \A t \in 0 .. Last : t # Last => task'[t] = task[t]
  BY <1>2, <1>4, <1>5, StoredIs
<1>7. Typed'
  BY <1>1, <1>2, <1>6 DEF Typed, Pcs
<1>8. Pages'
  BY <1>1, <1>2 DEF Pages, Building
<1>9. /\ \A t \in 0 .. Last - 1 : task'[t] = task[t] /\ (Ruined(t)' <=> Ruined(t))
      /\ ~ Ruined(Last)' /\ (\A t \in 0 .. Last : t = Last \/ t \in 0 .. Last - 1)
      /\ \A t \in 1 .. Last - 1 : t \in 0 .. Last - 1
  BY <1>2, <1>4, <1>6 DEF Ruined, Wild
<1>10. Links'
  <2>1. \A t \in 0 .. Last : {task'[t].prev, task'[t].next} \subseteq (0 .. Last) \cup {Wild}
    BY <1>2, <1>3, <1>4, <1>6 DEF Links
  <2>2. \A t \in 0 .. Last :
           /\ Ruined(t)' => OnScreen(t)
           /\ ~ Ruined(t)' => task'[t].next = IF t < Last THEN t + 1 ELSE 0
    <3>1. ~ Ruined(Last)
      BY <1>1, <1>2 DEF Links
    <3> QED
      BY <1>1, <1>2, <1>4, <1>6, <1>9, <3>1 DEF Links
  <2>3. 0 \in 0 .. Last - 1
    BY <1>2
  <2> QED
    BY <1>1, <1>2, <1>3, <1>4, <1>6, <1>9, <2>1, <2>2, <2>3 DEF Links, Building
<1>11. Threads'
  <2>1. \A t \in 1 .. Last : t = Last \/ t \in 0 .. Last - 1
    BY <1>2
  <2> QED
    BY <1>1, <1>2, <1>9, <2>1 DEF Threads
<1> QED
  BY <1>7, <1>8, <1>10, <1>11 DEF IInv

\* entry->prev: the list leads back to the new task.
LEMMA EntryPrevStep ==
  ASSUME IInv, EntryPrev
  PROVE  IInv'
<1>1. pc = "entry->prev" /\ pc' = "state"
      /\ UNCHANGED <<tsk, end, memory0, row, granted, forks>>
  BY DEF EntryPrev
<1>2. Typed /\ Pages /\ Links /\ Threads /\ Last' = Last /\ Top' = Last /\ Top = Last
      /\ Last \in Nat /\ Last > 0 /\ tsk = Last
  BY <1>1, Structs DEF IInv, Last, Top, Building, Pages
<1> DEFINE r == [task[0] EXCEPT !.prev = Last]
<1>3. task[0] \in TaskType /\ task[0].prev = Last - 1 /\ task[0].prev # Wild
  BY <1>1, <1>2 DEF Typed, Links, Wild
<1>4. r \in TaskType /\ r.prev = Last /\ r.next = task[0].next
  BY <1>2, <1>3 DEF TaskType
<1>5. Stored(0, r) /\ 0 \in 0 .. Top
  BY <1>2 DEF EntryPrev, Stored
<1> HIDE DEF r
<1>6. task' \in [0 .. Last -> TaskType] /\ task'[0] = r
      /\ \A t \in 0 .. Last : t # 0 => task'[t] = task[t]
  BY <1>2, <1>4, <1>5, StoredIs
<1>7. Typed'
  BY <1>1, <1>2, <1>6 DEF Typed, Pcs
<1>8. Pages'
  BY <1>1, <1>2 DEF Pages, Building
<1>9. /\ \A t \in 0 .. Last : task'[t].next = task[t].next /\ (Ruined(t)' <=> Ruined(t))
      /\ \A t \in 1 .. Last : task'[t] = task[t] /\ t \in 0 .. Last
  BY <1>2, <1>3, <1>4, <1>6 DEF Ruined, Wild
<1>10. Links'
  <2>1. \A t \in 0 .. Last : {task'[t].prev, task'[t].next} \subseteq (0 .. Last) \cup {Wild}
    BY <1>2, <1>4, <1>6 DEF Links
  <2>2. Last \in 1 .. Last /\ \A t \in 1 .. Last - 1 : t \in 1 .. Last
    BY <1>2
  <2> QED
    BY <1>1, <1>2, <1>4, <1>6, <1>9, <2>1, <2>2 DEF Links, Building
<1>11. Threads'
  BY <1>1, <1>2, <1>9 DEF Threads
<1> QED
  BY <1>7, <1>8, <1>10, <1>11 DEF IInv

\* The stores to a struct that leave its links alone.
LEMMA FieldStep ==
  ASSUME IInv, SetState \/ SetThread \/ SetRunning \/ InitRunning
  PROVE  IInv'
<1> DEFINE k == IF pc = "return" THEN 0 ELSE tsk
           e == task[tsk]
           r == CASE pc = "state" -> [e EXCEPT !.pid = @ + 1, !.state = "UNINTERRUPTIBLE",
                                               !.thread = "own"]
                  [] pc = "thread" -> [e EXCEPT !.regs = TRUE,
                       !.rip = IF e.kthread THEN "kernel_thread_func" ELSE "ret_from_intr"]
                  [] pc = "run" -> [e EXCEPT !.state = "RUNNING"]
                  [] OTHER -> [task[0] EXCEPT !.state = "RUNNING"]
<1>1. /\ \/ pc = "state" /\ pc' = "thread"
         \/ pc = "thread" /\ pc' = "run"
         \/ pc = "run" /\ pc' = "return"
         \/ pc = "return" /\ pc' = "switch"
      /\ UNCHANGED <<tsk, end, memory0, row, granted, forks>>
  BY DEF SetState, SetThread, SetRunning, InitRunning
<1>2. Typed /\ Pages /\ Links /\ Threads /\ Last' = Last /\ Top' = Last /\ Top = Last
      /\ Last \in Nat /\ Last > 0 /\ tsk = Last
  BY <1>1, Structs DEF IInv, Last, Top, Building, Pages
<1>3. task[0] \in TaskType /\ e \in TaskType
  BY <1>2 DEF Typed
<1>4. /\ r \in TaskType /\ r.prev = task[k].prev /\ r.next = task[k].next
      /\ pc = "state" => r.thread = "own" /\ r.state # "RUNNING"
      /\ pc = "thread" => r.thread = e.thread /\ r.regs /\ r.rip # "other" /\ r.state = e.state
      /\ pc = "run" => r.thread = e.thread /\ r.regs = e.regs /\ r.rip = e.rip
  <2>1. CASE pc = "state"
    <3>1. r = [e EXCEPT !.pid = e.pid + 1, !.state = "UNINTERRUPTIBLE", !.thread = "own"]
          /\ k = tsk
      BY <2>1
    <3>2. e.pid + 1 \in Nat
      BY <1>3 DEF TaskType
    <3> HIDE DEF r, k
    <3>3. r \in TaskType
      BY <1>3, <3>1, <3>2 DEF TaskType
    <3> HIDE DEF e
    <3>4. r.prev = e.prev /\ r.next = e.next /\ r.thread = "own" /\ r.state = "UNINTERRUPTIBLE"
      BY <1>3, <3>1 DEF TaskType
    <3> QED
      BY <2>1, <3>1, <3>3, <3>4 DEF e
  <2>2. CASE pc = "thread"
    <3>1. r = [e EXCEPT !.regs = TRUE,
                 !.rip = IF e.kthread THEN "kernel_thread_func" ELSE "ret_from_intr"] /\ k = tsk
      BY <2>2
    <3> HIDE DEF r, k
    <3> QED
      BY <1>3, <2>2, <3>1 DEF TaskType
  <2>3. CASE pc = "run"
    <3>1. r = [e EXCEPT !.state = "RUNNING"] /\ k = tsk
      BY <2>3
    <3> HIDE DEF r, k
    <3> QED
      BY <1>3, <2>3, <3>1 DEF TaskType
  <2>4. CASE pc = "return"
    <3>1. r = [task[0] EXCEPT !.state = "RUNNING"] /\ k = 0
      BY <2>4
    <3> HIDE DEF r, k
    <3> QED
      BY <1>3, <2>4, <3>1 DEF TaskType
  <2> QED
    BY <1>1, <2>1, <2>2, <2>3, <2>4
<1>5. Stored(k, r)
  <2>1. CASE SetState
    BY <2>1 DEF SetState, Stored
  <2>2. CASE SetThread
    BY <2>2 DEF SetThread, Stored
  <2>3. CASE SetRunning
    BY <2>3 DEF SetRunning, Stored
  <2>4. CASE InitRunning
    BY <2>4 DEF InitRunning, Stored
  <2> QED
    BY <2>1, <2>2, <2>3, <2>4
<1>6. k \in 0 .. Last /\ (pc # "return" => k = Last) /\ (pc = "return" => k = 0) /\ e = task[Last]
  BY <1>2
<1> HIDE DEF r, k, e
<1>7. task' \in [0 .. Last -> TaskType] /\ task'[k] = r
      /\ \A t \in 0 .. Last : t # k => task'[t] = task[t]
  BY <1>2, <1>4, <1>5, <1>6, StoredIs
<1>8. Typed'
  BY <1>1, <1>2, <1>7 DEF Typed, Pcs
<1>9. Pages'
  BY <1>1, <1>2 DEF Pages, Building
<1>10. \A t \in 0 .. Last : task'[t].next = task[t].next /\ task'[t].prev = task[t].prev
                            /\ (Ruined(t)' <=> Ruined(t))
  BY <1>4, <1>7 DEF Ruined
<1>11. Links'
  <2>1. \A t \in 1 .. Last - 1 : t \in 0 .. Last
    BY <1>2
  <2>2. 0 \in 0 .. Last /\ Last \in 0 .. Last
    BY <1>2
  <2> QED
    BY <1>1, <1>2, <1>10, <2>1, <2>2 DEF Links, Building
<1>12. Threads'
  <2>1. \A t \in 1 .. Last : t \in 0 .. Last /\ (t # k => task'[t] = task[t]) /\ t # 0
    BY <1>2, <1>7
  <2>2. Last \in 1 .. Last
    BY <1>2
  <2> QED
    BY <1>1, <1>2, <1>4, <1>6, <1>7, <2>1, <2>2 DEF Threads
<1> QED
  BY <1>8, <1>9, <1>11, <1>12 DEF IInv

-----------------------------------------------------------------------------
(* The theorems *)

\* The invariant holds always.
THEOREM Invariance ==
  Spec => []IInv
<1>1. Init => IInv
  <2> SUFFICES ASSUME Init
               PROVE  IInv
    OBVIOUS
  <2>1. Last = 0 /\ Top = 0 /\ pc = "task_init" /\ granted = 0 /\ forks = <<>> /\ ~ Building
        /\ task = [p \in {0} |-> InitTask] /\ 0 .. 0 = {0} /\ 1 .. 0 = {}
    BY DEF Init, Last, Top, Building
  <2>2. InitTask \in TaskType /\ InitTask.prev = Wild /\ InitTask.next = Wild
    BY DEF InitTask, Cleared, TaskType
  <2>3. task \in [0 .. 0 -> TaskType] /\ task[0] = InitTask
    BY <2>1, <2>2
  <2>4. Typed
    BY <2>1, <2>3 DEF Typed, Init, Pcs
  <2>5. Pages
    <3>1. end \in 2 .. 63
      BY MachinesAssumption DEF Init
    <3> QED
      BY <2>1, <3>1 DEF Pages
  <2>6. Links
    BY <2>1, <2>2, <2>3 DEF Links
  <2>7. Threads
    BY <2>1 DEF Threads
  <2> QED
    BY <2>4, <2>5, <2>6, <2>7 DEF IInv
<1>2. IInv /\ [Next]_vars => IInv'
  <2> SUFFICES ASSUME IInv, [Next]_vars
               PROVE  IInv'
    OBVIOUS
  <2>1. CASE Next
    BY <2>1, IdleStep, TaskInitStep, PrintStep, CopyStep, NewNextStep, PrevNextStep,
       NewPrevStep, EntryPrevStep, FieldStep
       DEF Next, do_fork
  <2>2. CASE UNCHANGED vars
    BY <2>2 DEF vars, IInv, Typed, Pages, Links, Threads, Last, Top, Building, Ruined
  <2> QED
    BY <2>1, <2>2
<1> QED
  BY <1>1, <1>2, PTL DEF Spec

\* On every machine do_fork takes no more pages than the zone has, and every
\* struct lies in RAM of its own or on the screen.
THEOREM TypeCorrect ==
  Spec => []TypeOK
<1>1. IInv => TypeOK
  <2> SUFFICES ASSUME IInv
               PROVE  TypeOK
    OBVIOUS
  <2>1. Typed /\ Pages /\ Links
    BY DEF IInv
  <2>2. Last \in Nat /\ Top \in Nat /\ DOMAIN task = 0 .. Top /\ granted \in Nat
        /\ end \in 2 .. 63 /\ Top <= 61
    BY Structs
  <2>3. Last <= granted /\ Top <= granted
    BY <2>1, <2>2 DEF Pages, Top
  <2>4. \A p \in DOMAIN task \ {0} : FrameAt(p) = p \/ OnScreen(p)
    <3>1. \A p \in (0 .. Top) \ {0} : p \in 1 .. Top /\ p \in 0 .. 63
      BY <2>2
    <3> QED
      BY <2>1, <2>2, <3>1, Frames DEF Pages
  <2>5. \A p \in DOMAIN task : task[p].prev \in DOMAIN task \cup {Wild}
                               /\ task[p].next \in DOMAIN task \cup {Wild}
    BY <2>1, <2>2 DEF Links
  <2> QED
    BY <2>1, <2>2, <2>3, <2>4, <2>5 DEF TypeOK, Typed, Pages, Last
<1> QED
  BY <1>1, Invariance, PTL

\* However many forks, on every machine and whatever lies at address 0: the
\* list leads through all tasks between any two stores of list_add_before, but
\* for those that were printed over, and a listed task that is RUNNING has its
\* thread, registers and start address.
THEOREM ListStaysWhole ==
  Spec => []ListedTasks
<1>1. IInv => ListedTasks
  <2> SUFFICES ASSUME IInv, pc # "task_init", NEW i \in 0 .. Last
               PROVE  LET t == Neighbour(i)
                      IN /\ Ruined(t) => OnScreen(t)
                         /\ ~ Ruined(t) /\ (i > 0 \/ forks # <<>>) => task[t].next = Neighbour(i + 1)
                         /\ ~ Ruined(t) /\ pc \notin {"new->prev", "entry->prev"} =>
                              task[t].prev = IF i = 0 THEN Neighbour(Last) ELSE Neighbour(i - 1)
                         /\ task[t].state = "RUNNING" /\ t # 0 =>
                              \/ task[t].thread = "own" /\ task[t].regs /\ task[t].rip # "other"
                              \/ t = tsk /\ pc \in {"new->prev", "entry->prev", "state"}
    BY DEF ListedTasks, Last
  <2>1. Links /\ Threads /\ Last \in Nat
    BY Structs DEF IInv
  <2>2. \A j \in 0 .. Last + 1 : Neighbour(j) = IF j <= Last THEN j ELSE 0
    <3>1. DOMAIN forks = 1 .. Last /\ \A j \in 1 .. Last : forks[j] = j
      BY DEF IInv, Typed, Last
    <3> QED
      BY <2>1, <3>1 DEF Neighbour
  <2>3. Neighbour(i) = i /\ Neighbour(i + 1) = (IF i < Last THEN i + 1 ELSE 0)
        /\ Neighbour(Last) = Last /\ (i # 0 => Neighbour(i - 1) = i - 1)
    BY <2>1, <2>2
  <2>4. /\ Ruined(i) => OnScreen(i)
        /\ ~ Ruined(i) => task[i].next = Neighbour(i + 1)
    BY <2>1, <2>3 DEF Links
  <2>5. ~ Ruined(i) /\ pc \notin {"new->prev", "entry->prev"} =>
          task[i].prev = IF i = 0 THEN Last ELSE i - 1
    <3>1. i = 0 \/ i \in 1 .. Last - 1 \/ (i = Last /\ Last > 0)
      BY <2>1
    <3> QED
      BY <2>1, <3>1 DEF Links
  <2>6. task[i].state = "RUNNING" /\ i # 0 =>
          \/ task[i].thread = "own" /\ task[i].regs /\ task[i].rip # "other"
          \/ i = tsk /\ pc \in {"new->prev", "entry->prev", "state"}
    BY <2>1 DEF Threads
  <2> QED
    BY <2>3, <2>4, <2>5, <2>6
<1> QED
  BY <1>1, Invariance, PTL
==============================================================================
