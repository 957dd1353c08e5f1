-------------------------------- MODULE Tasks --------------------------------
(***************************************************************************)
(* task_init, kernel_thread and do_fork, one step per store to the task    *)
(* list, and switch_to.  A task is the number of the 2MB page that holds   *)
(* its task_struct, its thread_struct and, 32KB up, its pt_regs; task 0 is *)
(* init_task_union.  Start_Kernel never left the stack of head.S, so the   *)
(* task that current finds is not init_task_union but the memory at        *)
(* physical address 0; and the pages from 5 on are the screen do_fork      *)
(* prints to.  No key comes (module KeyboardIrq is about those).           *)
(***************************************************************************)
EXTENDS PageTables, Sequences

CONSTANTS
  InitTaskUnion,  \* where the linker puts it, an offset from PAGE_OFFSET
  Machines        \* zone_end_addr of machines with one zone, in pages

STACK_SIZE == 32768

\* kernel.lds: behind the kernel's code at 1MB, aligned.
ASSUME LinkerAssumption ==
  /\ InitTaskUnion \in Nat /\ InitTaskUnion >= 1048576
  /\ InitTaskUnion % STACK_SIZE = 0

ASSUME MachinesAssumption == Machines \subseteq 2 .. 63

VARIABLES
  pc,        \* the next step, "fault" or "running" at the end
  tsk,       \* do_fork's tsk
  task,      \* task -> what the model keeps of its structs
  end,       \* the machine
  memory0,   \* what a task_struct at physical address 0 reads
  row,       \* Pos.yPos
  granted,   \* pages do_fork got
  forks,     \* history: tasks linked, the eldest first
  fault      \* where the kernel ended: "none", "do_fork" or "switch_to"

vars == <<pc, tsk, task, end, memory0, row, granted, forks, fault>>

-----------------------------------------------------------------------------
(* Memory *)

Wild == -1      \* a pointer that is not canonical or not mapped

\* The interrupt vectors of the BIOS.
Memory0 == [prev : {Wild}, next : {Wild}, state : {"RUNNING", "other"}, kthread : BOOLEAN,
            pid : {0}, thread : {"other"}, rip : {"other"}, regs : {FALSE}]

Cleared == [prev |-> Wild, next |-> Wild, state |-> "other", kthread |-> FALSE, pid |-> 0,
            thread |-> "other", rip |-> "other", regs |-> FALSE]

\* INIT_TASK.
InitTask == [Cleared EXCEPT !.state = "UNINTERRUPTIBLE", !.kthread = TRUE, !.thread = "own"]

StackPointer_Mutant == InitTaskUnion + STACK_SIZE - 8  \* _stack_start loaded

\* head.S: 0x7E00, and at least one word pushed.
StackPointer == 32256 - 8

current == (StackPointer \div STACK_SIZE) * STACK_SIZE
CurrentTask == IF current = InitTaskUnion THEN task[0] ELSE memory0

\* The page allocator, for single pages: the next page of the only zone, which
\* page 0 is charged to (PageAlloc's FreshWhileLowFree and CountsMatch).
FreePages_Mutant == end - 1  \* page 0 not charged
FreePages == end - 2

-----------------------------------------------------------------------------
(* The screen: 1440 x 900 pixels of 4 bytes, characters of 8 x 16 *)

Rows == 56
OnScreen(p) == FrameAt(p) >= FrameBuffer

\* The row of text with the first 38 pixels of page p, the structs.  They are the
\* columns 0, 16 or 32 and four more: a line of do_fork, of 37 characters
\* or more, covers them all, and never the pt_regs, in column 94 and above.
TextRow(p) == (((FrameAt(p) - FrameBuffer) * 524288) \div 1440) \div 16

\* n lines printed.
Struck(n) == {p \in DOMAIN task : OnScreen(p) /\ TextRow(p) \in {(row + k) % Rows : k \in 0 .. n - 1}}
color_printk(n) ==
  /\ task' = [p \in DOMAIN task |->
                IF p \in Struck(n) THEN [Cleared EXCEPT !.regs = task[p].regs] ELSE task[p]]
  /\ row' = (row + n) % Rows

-----------------------------------------------------------------------------
(* task_init up to the call of kernel_thread *)

TaskInit ==
  /\ pc = "task_init"
  /\ task' = [task EXCEPT ![0].prev = 0, ![0].next = 0]
  /\ pc' = "do_fork"
  /\ UNCHANGED <<tsk, end, memory0, row, granted, forks, fault>>

-----------------------------------------------------------------------------
(* do_fork *)

Stop(where) == pc' = "fault" /\ fault' = where

AllocPage ==
  /\ pc = "do_fork"
  /\ granted < FreePages
  /\ color_printk(2)
  /\ granted' = granted + 1 /\ tsk' = granted + 1
  /\ pc' = "tsk"
  /\ UNCHANGED <<end, memory0, forks, fault>>

\* p is NULL, and p->PHY_address in the half that init_memory unmapped.
AllocNone ==
  /\ pc = "do_fork"
  /\ granted >= FreePages
  /\ color_printk(2)
  /\ Stop("do_fork")
  /\ UNCHANGED <<tsk, end, memory0, granted, forks>>

PrintAddress ==
  /\ pc = "tsk"
  /\ color_printk(1)
  /\ pc' = "memset"
  /\ UNCHANGED <<tsk, end, memory0, granted, forks, fault>>

\* memset, *tsk = *current, list_init.
Copy ==
  /\ pc = "memset" /\ FrameAt(tsk) # NotMapped
  /\ task' = [p \in DOMAIN task \cup {tsk} |->
                IF p = tsk THEN [CurrentTask EXCEPT !.prev = tsk, !.next = tsk,
                                                    !.rip = "other", !.regs = FALSE,
                                                    !.thread = "other"]
                ELSE task[p]]
  /\ pc' = "new->next"
  /\ UNCHANGED <<tsk, end, memory0, row, granted, forks, fault>>

ClearFaults ==
  /\ pc = "memset" /\ FrameAt(tsk) = NotMapped
  /\ Stop("do_fork")
  /\ UNCHANGED <<tsk, task, end, memory0, row, granted, forks>>

\* The four stores of list_add_before.
NewNext ==
  /\ pc = "new->next"
  /\ task' = [task EXCEPT ![tsk].next = 0]
  /\ pc' = "prev->next"
  /\ UNCHANGED <<tsk, end, memory0, row, granted, forks, fault>>

PrevNext_Mutant ==  \* the list's head instead of its last node
  /\ pc = "prev->next"
  /\ task' = [task EXCEPT ![0].next = tsk]
  /\ forks' = Append(forks, tsk)
  /\ pc' = "new->prev"
  /\ UNCHANGED <<tsk, end, memory0, row, granted, fault>>

PrevNext ==
  /\ pc = "prev->next"
  /\ task' = [task EXCEPT ![task[0].prev].next = tsk]
  /\ forks' = Append(forks, tsk)
  /\ pc' = "new->prev"
  /\ UNCHANGED <<tsk, end, memory0, row, granted, fault>>

NewPrev ==
  /\ pc = "new->prev"
  /\ task' = [task EXCEPT ![tsk].prev = task[0].prev]
  /\ pc' = "entry->prev"
  /\ UNCHANGED <<tsk, end, memory0, row, granted, forks, fault>>

EntryPrev ==
  /\ pc = "entry->prev"
  /\ task' = [task EXCEPT ![0].prev = tsk]
  /\ pc' = "state"
  /\ UNCHANGED <<tsk, end, memory0, row, granted, forks, fault>>

\* ++pid, TASK_UNINTERRUPTIBLE and tsk->thread.
SetState ==
  /\ pc = "state"
  /\ task' = [task EXCEPT ![tsk].pid = @ + 1, ![tsk].state = "UNINTERRUPTIBLE",
                          ![tsk].thread = "own"]
  /\ pc' = "thread"
  /\ UNCHANGED <<tsk, end, memory0, row, granted, forks, fault>>

\* The pt_regs and the thread_struct.
SetThread ==
  /\ pc = "thread"
  /\ task' = [task EXCEPT ![tsk].regs = TRUE,
                ![tsk].rip = IF task[tsk].kthread THEN "kernel_thread_func" ELSE "ret_from_intr"]
  /\ pc' = "run"
  /\ UNCHANGED <<tsk, end, memory0, row, granted, forks, fault>>

SetRunning ==
  /\ pc = "run"
  /\ task' = [task EXCEPT ![tsk].state = "RUNNING"]
  /\ pc' = "return"
  /\ UNCHANGED <<tsk, end, memory0, row, granted, forks, fault>>

-----------------------------------------------------------------------------
(* task_init after kernel_thread *)

\* task_init calls kernel_thread once; one more thread is what it is there for.
ForkAgain ==
  /\ pc = "return"
  /\ pc' = "do_fork"
  /\ UNCHANGED <<tsk, task, end, memory0, row, granted, forks, fault>>

InitRunning ==
  /\ pc = "return"
  /\ task' = [task EXCEPT ![0].state = "RUNNING"]
  /\ pc' = "switch"
  /\ UNCHANGED <<tsk, end, memory0, row, granted, forks, fault>>

\* p is the task behind current's list.next, and switch_to reads p->thread.
\* "running" is where __switch_to begins: what comes there is not modelled.
SwitchTo ==
  /\ pc = "switch"
  /\ IF CurrentTask.next # Wild /\ task[CurrentTask.next].thread = "own"
     THEN pc' = "running" /\ UNCHANGED fault
     ELSE Stop("switch_to")
  /\ UNCHANGED <<tsk, task, end, memory0, row, granted, forks>>

-----------------------------------------------------------------------------
Init ==
  /\ pc = "task_init" /\ tsk = 0
  /\ task = [p \in {0} |-> InitTask]
  /\ end \in Machines
  /\ memory0 \in Memory0
  /\ row \in 0 .. Rows - 1
  /\ granted = 0 /\ forks = <<>> /\ fault = "none"

do_fork ==
  \/ AllocPage \/ AllocNone \/ PrintAddress \/ Copy \/ ClearFaults
  \/ NewNext \/ PrevNext \/ NewPrev \/ EntryPrev
  \/ SetState \/ SetThread \/ SetRunning

Next == TaskInit \/ do_fork \/ ForkAgain \/ InitRunning \/ SwitchTo

\* Start_Kernel runs alone.
Spec == Init /\ [][Next]_vars /\ WF_vars(Next)

-----------------------------------------------------------------------------
(* Properties *)

Pcs == {"task_init", "do_fork", "tsk", "memset", "new->next", "prev->next", "new->prev",
        "entry->prev", "state", "thread", "run", "return", "switch", "running", "fault"}

\* No more tasks than the counters of the zone allow, and every struct in
\* memory that is there: RAM of its own or the screen's.
TypeOK ==
  /\ pc \in Pcs
  /\ Len(forks) <= granted /\ granted <= end - 2
  /\ DOMAIN task \subseteq 0 .. granted
  /\ \A p \in DOMAIN task \ {0} : FrameAt(p) = p \/ OnScreen(p)
  /\ \A p \in DOMAIN task : task[p].prev \in DOMAIN task \cup {Wild}
                            /\ task[p].next \in DOMAIN task \cup {Wild}
  /\ row \in 0 .. Rows - 1

\* Printed over: what no do_fork wrote.
Ruined(p) == task[p].prev = Wild
Neighbour(i) == IF i \in DOMAIN forks THEN forks[i] ELSE 0

\* Between any two stores of list_add_before the list leads from
\* init_task_union forwards through all tasks in the order of their forks,
\* and backwards too once the new one is in; it breaks only at a task that
\* lies on the screen.  A task in the list that is RUNNING has what
\* switch_to needs, but for the one do_fork has just copied from a parent
\* that is RUNNING.
ListedTasks ==
  pc # "task_init" =>
    \A i \in 0 .. Len(forks) :
      LET t == Neighbour(i)
      IN /\ Ruined(t) => OnScreen(t)
         /\ ~ Ruined(t) /\ (i > 0 \/ forks # <<>>) => task[t].next = Neighbour(i + 1)
         /\ ~ Ruined(t) /\ pc \notin {"new->prev", "entry->prev"} =>
              task[t].prev = IF i = 0 THEN Neighbour(Len(forks)) ELSE Neighbour(i - 1)
         /\ task[t].state = "RUNNING" /\ t # 0 =>
              \/ task[t].thread = "own" /\ task[t].regs /\ task[t].rip # "other"
              \/ t = tsk /\ pc \in {"new->prev", "entry->prev", "state"}

\* task_init ends in a fault on every machine and no task ever runs: when
\* do_fork has used up the 12 pages that are mapped, or the free ones, and
\* else in switch_to.
NoTaskRuns ==
  <>[](/\ pc = "fault"
       /\ fault = "do_fork" => Len(forks) = IF FreePages < 12 THEN FreePages ELSE 12)
==============================================================================
