------------------------------ MODULE TaskList ------------------------------
(***************************************************************************)
(* The doubly linked list of tasks and the current task (src/task/task.c). *)
(*                                                                         *)
(* next and prev are the fields in memory: they keep their values when a   *)
(* task is freed, and an address is free to be reused by a later task_new  *)
(* (kzalloc clears the fields).  NULL is mapped memory in this kernel, so  *)
(* a store through a NULL pointer changes prev[NULL] or next[NULL] and the *)
(* code goes on.  What task_new does when memory runs out is left out: it  *)
(* hands a NULL task to task_free, whose page directory is whatever the    *)
(* first bytes of memory hold.                                             *)
(***************************************************************************)
EXTENDS Integers, Sequences

CONSTANTS
  Tasks,   \* addresses of struct task
  NoTask   \* NULL

ASSUME TasksAssumption == NoTask \notin Tasks

VARIABLES
  task_head, task_tail, current_task,
  next, prev,   \* the fields of every address
  order,        \* history: the allocated tasks, oldest first
  headFreed     \* history: the first task was freed while there were others

taskVars == <<task_head, task_tail, current_task, next, prev, order, headFreed>>

Address == Tasks \cup {NoTask}
Live == {order[k] : k \in 1 .. Len(order)}

TaskInit ==
  /\ task_head = NoTask /\ task_tail = NoTask /\ current_task = NoTask
  /\ next = [a \in Address |-> NoTask] /\ prev = [a \in Address |-> NoTask]
  /\ order = <<>> /\ headFreed = FALSE

(* The new task is zeroed memory.                                          *)
First(t) ==
  /\ task_head = NoTask
  /\ task_head' = t /\ task_tail' = t
  /\ next' = [next EXCEPT ![t] = NoTask]
  /\ prev' = [prev EXCEPT ![t] = NoTask]

(* Does not set the new task's prev.                                       *)
Mut_AtEnd(t) ==
  /\ task_head # NoTask
  /\ next' = [next EXCEPT ![t] = NoTask, ![task_tail] = t]
  /\ prev' = [prev EXCEPT ![t] = NoTask]
  /\ task_tail' = t
  /\ UNCHANGED task_head

AtEnd(t) ==
  /\ task_head # NoTask
  /\ next' = [next EXCEPT ![t] = NoTask, ![task_tail] = t]
  /\ prev' = [prev EXCEPT ![t] = task_tail]
  /\ task_tail' = t
  /\ UNCHANGED task_head

task_new(t) ==
  /\ t \notin Live
  /\ First(t) \/ AtEnd(t)
  /\ order' = Append(order, t)
  /\ UNCHANGED <<current_task, headFreed>>

task_get_next(head, nxt, t) == IF nxt[t] = NoTask THEN head ELSE nxt[t]

(* Leaves the predecessor pointing at the freed task.                      *)
Mut_Unlink(t) ==
  \/ prev[t] = NoTask /\ UNCHANGED <<next, prev>>
  \/ /\ prev[t] # NoTask
     /\ prev' = [prev EXCEPT ![next[t]] = prev[t]]
     /\ UNCHANGED next

(* task->next->prev is stored even when task->next is NULL.                *)
Unlink(t) ==
  \/ prev[t] = NoTask /\ UNCHANGED <<next, prev>>
  \/ /\ prev[t] # NoTask
     /\ next' = [next EXCEPT ![prev[t]] = next[t]]
     /\ prev' = [prev EXCEPT ![next[t]] = prev[t]]

(* Leaves current_task alone.                                              *)
Mut_keep_current(t) ==
  /\ Unlink(t)
  /\ task_head' = IF t = task_head THEN next'[t] ELSE task_head
  /\ task_tail' = IF t = task_tail THEN prev'[t] ELSE task_tail
  /\ UNCHANGED current_task

task_list_remove(t) ==
  /\ Unlink(t)
  /\ task_head' = IF t = task_head THEN next'[t] ELSE task_head
  /\ task_tail' = IF t = task_tail THEN prev'[t] ELSE task_tail
  /\ current_task' = IF t = current_task THEN task_get_next(task_head', next', t)
                                         ELSE current_task

(* Panics, and never returns, for any task but the first.                  *)
task_run_as_task0(t) ==
  /\ t = task_head
  /\ current_task' = t
  /\ UNCHANGED <<task_head, task_tail, next, prev, order, headFreed>>

Create == \E t \in Tasks : task_new(t)
Start == \E t \in Live : task_run_as_task0(t)

(* A sequence without its k-th member.                                     *)
Without(s, k) == [j \in 1 .. Len(s) - 1 |-> IF j < k THEN s[j] ELSE s[j + 1]]

task_free ==
  \E k \in 1 .. Len(order) :
    /\ task_list_remove(order[k])
    /\ order' = Without(order, k)
    /\ headFreed' = (headFreed \/ (k = 1 /\ Len(order) > 1))

TaskNext == Create \/ Start \/ task_free
TaskSpec == TaskInit /\ [][TaskNext]_taskVars
-----------------------------------------------------------------------------
(* Types of the state.                                                     *)
TypeOK ==
  /\ {task_head, task_tail, current_task} \subseteq Address
  /\ next \in [Address -> Address] /\ prev \in [Address -> Address]
  /\ order \in Seq(Tasks)
  /\ headFreed \in BOOLEAN

(* As long as the first task is not freed before the others, the list holds*)
(* exactly the allocated tasks, oldest first, and its ends are where       *)
(* task_head and task_tail point.  The kernel itself frees only a task it  *)
(* has just created (process_load_for_slot).  Freeing the first task       *)
(* leaves its successor's prev pointing at freed memory, which a later     *)
(* task_new may get and a later task_free then writes to.                  *)
ListIsLive ==
  ~ headFreed =>
    IF order = <<>> THEN task_head = NoTask /\ task_tail = NoTask
    ELSE /\ task_head = order[1]
         /\ task_tail = order[Len(order)]
         /\ \A k \in 1 .. Len(order) :
              next[order[k]] = IF k = Len(order) THEN NoTask ELSE order[k + 1]

(* Under the same condition the current task, if any, is allocated: a      *)
(* freed task is never resumed.                                            *)
CurrentIsLive == ~ headFreed => current_task \in Live \cup {NoTask}

(* "Previous task in the linked list" (task.h:41), under that condition.   *)
PrevIsPrevious ==
  ~ headFreed =>
    \A k \in 1 .. Len(order) :
      prev[order[k]] = IF k = 1 THEN NoTask ELSE order[k - 1]
=============================================================================
