----------------------------- MODULE SeamCalls -----------------------------
(***************************************************************************)
(* The calls of SeamTasks, SeamNotify, SeamGroups and SeamBuffers made by  *)
(* the tasks of one machine, and by the interrupt half of its tick.        *)
(***************************************************************************)
EXTENDS SeamNotify, SeamGroups, SeamBuffers

vars == <<taskVars, notifyVars, groupVars, bufferVars>>

(* What the C keeps of the group and of the buffer it made, and the port.  *)
Objects ==
  [op \in GroupOps \cup StreamOps \cup WireOps |->
     IF op \in GroupOps THEN made ELSE IF op \in StreamOps THEN xStreamBuffer ELSE PORT]

Init == TaskInit /\ NotifyInit /\ GroupInit /\ BufferInit

Tasks == \E t \in Slots : TaskCall(t) \/ Enter(t, Objects)
Notifies == \E t \in Slots : NotifyCall(t)
Groups == \E t \in Slots : GroupCall(t) \/ timer_daemon(t)
Buffers == \E t \in Slots : BufferCall(t)

(* A tick comes with at most one call of an interrupt half.                *)
NotifyIsr == \E c \in program.isr : xTaskGenericNotifyFromISR(c) \/ vTaskGenericNotifyGiveFromISR(c)
GroupIsr == \E c \in program.isr : xEventGroupSetBitsFromISR(c) \/ xEventGroupClearBitsFromISR(c)
BuffersIsr == \E c \in program.isr : BufferIsr(c)

Next ==
  \/ (main \/ pick_next \/ Tasks \/ SysTick({})) /\ NewUnnotified /\ UNCHANGED <<groupVars, bufferVars>>
  \/ (Notifies \/ NotifyIsr) /\ UNCHANGED <<groupVars, bufferVars>>
  \/ (Groups \/ GroupIsr) /\ UNCHANGED <<notifyVars, bufferVars>>
  \/ (Buffers \/ BuffersIsr) /\ UNCHANGED <<notifyVars, groupVars>>

Spec == Init /\ [][Next]_vars

TypesOK == TypeOK /\ NotifyTypeOK /\ GroupTypeOK /\ BufferTypeOK
=============================================================================
