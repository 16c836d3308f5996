---------------------------- MODULE SeamNotify ----------------------------
(***************************************************************************)
(* Task notifications: a value and a state per task, and the calls on      *)
(* them.  xTaskNotifyAndQuery reads the previous value in one kernel call  *)
(* and notifies in another.                                                *)
(*                                                                         *)
(* A call's x names the notify action, what a wait clears or how a take    *)
(* counts; n is the value given or the block time.                         *)
(***************************************************************************)
EXTENDS SeamTasks

CONSTANTS Width, \* the value's modulus, 2^32 in the code
          Notified \* the value an action with an argument carries

ASSUME WidthAssumption == Width \in Nat \ {0, 1} /\ Notified \in 0 .. Width - 1

VARIABLES
  nval,    \* per task, its notification value
  nstate,  \* per task, whether it waits for a notification or has received one
  prev,    \* per caller, the value xTaskNotifyAndQuery read
  meddled, \* history: callers whose target's value others touched since
  due      \* history: gives the C made of a task less those it was told of

notifyVars == <<nval, nstate, prev, meddled, due>>

Actions == {"none", "bits", "inc", "over", "noover"}
notify_action(x) == x \in Actions

-----------------------------------------------------------------------------
(* The kernel's notify: the action on the value, and a waiter woken.       *)

NewValue(s, x) ==
  CASE x = "none" -> nval[s]
    [] x = "bits" -> IF nval[s] % 2 = 0 THEN (nval[s] + 1) % Width ELSE nval[s]
    [] x = "inc" -> (nval[s] + 1) % Width
    [] OTHER -> Notified

Disturbed(who) ==
  {u \in Slots : pc[u] = "mid" /\ call[u].op = "query" /\ Named(u, call[u].p) \cap who # {}}

Refused(s, x) == x = "noover" /\ nstate[s] = "received"

notify(s, x) ==
  /\ nval' = [nval EXCEPT ![s] = NewValue(s, x)]
  /\ nstate' = [nstate EXCEPT ![s] = "received"]
  /\ due' = [due EXCEPT ![s] = IF x = "inc" THEN (@ + 1) % Width ELSE @]
  /\ meddled' = meddled \cup Disturbed({s})

Roused(s) == IF nstate[s] = "waiting" /\ k.st[s] = "blocked" THEN {s} ELSE {}

(* Nobody has notified a task that was only just made.                     *)
NewTasks == {s \in Slots : k.st[s] = "free" /\ k'.st[s] # "free"}
NewUnnotified ==
  /\ nval' = [s \in Slots |-> IF s \in NewTasks THEN 0 ELSE nval[s]]
  /\ nstate' = [s \in Slots |-> IF s \in NewTasks THEN "none" ELSE nstate[s]]
  /\ due' = [s \in Slots |-> IF s \in NewTasks THEN 0 ELSE due[s]]
  /\ UNCHANGED <<prev, meddled>>

-----------------------------------------------------------------------------
(* xTaskGenericNotify.  NULL names nobody here, and is refused with what   *)
(* is no action.  The out-parameter is written first, in a kernel call of  *)
(* its own, and with 0 for a task there is none of.                        *)

ValueAfter(s, x) == NewValue(s, x)
ValueBefore(s, x) == nval[s]
Query(t) ==
  /\ Calling(t, "query")
  /\ \/ /\ call[t].p = NULL \/ ~notify_action(call[t].x)
        /\ Goto(t, "c")
        /\ UNCHANGED prev
     \/ /\ call[t].p # NULL /\ notify_action(call[t].x)
        /\ \/ Named(t, call[t].p) = {} /\ prev' = [prev EXCEPT ![t] = 0]
           \/ \E s \in Named(t, call[t].p) :
                prev' = [prev EXCEPT ![t] = ValueBefore(s, call[t].x)]
        /\ Goto(t, "mid")
  /\ meddled' = meddled \ {t}
  /\ UNCHANGED <<k, owed, still, nval, nstate, due>>

xTaskGenericNotify(t) ==
  /\ Calling(t, "notify") \/ (At(t, "mid") /\ call[t].op = "query")
  /\ LET to == IF call[t].p = NULL \/ ~notify_action(call[t].x) THEN {}
               ELSE {s \in Named(t, call[t].p) : ~Refused(s, call[t].x)} IN
       \/ /\ to = {}
          /\ Goto(t, "c")
          /\ UNCHANGED <<k, notifyVars>>
       \/ \E s \in to :
            /\ notify(s, call[t].x)
            /\ k' = Wake(k, Roused(s))
            /\ Goto(t, "yield")
            /\ UNCHANGED prev
  /\ UNCHANGED <<owed, still>>

(* xTaskGenericNotifyWait, clearing on entry, on exit, or neither.         *)
xTaskGenericNotifyWait(t) ==
  /\ Looping(t, "notifywait")
  /\ \/ /\ nstate[t] = "received" \/ TimedOut(t)
        /\ nval' = [nval EXCEPT ![t] = IF call[t].x = "exit" THEN 0 ELSE @]
        /\ nstate' = [nstate EXCEPT ![t] = "none"]
        /\ Goto(t, "c")
        /\ UNCHANGED k
     \/ /\ nstate[t] # "received" /\ ~TimedOut(t)
        /\ nval' = [nval EXCEPT ![t] =
             IF call[t].x = "entry" /\ nstate[t] = "none" THEN 0 ELSE @]
        /\ nstate' = [nstate EXCEPT ![t] = IF call[t].n = 0 THEN "none" ELSE "waiting"]
        /\ k' = Parked(t)
        /\ Goto(t, "blocked")
  /\ meddled' = meddled \cup Disturbed({t})
  /\ UNCHANGED <<owed, still, prev, due>>

(* ulTaskGenericNotifyTake answers the count and clears it or takes one    *)
(* off.  The C counts what it was told, or one.                            *)
Swapped(t) == call[t].x # "clear"
ClearsCount(t) == call[t].x = "clear"
xTaskNotifyTakes(t) ==
  /\ nval' = [nval EXCEPT ![t] = IF ClearsCount(t) THEN 0 ELSE @ - 1]
  /\ due' = [due EXCEPT ![t] = (@ + Width - (IF call[t].x = "clear" THEN nval[t] ELSE 1)) % Width]
ulTaskGenericNotifyTake(t) ==
  /\ Looping(t, "take")
  /\ \/ /\ nval[t] > 0
        /\ xTaskNotifyTakes(t)
        /\ nstate' = [nstate EXCEPT ![t] = "none"]
        /\ Goto(t, "c")
        /\ UNCHANGED k
     \/ /\ nval[t] = 0 /\ TimedOut(t)
        /\ nstate' = [nstate EXCEPT ![t] = "none"]
        /\ Goto(t, "c")
        /\ UNCHANGED <<k, nval, due>>
     \/ /\ nval[t] = 0 /\ ~TimedOut(t)
        /\ nstate' = [nstate EXCEPT ![t] = IF call[t].n = 0 THEN "none" ELSE "waiting"]
        /\ k' = Parked(t)
        /\ Goto(t, "blocked")
        /\ UNCHANGED <<nval, due>>
  /\ meddled' = meddled \cup Disturbed({t})
  /\ UNCHANGED <<owed, still, prev>>

(* The state cleared, and the value cleared: the C is told what it was.    *)
xTaskGenericNotifyStateClear(t) ==
  /\ Calling(t, "stateclear")
  /\ nstate' = [s \in Slots |-> IF s \in Named(t, call[t].p) /\ nstate[s] = "received"
                                  THEN "none" ELSE nstate[s]]
  /\ Goto(t, "c")
  /\ UNCHANGED <<k, owed, still, nval, prev, meddled, due>>

ulTaskGenericNotifyValueClear(t) ==
  /\ Calling(t, "valueclear")
  /\ nval' = [s \in Slots |-> IF s \in Named(t, call[t].p) THEN 0 ELSE nval[s]]
  /\ due' = [s \in Slots |-> IF s \in Named(t, call[t].p) THEN (due[s] + Width - nval[s]) % Width
                              ELSE due[s]]
  /\ meddled' = meddled \cup Disturbed(Named(t, call[t].p))
  /\ Goto(t, "c")
  /\ UNCHANGED <<k, owed, still, nstate, prev>>

NotifyCall(t) ==
  \/ Query(t)
  \/ xTaskGenericNotify(t)
  \/ xTaskGenericNotifyWait(t)
  \/ ulTaskGenericNotifyTake(t)
  \/ xTaskGenericNotifyStateClear(t)
  \/ ulTaskGenericNotifyValueClear(t)

-----------------------------------------------------------------------------
(* The interrupt forms; a give is an increment.                            *)

Give(c) == [c EXCEPT !.x = "inc"]
NotifyFromISR(c) ==
  /\ handle[c.whom] # NULL
  /\ \E s \in Named(None, handle[c.whom]) :
       /\ ~Refused(s, c.x)
       /\ notify(s, c.x)
       /\ SysTick(Roused(s))
       /\ UNCHANGED prev

xTaskGenericNotifyFromISR(c) == c.op = "isrnotify" /\ NotifyFromISR(c)
vTaskGenericNotifyGiveFromISR(c) == c.op = "isrgive" /\ NotifyFromISR(Give(c))

NotifyInit ==
  /\ nval = [t \in Slots |-> 0]
  /\ nstate = [t \in Slots |-> "none"]
  /\ prev = [t \in Slots |-> 0]
  /\ meddled = {}
  /\ due = [t \in Slots |-> 0]

-----------------------------------------------------------------------------
(* Properties.                                                             *)

NotifyTypeOK ==
  /\ nval \in [Slots -> 0 .. Width - 1]
  /\ nstate \in [Slots -> {"none", "waiting", "received"}]
  /\ prev \in [Slots -> 0 .. Width - 1]
  /\ meddled \subseteq Slots
  /\ due \in [Slots -> 0 .. Width - 1]

(* xTaskNotifyAndQuery answers "the value the notification is about to     *)
(* replace", as xTaskGenericNotify says it must: the two kernel calls it   *)
(* is made of may be told apart only if between them an interrupt or       *)
(* another task notified the same task, or that task's own wait or clear   *)
(* came in; not by what the query's own notification does.                 *)
QueryTellsTheReplaced ==
  [][\A t \in Slots : \A s \in Slots :
       (/\ call[t] # NoCall /\ call[t].op = "query"
        /\ pc[t] = "mid" /\ pc'[t] = "yield" /\ s \in Named(t, call[t].p))
         => prev[t] = nval[s] \/ t \in meddled]_<<taskVars, notifyVars>>

(* A function that uses its notification value as a count.                 *)
Takes(f) == f \in Functions /\ \E c \in Code[f] : c.op = "take"

(* vTaskGenericNotifyGiveFromISR, xTaskGenericNotify and the takes: no     *)
(* give is lost and none is counted twice, whether a task or an interrupt  *)
(* made it and whatever mixture of clearing, counting and timed out takes  *)
(* its receiver makes.                                                     *)
GivesAreCounted == \A t \in Slots : Takes(entry[t]) => nval[t] = due[t]

(* The rule an application keeps for that: a task with a count is notified *)
(* by gives, or with no action, and waits for nothing else.                *)
OnlyGives(c) ==
  c.op \in {"notify", "query", "isrnotify"} /\ Takes(c.whom) => c.x \in {"inc", "none"}
TakersAreGiven ==
  /\ \A f \in Functions : \A c \in Code[f] :
       OnlyGives(c) /\ (c.op = "notifywait" => ~Takes(f))
  /\ \A q \in Programs : \A c \in q.isr :
       OnlyGives(c) /\ (c.op \in {"isrnotify", "isrgive"} => c.whom \in Functions)
=============================================================================
