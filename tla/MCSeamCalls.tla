---------------------------- MODULE MCSeamCalls ----------------------------
(***************************************************************************)
(* Small applications for SeamCalls.  The monitor, the first task of each, *)
(* sleeps for longer than the model looks.                                 *)
(***************************************************************************)
EXTENDS SeamCalls

On(f, op) == [op |-> op, whom |-> f, n |-> 0, x |-> "", p |-> 0]
With(f, op, x) == [On(f, op) EXCEPT !.x = x]
For(f, op, n) == [On(f, op) EXCEPT !.n = n]
C(op) == On("self", op)
X(op, x) == With("self", op, x)
N(op, n) == For("self", op, n)

MCCode ==
  [f \in Functions |->
     CASE f = "mon" -> {N("delay", Forever)}
       [] f = "maker" -> {For("a", "create", 1), For("b", "create", 3), On("a", "delete"), For("a", "priority", 1),
                          With("a", "create", "deep")}
       [] f = "a" -> {C("delete"), N("delay", 1)}
       [] f = "b" -> {On("b", "delete"), On("a", "suspend")}
       [] f = "sus" -> {C("suspend"), C("resume"), On("sus", "lookup"),
                        On("sus", "suspend"), N("delayuntil", 1)}
       [] f = "res" -> {On("sus", "resume"), On("sus", "suspend"), For("sus", "priority", 2),
                        X("priority", "above"), N("priority", 1), On("sus", "abort")}
       [] f = "lock" -> {C("suspendall"), C("resumeall"), N("catchup", 2), On("slow", "resume"),
                         For("slow", "priority", 2)}
       [] f = "slow" -> {N("delay", 2), N("delay", 0), C("suspend"), N("priority", 1), C("return")}
       [] f = "asks" -> {With("told", "query", "inc"), X("query", "inc"), N("delay", 1)}
       [] f = "told" -> {[N("notifywait", 1) EXCEPT !.x = "entry"], C("stateclear")}
       [] f = "puts" -> {With("told", "query", "over"), With("told", "notify", "bits")}
       [] f = "gives" -> {With("told", "notify", "noover"), On("told", "valueclear")}
       [] f = "feeds" -> {With("takes", "notify", "inc"), N("delay", 1), C("taskyield")}
       [] f = "takes" -> {[N("take", 1) EXCEPT !.x = "clear"], X("take", "count"), C("valueclear")}
       [] f = "meets" -> {C("groupcreate"), [N("sync", Forever) EXCEPT !.x = "a"], N("delay", 1)}
       [] f = "met" -> {[N("sync", Forever) EXCEPT !.x = "b"]}
       [] f = "waits" -> {C("groupcreate"), [N("wait", 1) EXCEPT !.x = "ab"], X("clearbits", "a"),
                          C("suspendall"), C("resumeall"), C("groupdelete")}
       [] f = "rejoins" -> {C("groupcreate"), [N("sync", 1) EXCEPT !.x = "a"]}
       [] f = "stirs" -> {X("setbits", "b"), On("rejoins", "suspend"), On("rejoins", "resume")}
       [] f = "sets" -> {X("setbits", "a"), [N("watch", 1) EXCEPT !.x = "b"]}
       [] f = "reads" -> {X("sbcreate", "test"), X("sbcreate", "plain"), N("sbreceive", 1),
                          C("sbdelete"), N("delay", 1)}
       [] f = "writes" -> {N("sbsend", 1), C("sbreset"), N("delay", 1)}
       [] f = "sends" -> {C("open"), C("putstring"), N("put", 1)}
       [] f = "gets" -> {C("open"), N("get", 1), C("reset"), N("delay", 1)}
       [] f = "low" -> {N("mtake", 1), C("mgive")}
       [] f = "high" -> {N("mtake", 2), C("mgive"), N("semtake", 1)}]

App(tasks, isr) == [boot |-> <<<<"mon", 4>>>> \o tasks, isr |-> isr]

MCPrograms ==
  {App(<<<<"maker", 2>>>>, {}),
   App(<<<<"sus", 1>>, <<"res", 1>>>>, {}),
   App(<<<<"lock", 1>>, <<"slow", 2>>>>, {}),
   App(<<<<"asks", 1>>, <<"told", 2>>>>, {With("told", "isrnotify", "noover")}),
   App(<<<<"puts", 1>>, <<"gives", 1>>, <<"told", 1>>>>, {}),
   App(<<<<"feeds", 1>>, <<"takes", 2>>>>, {On("takes", "isrgive")}),
   App(<<<<"meets", 1>>, <<"met", 1>>>>, {}),
   App(<<<<"waits", 2>>, <<"sets", 1>>>>, {X("isrset", "b"), X("isrclear", "b")}),
   App(<<<<"rejoins", 2>>, <<"stirs", 1>>>>, {}),
   App(<<<<"reads", 2>>, <<"writes", 1>>>>,
       {C("isrsbsend"), C("isrsbreceive"), C("isrcompleted")}),
   App(<<<<"sends", 1>>, <<"gets", 2>>>>, {X("isrsend", "front"), C("isrreceive")}),
   App(<<<<"low", 1>>, <<"high", 2>>>>, {C("isrsemgive")})}

MCFunctions ==
  {"mon", "maker", "a", "b", "sus", "res", "lock", "slow", "asks", "told", "puts", "gives",
   "feeds", "takes", "meets", "met", "waits", "sets", "rejoins", "stirs", "reads", "writes", "sends", "gets",
   "low", "high"}

MCBitsOf == [x \in {"a", "b", "ab"} |-> IF x = "ab" THEN {"a", "b"} ELSE {x}]

(* The rules some of the theorems ask of an application are kept by these. *)
ASSUME TakersAreGiven /\ OneSender /\ OneReader /\ MeetersAreFree
=============================================================================
