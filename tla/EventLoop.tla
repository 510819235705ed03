------------------------------ MODULE EventLoop ------------------------------
(***************************************************************************)
(* The event loop of quickjs-libc.c: js_std_loop runs the pending jobs and *)
(* then js_os_poll, which calls one handler (a timer that has expired, a   *)
(* descriptor that is ready, a signal) or waits for one.                   *)
(*                                                                         *)
(* A JSOSTimer is shared by the list os_timers and by the JS object that   *)
(* setTimeout returns: whoever lets go of it last frees it.  Its function  *)
(* is a closure that may refer to timer objects, its own among them; the   *)
(* garbage collector sees it as a child of the object.                     *)
(*                                                                         *)
(* Freeing a value runs the finalizers of what it owned, one per step;     *)
(* nothing else happens meanwhile.  Program code may do anything before it *)
(* ends.  Time is relative: what is left until a timeout, in ticks.        *)
(***************************************************************************)
EXTENDS Integers, Sequences, SequencesExt

CONSTANTS
  Timer,       \* JSOSTimer structures
  Fd,          \* file descriptors
  Console,     \* descriptor 0
  Signal,      \* signal numbers
  None,        \* no handler runs
  MaxDelay,    \* bound on the delay given to setTimeout
  MaxWait,     \* the longest wait while a timer is set (10000 ms)
  MaxJobs,     \* bound on the pending jobs
  MaxSignals,  \* bound on the signals raised
  Programs     \* the kinds of programs considered

ASSUME LoopAssumption ==
  /\ Console \in Fd
  /\ MaxDelay \in Nat /\ MaxWait \in Nat \ {0} /\ MaxJobs \in Nat /\ MaxSignals \in Nat
  /\ Programs \subseteq [win32 : BOOLEAN, cycles : BOOLEAN, throws : BOOLEAN,
                        signals : SUBSET Signal, delay : 0 .. MaxDelay]

VARIABLES
  program,   \* whether it runs on Windows, else on POSIX; whether its closures and
             \* timer objects refer to each other in cycles; whether its jobs throw;
             \* the signals it handles and its longest timeout
  timers,    \* os_timers
  alloc,     \* the structures allocated
  object,    \* has_object: those with a JS object
  left,      \* timeout - get_time_ms(), 0 once expired
  func,      \* th->func: a function, undefined, or a pointer to a freed one
  root,      \* the timer objects that variables of the program hold
  captures,  \* <<a, b>>: the closure of timer a refers to the object of b
  rw,        \* os_rw_handlers
  rw_func,   \* which of its two handlers each descriptor has
  sh,        \* os_signal_handlers
  pending,   \* os_pending_signals
  raised,    \* how many signals have been raised
  jobs,      \* how many jobs are pending
  pc,        \* where the loop is
  running,   \* the place of the handler that runs
  kept,      \* that place still owns the function that runs
  refs,      \* the references to the function that runs
  wait       \* what is left of the wait, Forever when it has no end

timerVars  == <<timers, alloc, object, left, func>>
programVars == <<root, captures>>
handlerVars == <<rw, rw_func, sh>>
signalVars == <<pending, raised>>
runVars    == <<running, kept, refs>>
vars == <<program, timerVars, programVars, handlerVars, signalVars, jobs, pc, runVars, wait>>

Forever == -1
Kind    == {"read", "write"}
Place   == ({"timer"} \X Timer) \cup (Kind \X Fd) \cup ({"signal"} \X Signal)

ASSUME NoneAssumption == None \notin Place

Code    == {"script", "job", "handler"}     \* program code runs

Linked == Range(timers)

(* The closures in existence, and who holds a timer object. *)
Closure(a) == func[a] = "function" \/ running = <<"timer", a>>
Held(b) == b \in root \/ \E a \in Timer : <<a, b>> \in captures
Quiet == \A b \in object : Held(b)
InCode == pc \in Code /\ Quiet

Without(T) == {p \in captures : p[1] \notin T}    \* their closures are freed

(* An element leaves its list; when it is in none, nothing happens.        *)
list_del(list, x) ==
  IF x \in Range(list) THEN RemoveAt(list, CHOOSE i \in DOMAIN list : list[i] = x) ELSE list

-----------------------------------------------------------------------------
(* Freeing.                                                                *)

(* Slip: the finalizer does not look whether the timer is linked. *)
Slip_FinalizerFrees(b) == b \in object

unlinked(b) == b \notin Linked

(* js_os_timer_finalizer: the structure goes when it is not linked. *)
js_os_timer_finalizer(b) ==
  /\ b \in object /\ ~Held(b)
  /\ object' = object \ {b}
  /\ IF unlinked(b)
       THEN /\ alloc' = alloc \ {b}
            /\ func' = [func EXCEPT ![b] = "undefined"]
            /\ captures' = IF func[b] = "function" THEN Without({b}) ELSE captures
       ELSE UNCHANGED <<alloc, func, captures>>
  /\ UNCHANGED <<program, timers, left, root, handlerVars, signalVars, jobs, pc,
                 runVars, wait>>

(* The timer objects that only garbage refers to.  js_os_timer_mark makes  *)
(* the closure of a timer a child of its object, so an object reached from *)
(* the closure of a linked timer is garbage when that timer's object is.   *)
Unreachable(S) ==
  \A b \in S : b \notin root /\
    \A a \in Timer : <<a, b>> \in captures => a \in S /\ func[a] = "function"

Garbage == UNION {S \in SUBSET object : Unreachable(S)}

(* What a collection does to timers: the garbage objects are finalized and *)
(* their closures freed, also when the structure is still in the list.     *)
Collect ==
  /\ object' = object \ Garbage
  /\ alloc' = alloc \ (Garbage \ Linked)
  /\ func' = [t \in Timer |->
                IF t \notin Garbage \/ func[t] # "function" THEN func[t]
                ELSE IF t \in Linked THEN "freed" ELSE "undefined"]
  /\ captures' = Without({t \in Garbage : func[t] = "function"})

JS_RunGC ==
  /\ InCode
  /\ Collect
  /\ UNCHANGED <<program, timers, left, root, handlerVars, signalVars, jobs, pc,
                 runVars, wait>>

(* The handler in this place is replaced or removed: its function is freed *)
FreePlace(places) ==
  IF kept /\ running \in places
    THEN kept' = FALSE /\ refs' = refs - 1 /\ UNCHANGED running
    ELSE UNCHANGED runVars

-----------------------------------------------------------------------------
(* What program code calls.                                                *)

Fresh(t) == t \notin alloc /\ ~Closure(t)

list_add_tail(t) == Append(timers, t)

js_os_setTimeout(t, delay) ==
  /\ InCode /\ Fresh(t)
  /\ timers' = list_add_tail(t)
  /\ alloc' = alloc \cup {t}
  /\ object' = object \cup {t}
  /\ left' = [left EXCEPT ![t] = delay]
  /\ func' = [func EXCEPT ![t] = "function"]
  /\ root' = root \cup {t}
  /\ UNCHANGED <<program, captures, handlerVars, signalVars, jobs, pc, runVars, wait>>

js_os_clearTimeout(t) ==
  /\ InCode /\ t \in root
  /\ timers' = list_del(timers, t)
  /\ UNCHANGED <<program, alloc, object, left, func, programVars, handlerVars,
                 signalVars, jobs, pc,
                 runVars, wait>>

(* Variables of the program: a closure comes to refer to a timer object,   *)
(* the closure that runs looks at its variables, and a variable is dropped *)
Acyclic(caps) ==
  \A T \in SUBSET Timer : T # {} => \E b \in T : \A a \in T : <<a, b>> \notin caps

Capture(a, b) ==
  /\ InCode /\ Closure(a) /\ b \in root
  /\ captures' = captures \cup {<<a, b>>}
  /\ program.cycles \/ Acyclic(captures')
  /\ UNCHANGED <<program, timerVars, root, handlerVars, signalVars, jobs, pc, runVars,
                 wait>>

Look(a, b) ==
  /\ InCode /\ running = <<"timer", a>> /\ <<a, b>> \in captures
  /\ root' = root \cup {b}
  /\ UNCHANGED <<program, timerVars, captures, handlerVars, signalVars, jobs, pc,
                 runVars, wait>>

Forget(b) ==
  /\ InCode /\ b \in root
  /\ root' = root \ {b}
  /\ UNCHANGED <<program, timerVars, captures, handlerVars, signalVars, jobs, pc,
                 runVars, wait>>

find_rh(fd) == IF fd \in Range(rw) THEN rw ELSE Append(rw, fd)

(* js_os_setReadHandler with a function (the write handler is the same     *)
(* function with another magic) ...                                        *)
SetHandler(kind, fd) ==
  /\ InCode
  /\ rw' = find_rh(fd)
  /\ rw_func' = [rw_func EXCEPT ![fd] = @ \cup {kind}]
  /\ FreePlace({<<kind, fd>>})
  /\ UNCHANGED <<program, timerVars, programVars, sh, signalVars, jobs, pc, wait>>

(* Slip: the entry goes only with the read handler. *)
Slip_EntryStays(kind, fd) == IF kind = "write" THEN rw ELSE list_del(rw, fd)

LastHandlerGone(kind, fd) == IF rw_func[fd] \subseteq {kind} THEN list_del(rw, fd) ELSE rw

(* ... and with null: free_rw_handler when both handlers are null. *)
UnsetHandler(kind, fd) ==
  /\ InCode /\ fd \in Range(rw)
  /\ rw' = LastHandlerGone(kind, fd)
  /\ rw_func' = [rw_func EXCEPT ![fd] = @ \ {kind}]
  /\ FreePlace({<<kind, fd>>})
  /\ UNCHANGED <<program, timerVars, programVars, sh, signalVars, jobs, pc, wait>>

(* os.signal: a handler, or null or undefined. *)
js_os_signal(s, on) ==
  /\ InCode
  /\ sh' = IF on THEN sh \cup {s} ELSE sh \ {s}
  /\ FreePlace({<<"signal", s>>})
  /\ UNCHANGED <<program, timerVars, programVars, rw, rw_func, signalVars, jobs, pc,
                 wait>>

JS_EnqueueJob ==
  /\ InCode /\ jobs < MaxJobs
  /\ jobs' = jobs + 1
  /\ UNCHANGED <<program, timerVars, programVars, handlerVars, signalVars, pc, runVars,
                 wait>>

(* Program code ends: call_handler and js_os_poll give up their references *)
(* to the function, and the loop goes on.                                  *)
EndCode(next) ==
  /\ InCode
  /\ pc' = next
  /\ running' = None /\ kept' = FALSE /\ refs' = 0
  /\ captures' = Without({a \in Timer : running = <<"timer", a>>})
  /\ UNCHANGED <<program, timerVars, root, handlerVars, signalVars, jobs, wait>>

(* js_std_loop leaves its inner loop when a job throws; an exception of a  *)
(* handler is only printed.                                                *)
Return == EndCode("jobs")
JobThrows == program.throws /\ pc = "job" /\ EndCode("poll")

Program ==
  \/ \E t \in Timer : \/ js_os_clearTimeout(t) \/ Forget(t)
                      \/ \E delay \in 0 .. program.delay : js_os_setTimeout(t, delay)
  \/ \E a \in Timer, b \in Timer : Capture(a, b) \/ Look(a, b)
  \/ \E kind \in Kind, fd \in Fd : SetHandler(kind, fd) \/ UnsetHandler(kind, fd)
  \/ \E s \in program.signals, on \in BOOLEAN : js_os_signal(s, on)
  \/ JS_EnqueueJob

-----------------------------------------------------------------------------
(* The environment.                                                        *)

(* Time passes, in a wait or while program code runs. *)
Tick ==
  /\ pc \in Code \cup {"wait"} /\ Quiet
  /\ wait > 0 \/ \E t \in Linked : left[t] > 0
  /\ left' = [t \in Timer |-> IF t \in Linked /\ left[t] > 0 THEN left[t] - 1 ELSE left[t]]
  /\ wait' = IF wait > 0 THEN wait - 1 ELSE wait
  /\ UNCHANGED <<program, timers, alloc, object, func, programVars, handlerVars,
                 signalVars, jobs, pc,
                 runVars>>

(* os_signal_handler; on POSIX it interrupts select. *)
os_signal_handler(s) ==
  /\ s \in sh /\ raised < MaxSignals /\ Quiet
  /\ pending' = pending \cup {s}
  /\ raised' = raised + 1
  /\ IF pc = "wait" /\ ~program.win32
       THEN pc' = "jobs" /\ wait' = 0
       ELSE UNCHANGED <<pc, wait>>
  /\ UNCHANGED <<program, timerVars, programVars, handlerVars, jobs, runVars>>

-----------------------------------------------------------------------------
(* js_std_loop and js_os_poll.                                             *)

JS_ExecutePendingJob ==
  /\ pc = "jobs" /\ Quiet /\ jobs > 0
  /\ jobs' = jobs - 1
  /\ pc' = "job"
  /\ UNCHANGED <<program, timerVars, programVars, handlerVars, signalVars, runVars, wait>>

(* Slip: one job for each turn of the loop. *)
Slip_OneJob == TRUE

no_job_left == jobs = 0

js_std_loop ==
  /\ pc = "jobs" /\ Quiet /\ no_job_left
  /\ pc' = "poll"
  /\ UNCHANGED <<program, timerVars, programVars, handlerVars, signalVars, jobs,
                 runVars, wait>>

call_handler_dup == 1

(* call_handler, of a function that "place" owns or that js_os_poll took.  *)
call_handler(place) ==
  /\ running' = place
  /\ kept' = (place[1] # "timer")
  /\ refs' = 1 + call_handler_dup
  /\ pc' = "handler"

Deliverable == IF program.win32 THEN {} ELSE pending \cap sh

poll_signal(s) ==
  /\ pc = "poll" /\ s \in Deliverable
  /\ pending' = pending \ {s}
  /\ call_handler(<<"signal", s>>)
  /\ UNCHANGED <<program, timerVars, programVars, handlerVars, raised, jobs, wait>>

poll ==
  /\ pc = "poll" /\ Deliverable = {}
  /\ pc' = IF rw = <<>> /\ timers = <<>> THEN "exit" ELSE "arm"
  /\ UNCHANGED <<program, timerVars, programVars, handlerVars, signalVars, jobs,
                 runVars, wait>>

Expired(t) == t \in Linked /\ left[t] = 0
First(t) ==   \* the first expired timer of the list
  \E i \in DOMAIN timers :
    timers[i] = t /\ Expired(t) /\ \A j \in 1 .. i - 1 : ~Expired(timers[j])

(* An expired timer: it leaves the list before its function is called, and *)
(* its structure is freed when it has no object.  Calling a function that  *)
(* has been freed is undefined.                                            *)
poll_timer(t) ==
  /\ pc = "arm" /\ First(t)
  /\ timers' = list_del(timers, t)
  /\ alloc' = IF t \in object THEN alloc ELSE alloc \ {t}
  /\ func' = [func EXCEPT ![t] = "undefined"]
  /\ IF func[t] = "function"
       THEN call_handler(<<"timer", t>>)
       ELSE pc' = "undefined" /\ UNCHANGED runVars
  /\ UNCHANGED <<program, object, left, programVars, handlerVars, signalVars, jobs, wait>>

(* min_delay *)
Delay == Min({MaxWait} \cup {left[t] : t \in Linked})

poll_wait ==
  /\ pc = "arm" /\ ~ \E t \in Linked : Expired(t)
  /\ pc' = "wait"
  /\ wait' = IF timers = <<>> THEN Forever ELSE Delay
  /\ UNCHANGED <<program, timerVars, programVars, handlerVars, signalVars, jobs, runVars>>

poll_timeout ==
  /\ pc = "wait" /\ wait = 0
  /\ pc' = "jobs"
  /\ UNCHANGED <<program, timerVars, programVars, handlerVars, signalVars, jobs,
                 runVars, wait>>

(* WaitForSingleObject on the console, the only descriptor of Windows. *)
poll_console ==
  /\ program.win32 /\ pc = "wait" /\ Console \in Range(rw) /\ "read" \in rw_func[Console]
  /\ call_handler(<<"read", Console>>)
  /\ wait' = 0
  /\ UNCHANGED <<program, timerVars, programVars, handlerVars, signalVars, jobs>>

(* select: the first descriptor that can be read, or that has a write      *)
(* handler, which is called without looking whether it can be written.     *)
Watched == UNION {rw_func[fd] \X {fd} : fd \in Range(rw)}
Chosen(ready, fd) == <<"read", fd>> \in ready \/ "write" \in rw_func[fd]

poll_select(ready) ==
  /\ ~program.win32 /\ pc = "wait" /\ ready # {}
  /\ \E i \in DOMAIN rw :
       LET fd == rw[i] IN
       /\ Chosen(ready, fd) /\ \A j \in 1 .. i - 1 : ~Chosen(ready, rw[j])
       /\ call_handler(IF <<"read", fd>> \in ready THEN <<"read", fd>> ELSE <<"write", fd>>)
  /\ wait' = 0
  /\ UNCHANGED <<program, timerVars, programVars, handlerVars, signalVars, jobs>>

(* The host after the loop: js_std_free_handlers ... *)
js_std_free_handlers ==
  /\ pc = "exit"
  /\ timers' = <<>>
  /\ alloc' = alloc \ (Linked \ object)
  /\ func' = [t \in Timer |-> IF t \in Linked \ object THEN "undefined" ELSE func[t]]
  /\ captures' = Without(Linked \ object)
  /\ pc' = IF \E t \in Linked \ object : func[t] = "freed" THEN "undefined" ELSE "freed"
  /\ rw' = <<>>
  /\ rw_func' = [fd \in Fd |-> {}]
  /\ sh' = {}
  /\ UNCHANGED <<program, object, left, root, signalVars, jobs, runVars, wait>>

(* ... JS_FreeContext, with it the variables of the program ... *)
JS_FreeContext ==
  /\ pc = "freed" /\ Quiet
  /\ root' = {}
  /\ pc' = "last"
  /\ UNCHANGED <<program, timerVars, captures, handlerVars, signalVars, jobs, runVars,
                 wait>>

(* ... and JS_FreeRuntime. *)
JS_FreeRuntime ==
  /\ pc = "last" /\ Quiet
  /\ Collect
  /\ pc' = "end"
  /\ UNCHANGED <<program, timers, left, root, handlerVars, signalVars, jobs, runVars,
                 wait>>

Poll ==
  \/ JS_ExecutePendingJob \/ js_std_loop \/ poll \/ poll_wait \/ poll_timeout
  \/ \E s \in Signal : poll_signal(s)
  \/ \E t \in Timer : poll_timer(t)

Input == poll_console \/ \E ready \in SUBSET Watched : poll_select(ready)

Teardown == js_std_free_handlers \/ JS_FreeContext \/ JS_FreeRuntime

Finalizer == \E b \in Timer : js_os_timer_finalizer(b)

Finished == pc \in {"end", "undefined"} /\ UNCHANGED vars

Init ==
  /\ program \in Programs
  /\ timers = <<>> /\ alloc = {} /\ object = {}
  /\ left = [t \in Timer |-> 0]
  /\ func = [t \in Timer |-> "undefined"]
  /\ root = {} /\ captures = {}
  /\ rw = <<>> /\ rw_func = [fd \in Fd |-> {}] /\ sh = {}
  /\ pending = {} /\ raised = 0
  /\ jobs = 0
  /\ pc = "script"
  /\ running = None /\ kept = FALSE /\ refs = 0
  /\ wait = 0

Next ==
  \/ Program \/ Return \/ JobThrows \/ JS_RunGC \/ Finalizer
  \/ Tick \/ (\E s \in Signal : os_signal_handler(s))
  \/ Poll \/ Input \/ Teardown \/ Finished

Spec == Init /\ [][Next]_vars

(* C code goes on, program code ends and the clock advances, also when it  *)
(* does so only while program code runs.  Nothing is assumed of input and  *)
(* signals.                                                                *)
FairSpec ==
  /\ Spec
  /\ WF_vars(Finalizer) /\ WF_vars(Poll) /\ WF_vars(Teardown)
  /\ SF_vars(Return) /\ SF_vars(Tick)

-----------------------------------------------------------------------------
(* The lists have no duplicates and the counters stay within their bounds. *)
TypeOK ==
  /\ timers \in Seq(Timer) /\ IsInjective(timers)
  /\ alloc \subseteq Timer /\ object \subseteq Timer /\ root \subseteq object
  /\ left \in [Timer -> 0 .. MaxDelay]
  /\ func \in [Timer -> {"undefined", "function", "freed"}]
  /\ captures \subseteq Timer \X object
  /\ rw \in Seq(Fd) /\ IsInjective(rw)
  /\ rw_func \in [Fd -> SUBSET Kind]
  /\ sh \subseteq Signal /\ pending \subseteq Signal /\ raised \in 0 .. MaxSignals
  /\ jobs \in 0 .. MaxJobs
  /\ pc \in Code \cup {"jobs", "poll", "arm", "wait", "exit", "freed", "last", "end", "undefined"}
  /\ running \in Place \cup {None} /\ kept \in BOOLEAN /\ refs \in 0 .. 2
  /\ wait \in Forever .. MaxWait

(* A JSOSTimer exists exactly as long as the list or its object refers to  *)
(* it, whatever the order of clearTimeout, finalizer, expiry and end: it   *)
(* is neither used after it was freed nor left over at the end.            *)
TimerStructs ==
  pc # "undefined" =>
    /\ alloc = Linked \cup object
    /\ pc = "end" => alloc = {}

(* "'func' might be destroyed when calling itself (if it frees the         *)
(* handler), so must take extra care" (call_handler): the function of a    *)
(* handler is alive when it is called and as long as it runs, ...          *)
HandlerAlive ==
  /\ pc # "undefined"
  /\ running # None => refs > 0

(* ... at least in a program whose closures do not refer, through timer    *)
(* objects, to themselves.                                                 *)
AcyclicHandlerAlive == ~program.cycles => HandlerAlive

(* A timer and its function are there as long as they are needed.          *)
TimersSound == TimerStructs /\ AcyclicHandlerAlive

(* "execute the pending jobs" (js_std_loop): the loop calls no handler,    *)
(* waits for none, and does not end, while jobs are pending; after a job   *)
(* that throws it does.                                                    *)
JobsFirst == ~program.throws /\ pc \in {"poll", "arm", "wait", "exit"} => jobs = 0

(* As long as the jobs come to an end, every timer set is called or        *)
(* cleared: timers that are set again and again do not hold it up.         *)
TimersFire ==
  []<>(pc \in {"poll", "end"}) => \A t \in Timer : t \in Linked ~> t \notin Linked

(* With nothing left to wait for the program ends: handlers of signals,    *)
(* and handlers that have been removed, do not keep it alive.              *)
Idle == pc \notin Code /\ jobs = 0 /\ timers = <<>> /\ \A fd \in Fd : rw_func[fd] = {}

LoopEnds == Idle ~> ~Idle \/ pc \in {"end", "undefined"}

(* Together: what the program has asked for happens, and then it ends.     *)
LoopLives == TimersFire /\ LoopEnds
=============================================================================
