----------------------------- MODULE MCEventLoop -----------------------------
(* Programs for EventLoop; the .cfg files give the bounds.                 *)
EXTENDS EventLoop

(* On Windows anything goes; on POSIX functions stay alive and jobs end,   *)
(* with longer delays, or with signals.                                    *)
Windows == [win32 |-> TRUE, cycles |-> TRUE, throws |-> TRUE, signals |-> {}, delay |-> 1]
Posix == [win32 |-> FALSE, cycles |-> FALSE, throws |-> FALSE, signals |-> {}, delay |-> 2]
Signals == [Posix EXCEPT !.signals = Signal, !.delay = 0]
Three == {Windows, Posix, Signals}
=============================================================================
