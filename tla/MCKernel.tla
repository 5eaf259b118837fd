------------------------------ MODULE MCKernel ------------------------------
(* Instances of Kernel for TLC: the calls the tasks of each run make *)
EXTENDS Kernel, TLC

CONSTANTS t1, t2, t3, none

AllCalls == {"Sleep", "SleepUntil", "SuspendTask", "ResumeTask", "SleepCancel",
             "ScheduleTaskRemoval", "RemoveTask", "AddTask", "Exit", "Suspend",
             "IsrSuspend", "IsrSleepCancel"}
FairCalls == {"Sleep", "Exit", "AddTask", "ResumeTask"}
SleepCalls == {"Sleep"}
IsrSuspendCalls == {"Sleep", "IsrSuspend", "IsrSuspendInSwitch"}
IsrCancelCalls == {"Sleep", "Exit", "IsrSleepCancel"}

Tasks == {t1, t2, t3}
Symmetry == Permutations(Tasks)
=============================================================================
