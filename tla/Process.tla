-------------------------------- MODULE Process --------------------------------
(***************************************************************************)
(* What the threads of main.c share: the four mutexes, the two condition   *)
(* variables, the two integers they protect, the table of open files and   *)
(* the process itself, which exit(1), a signal or a fault ends for all of  *)
(* them at once.                                                           *)
(***************************************************************************)
EXTENDS Naturals, Sequences

CONSTANTS
  Devices,            \* the device files of this machine that exist
  FdLimit,            \* descriptors left once main() has opened its own
  MayFail,            \* the threads that pthread_create may fail to create
  SpuriousWakeups     \* may pthread_cond_wait return without a signal?

Threads == {"main", "receive", "play", "picture", "sensor", "sleep"}
Free == "free"

DeviceFiles == {"hc04", "relay", "dht11", "mpu6050", "video0"}

ASSUME ProcessAssumption ==
  /\ Devices \subseteq DeviceFiles
  /\ FdLimit \in Nat
  /\ MayFail \subseteq Threads \ {"main"}
  /\ SpuriousWakeups \in BOOLEAN

VARIABLES
  alive,              \* FALSE once the process has ended
  fds,                \* descriptors in use beyond those main() opened
  socket_mutex, alsa_mutex, send_mutex, sleep_mutex,
  alsa_con_var, send_con_var,      \* threads blocked in pthread_cond_wait
  choice_play, my_sleep

process   == <<alive, fds>>
alsaVars  == <<alsa_mutex, alsa_con_var, choice_play>>
sendVars  == <<send_mutex, send_con_var>>
sleepVars == <<sleep_mutex, my_sleep>>

ProcessInit ==
  /\ alive = TRUE
  /\ fds = 0
  /\ socket_mutex = Free /\ alsa_mutex = Free
  /\ send_mutex = Free /\ sleep_mutex = Free
  /\ alsa_con_var = {} /\ send_con_var = {}
  /\ choice_play = 0 /\ my_sleep = 0

ProcessTypeOK ==
  /\ alive \in BOOLEAN
  /\ fds \in 0..FdLimit
  /\ {socket_mutex, alsa_mutex, send_mutex, sleep_mutex}
        \subseteq Threads \union {Free}
  /\ alsa_con_var \subseteq {"play"} /\ send_con_var \subseteq {"picture"}
  /\ choice_play \in {0, 5, 6, 7, 8}
  /\ my_sleep \in {0, 1}

-----------------------------------------------------------------------------
\* main() does not look at what pthread_create returns.  A thread that was
\* not created is one that has returned before its first step.
Starts(thread, pc, first) ==
  \/ pc = first
  \/ thread \in MayFail /\ pc = "returned"

-----------------------------------------------------------------------------
(* pthreads.  An unlock does not look at the owner: only the program's own *)
(* discipline keeps a thread from releasing a mutex it does not hold.      *)

Lock(mutex, thread) == mutex = Free /\ mutex' = thread
Unlock(mutex) == mutex' = Free

Wait(cond, mutex, thread) ==
  /\ cond' = cond \union {thread}
  /\ Unlock(mutex)

Woken(cond, thread) == SpuriousWakeups \/ thread \notin cond
Leave(cond, thread) == cond' = cond \ {thread}

Signal(cond) ==
  \/ cond = {} /\ cond' = cond
  \/ \E thread \in cond : Leave(cond, thread)

-----------------------------------------------------------------------------
(* The table of open files, and the end of the process.                    *)

CanOpen(device) == device \in Devices /\ fds < FdLimit
Opened == fds < FdLimit /\ fds' = fds + 1
Exit == alive' = FALSE /\ UNCHANGED fds

=============================================================================
