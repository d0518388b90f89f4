------------------------------ MODULE PlayThread ------------------------------
(***************************************************************************)
(* play_thread of main.c with open_sound and set_pcm_play: it waits on     *)
(* alsa_con_var, takes choice_play and drives the gate relay and the       *)
(* loudspeaker.                                                            *)
(***************************************************************************)
EXTENDS Process

CONSTANTS
  WavFiles,           \* the sound files in the working directory
  MaxChunks           \* bound: periods of sound in a file

ASSUME PlayAssumption ==
  /\ WavFiles \subseteq {"welcome.wav", "Co.wav"}
  /\ MaxChunks \in Nat

VARIABLES
  ppc,                \* where the thread is
  choice,             \* its copy of choice_play
  relay,              \* the gate relay: "on" while the gate is unlocked
  pcm,                \* the playback device
  chunks              \* periods of the file still to be played

playVars == <<ppc, choice, relay, pcm, chunks>>

PlayPcs == {"open", "lock", "wait", "waiting", "read", "switch",
            "fopen", "pcm_open", "play", "close", "returned"}

PlayInit ==
  /\ Starts("play", ppc, "open")
  /\ choice = 0
  /\ relay = "off"
  /\ pcm = "closed"
  /\ chunks = 0

PlayTypeOK ==
  /\ ppc \in PlayPcs
  /\ choice \in {0, 5, 6, 7, 8}
  /\ relay \in {"on", "off"}
  /\ pcm \in {"closed", "ready", "xrun", "dead"}
  /\ chunks \in 0..MaxChunks

-----------------------------------------------------------------------------
PlayOpen ==
  /\ ppc = "open"
  /\ \/ CanOpen("relay") /\ Opened /\ ppc' = "lock"
     \/ ~CanOpen("relay") /\ ppc' = "returned" /\ UNCHANGED fds
  /\ UNCHANGED <<alive, alsaVars, choice, relay, pcm, chunks>>

PlayLock ==
  /\ ppc = "lock"
  /\ Lock(alsa_mutex, "play")
  /\ ppc' = "wait"
  /\ UNCHANGED <<process, alsa_con_var, choice_play, choice, relay, pcm, chunks>>

\* Mutant: waits only while choice_play is 0, which nothing sets it back to.
PlayWaitUnreset ==
  /\ ppc = "wait"
  /\ IF choice_play = 0
     THEN Wait(alsa_con_var, alsa_mutex, "play") /\ ppc' = "waiting"
     ELSE UNCHANGED <<alsa_con_var, alsa_mutex>> /\ ppc' = "read"
  /\ UNCHANGED <<process, choice_play, choice, relay, pcm, chunks>>

PlayWait ==
  /\ ppc = "wait"
  /\ Wait(alsa_con_var, alsa_mutex, "play")
  /\ ppc' = "waiting"
  /\ UNCHANGED <<process, choice_play, choice, relay, pcm, chunks>>

\* pthread_cond_wait returns, holding the mutex again.
PlayWake ==
  /\ ppc = "waiting"
  /\ Woken(alsa_con_var, "play")
  /\ Leave(alsa_con_var, "play")
  /\ Lock(alsa_mutex, "play")
  /\ ppc' = "read"
  /\ UNCHANGED <<process, choice_play, choice, relay, pcm, chunks>>

\* Mutant: the copy of choice_play was taken before the wait.
PlayReadStale ==
  /\ ppc = "read"
  /\ Unlock(alsa_mutex)
  /\ ppc' = "switch"
  /\ UNCHANGED <<process, alsa_con_var, choice_play, choice, relay, pcm, chunks>>

PlayRead ==
  /\ ppc = "read"
  /\ choice' = choice_play
  /\ Unlock(alsa_mutex)
  /\ ppc' = "switch"
  /\ UNCHANGED <<process, alsa_con_var, choice_play, relay, pcm, chunks>>

\* switch (choice): 5 unlocks the gate and greets, 8 plays the CO warning,
\* any other value the receive thread can set only locks the gate.
PlaySwitch ==
  /\ ppc = "switch"
  /\ \/ choice = 5 /\ relay' = "on" /\ ppc' = "fopen"
     \/ choice = 8 /\ ppc' = "fopen" /\ UNCHANGED relay
     \/ choice \notin {5, 8} /\ relay' = "off" /\ ppc' = "lock"
  /\ UNCHANGED <<process, alsaVars, choice, pcm, chunks>>

-----------------------------------------------------------------------------
(* open_sound and set_pcm_play: every failure is an exit(1).               *)

Sound == IF choice = 5 THEN "welcome.wav" ELSE "Co.wav"

SoundOpen ==
  /\ ppc = "fopen"
  /\ \/ Sound \in WavFiles /\ Opened /\ ppc' = "pcm_open" /\ UNCHANGED alive
     \/ (Sound \notin WavFiles \/ fds = FdLimit) /\ Exit /\ UNCHANGED ppc
  /\ UNCHANGED <<alsaVars, choice, relay, pcm, chunks>>

SoundConfigure ==
  /\ ppc = "pcm_open"
  /\ Opened
  /\ pcm' = "ready"
  /\ chunks' \in 0..MaxChunks
  /\ ppc' = "play"
  /\ UNCHANGED <<alive, alsaVars, choice, relay>>

SoundConfigureFails ==
  /\ ppc = "pcm_open"
  /\ Exit
  /\ UNCHANGED <<alsaVars, playVars>>

\* One turn of the loop: fread found a period and snd_pcm_writei took it.
SoundWrite ==
  /\ ppc = "play" /\ pcm = "ready" /\ chunks > 0
  /\ chunks' = chunks - 1
  /\ UNCHANGED <<process, alsaVars, ppc, choice, relay, pcm>>

\* Mutant: writes again without snd_pcm_prepare.
SoundRecoverUnprepared ==
  /\ ppc = "play" /\ pcm = "xrun" /\ chunks > 0
  /\ UNCHANGED <<process, alsaVars, playVars>>

\* snd_pcm_writei returned -EPIPE: snd_pcm_prepare, and the write again.
SoundRecover ==
  /\ ppc = "play" /\ pcm = "xrun" /\ chunks > 0
  /\ pcm' = "ready"
  /\ UNCHANGED <<process, alsaVars, ppc, choice, relay, chunks>>

\* Mutant: without snd_pcm_close.
SoundEndUnclosed ==
  /\ ppc = "play" /\ chunks = 0
  /\ pcm' = "closed"
  /\ fds' = fds - 1
  /\ ppc' = IF choice = 5 THEN "close" ELSE "lock"
  /\ UNCHANGED <<alive, alsaVars, choice, relay, chunks>>

SoundEnd ==
  /\ ppc = "play" /\ chunks = 0
  /\ pcm' = "closed"
  /\ fds' = fds - 2
  /\ ppc' = IF choice = 5 THEN "close" ELSE "lock"
  /\ UNCHANGED <<alive, alsaVars, choice, relay, chunks>>

PlayClose ==
  /\ ppc = "close"
  /\ relay' = "off"
  /\ ppc' = "lock"
  /\ UNCHANGED <<process, alsaVars, choice, pcm, chunks>>

PlayStep ==
  \/ PlayOpen \/ PlayLock \/ PlayWait \/ PlayWake \/ PlayRead \/ PlaySwitch
  \/ SoundOpen \/ SoundConfigure \/ SoundConfigureFails
  \/ SoundWrite \/ SoundRecover \/ SoundEnd \/ PlayClose

\* The device: the program was late with data, or the device is gone and
\* every further write fails, which set_pcm_play retries for ever.
SoundFault ==
  /\ pcm = "ready"
  /\ pcm' \in {"xrun", "dead"}
  /\ UNCHANGED <<ppc, choice, relay, chunks>>

=============================================================================
