------------------------------ MODULE ImageStore ------------------------------
(***************************************************************************)
(* What myfs.c promises about the backup of the file system: a store for   *)
(* one image, and sessions that begin with what the store holds.           *)
(*                                                                         *)
(* A session works on its image and may put it into the store.  Writing is *)
(* not atomic: the store is torn from the first moment of a save to the    *)
(* last, and it stays so when the session is stopped in between.  A torn   *)
(* store may give a session any image, or none.                            *)
(***************************************************************************)
CONSTANTS
          Images,   \* the images a file system can have
          Fresh,    \* the image my_format makes
          Off,      \* no session
          None,     \* no backup
          Torn      \* a backup that is not whole

VARIABLES session, store

Init == session = Off /\ store = None

Begin ==
    /\ session = Off
    /\ \/ session' = Fresh
       \/ store \in Images /\ session' = store
       \/ store = Torn /\ session' \in Images
    /\ UNCHANGED store

Work == session # Off /\ session' \in Images /\ UNCHANGED store

\* Only who asks for a fresh file system loses the backup.
Discard == session = Fresh /\ store' = None /\ UNCHANGED session

BeginSave == session # Off /\ store' = Torn /\ UNCHANGED session
EndSave == session # Off /\ store = Torn /\ store' = session /\ UNCHANGED session

Stop == session # Off /\ session' = Off /\ UNCHANGED store

Next == Begin \/ Work \/ Discard \/ BeginSave \/ EndSave \/ Stop

Spec == Init /\ [][Next]_<<session, store>>
=============================================================================
