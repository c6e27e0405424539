----------------------------- MODULE FreshReads -----------------------------
(***************************************************************************)
(* What the run cache promises its readers: a read that starts after the   *)
(* server was told of a change of the file returns what the file holds     *)
(* then, or something newer, and never what it does not hold yet.          *)
(*                                                                         *)
(* A file's contents are the number of its last change.                    *)
(***************************************************************************)
EXTENDS Naturals

CONSTANTS
    Readers,  \* goroutines that read through the cache
    Keys,     \* what they read: a kind of derived value of a file
    Files,    \* the files on disk
    FileOf,   \* the file of each key
    Nobody    \* no key

VARIABLES
    disk,    \* the contents of each file
    floor,   \* the oldest contents a new read of a key may return
    asked,   \* the key each reader is waiting for
    base,    \* the floor of that key when the reader asked
    got      \* the contents each reader got last

vars == <<disk, floor, asked, base, got>>

Init ==
    /\ disk = [f \in Files |-> 0]
    /\ floor = [k \in Keys |-> 0]
    /\ asked = [r \in Readers |-> Nobody]
    /\ base = [r \in Readers |-> 0]
    /\ got = [r \in Readers |-> 0]

Change(f) ==
    /\ disk' = [disk EXCEPT ![f] = @ + 1]
    /\ UNCHANGED <<floor, asked, base, got>>

\* The server learns that the file of k may have changed.
Tell(k) ==
    /\ floor' = [floor EXCEPT ![k] = disk[FileOf[k]]]
    /\ UNCHANGED <<disk, asked, base, got>>

Ask(r, k) ==
    /\ asked[r] = Nobody
    /\ asked' = [asked EXCEPT ![r] = k]
    /\ base' = [base EXCEPT ![r] = floor[k]]
    /\ UNCHANGED <<disk, floor, got>>

Answer(r) ==
    /\ asked[r] # Nobody
    /\ \E v \in base[r]..disk[FileOf[asked[r]]] : got' = [got EXCEPT ![r] = v]
    /\ asked' = [asked EXCEPT ![r] = Nobody]
    /\ base' = [base EXCEPT ![r] = 0]
    /\ UNCHANGED <<disk, floor>>

Next ==
    \/ \E f \in Files : Change(f)
    \/ \E k \in Keys : Tell(k)
    \/ \E r \in Readers : Answer(r) \/ \E k \in Keys : Ask(r, k)

Spec == Init /\ [][Next]_vars
=============================================================================
