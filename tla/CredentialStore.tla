--------------------------- MODULE CredentialStore ---------------------------
(***************************************************************************)
(* The credential store of infrastructure/credentials.py as far as it      *)
(* keeps what it was given: credentials with their versions, earlier       *)
(* values and expiry in memory, and one file that is rewritten in place    *)
(* after every change and read when the process starts.                    *)
(*                                                                         *)
(* The file is opened, which empties it, and then written; the process may *)
(* end in between. A file of another master key, or a torn one, cannot be  *)
(* read: the store then starts empty and says so in its log. One           *)
(* environment. Left out: encryption as such, descriptions and tags, and   *)
(* when a rotation is due.                                                 *)
(***************************************************************************)
EXTENDS Integers, Sequences

CONSTANTS
    Names,       \* names of credentials
    MasterKeys,  \* the keys a process may be started with; one that is given
                 \* none makes a new one
    MaxSets,     \* bound on the values set
    MaxStarts    \* bound on the starts of the process

ASSUME CredentialAssumption == MaxSets \in Nat /\ MaxStarts \in Nat

VARIABLES
    serving,  \* whether the process runs
    master,   \* _key
    held,     \* _credentials, by name; NoRecord where there is none
    file,     \* what the storage path holds
    saving,   \* _persist has opened the file
    issued,   \* number of values set so far: the next value
    starts,   \* number of starts so far
    given,    \* history: given[n]: the value n was last set to, 0 if deleted
    lossy     \* history: names whose record a torn or foreign file may have cost

credVars == <<serving, master, held, file, saving, issued, starts, given, lossy>>

\* expires: "never", in the future or passed
Entry(value, previous, version, expires) ==
    [value |-> value, previous |-> previous, version |-> version, expires |-> expires]
NoRecord == Entry(0, <<>>, 0, "never")
Nothing == [n \in Names |-> NoRecord]

\* state: absent, torn or whole
File(state, key, content) == [state |-> state, key |-> key, content |-> content]

Expiries == {"never", "later", "past"}
Records == [value : Nat, previous : Seq(Nat), version : Nat, expires : Expiries]

CredTypeOK ==
    /\ serving \in BOOLEAN /\ saving \in BOOLEAN
    /\ master \in MasterKeys
    /\ held \in [Names -> Records]
    /\ file \in [state : {"absent", "torn", "whole"}, key : MasterKeys,
                 content : [Names -> Records]]
    /\ issued \in 0..MaxSets /\ starts \in 0..MaxStarts
    /\ given \in [Names -> Nat] /\ lossy \subseteq Names

CredInit ==
    /\ serving = FALSE /\ saving = FALSE
    /\ master \in MasterKeys
    /\ held = Nothing
    /\ file = File("absent", master, Nothing)
    /\ issued = 0 /\ starts = 0
    /\ given = [n \in Names |-> 0] /\ lossy = {}

-----------------------------------------------------------------------------

(* __init__ and _load_from_disk                                            *)
StartStore(key) ==
    /\ ~serving /\ starts < MaxStarts
    /\ serving' = TRUE /\ starts' = starts + 1 /\ master' = key
    /\ LET readable == file.state = "whole" /\ file.key = key IN
       /\ held' = IF readable THEN file.content ELSE Nothing
       /\ lossy' = IF readable THEN lossy ELSE lossy \cup {n \in Names : given[n] # 0}
    /\ UNCHANGED <<file, saving, issued, given>>

\* mutant: the version forgets the value it replaces
SetForgets(n, expiring) ==
    /\ serving /\ ~saving /\ issued < MaxSets
    /\ held' = [held EXCEPT ![n] =
                   Entry(issued + 1, <<>>, @.version + 1,
                         IF expiring THEN "later" ELSE @.expires)]
    /\ issued' = issued + 1
    /\ given' = [given EXCEPT ![n] = issued + 1]
    /\ lossy' = lossy \ {n}
    /\ saving' = TRUE /\ file' = File("torn", master, Nothing)
    /\ UNCHANGED <<serving, master, starts>>

(* set, rotate and load_from_env: a credential that exists gets a new      *)
(* version; its expiry, if it has one, changes only if a new one is given. *)
(* _persist opens the file.                                                *)
Set(n, expiring) ==
    /\ serving /\ ~saving /\ issued < MaxSets
    /\ held' = [held EXCEPT ![n] =
                   Entry(issued + 1, IF @ = NoRecord THEN <<>> ELSE Append(@.previous, @.value),
                         @.version + 1, IF expiring THEN "later" ELSE @.expires)]
    /\ issued' = issued + 1
    /\ given' = [given EXCEPT ![n] = issued + 1]
    /\ lossy' = lossy \ {n}
    /\ saving' = TRUE /\ file' = File("torn", master, Nothing)
    /\ UNCHANGED <<serving, master, starts>>

(* delete                                                                  *)
Delete(n) ==
    /\ serving /\ ~saving /\ held[n] # NoRecord
    /\ held' = [held EXCEPT ![n] = NoRecord]
    /\ given' = [given EXCEPT ![n] = 0]
    /\ saving' = TRUE /\ file' = File("torn", master, Nothing)
    /\ UNCHANGED <<serving, master, issued, starts, lossy>>

(* _persist writes the file.                                               *)
Persist ==
    /\ serving /\ saving
    /\ saving' = FALSE
    /\ file' = File("whole", master, held)
    /\ UNCHANGED <<serving, master, held, issued, starts, given, lossy>>

\* the copies of one credential expire together
Aged(record) == IF record.expires = "later" THEN [record EXCEPT !.expires = "past"] ELSE record

(* Time passes, whether or not the process runs.                           *)
Expire(n) ==
    /\ "later" \in {held[n].expires, file.content[n].expires}
    /\ held' = [held EXCEPT ![n] = Aged(@)]
    /\ file' = [file EXCEPT !.content[n] = Aged(@)]
    /\ UNCHANGED <<serving, master, saving, issued, starts, given, lossy>>

(* The process ends, perhaps with the file open.                           *)
Ends ==
    /\ serving
    /\ serving' = FALSE /\ saving' = FALSE
    /\ held' = Nothing
    /\ UNCHANGED <<master, file, issued, starts, given, lossy>>

CredNext ==
    \/ Persist \/ Ends
    \/ \E k \in MasterKeys : StartStore(k)
    \/ \E n \in Names : Delete(n) \/ Expire(n) \/ \E e \in BOOLEAN : Set(n, e)

CredSpec == CredInit /\ [][CredNext]_credVars

-----------------------------------------------------------------------------
(* Properties                                                              *)

\* get: None for what is missing or has expired
Get(n) == IF held[n].expires = "past" THEN 0 ELSE held[n].value

(* A store that runs returns for each name the value it was last set to,   *)
(* unless it has expired (and then until it is set with a new expiry: a    *)
(* rotation alone does not bring it back) or the file was unreadable at a  *)
(* start since. A whole file agrees for every name that was not lost so.   *)
(* Versions count the values, and the earlier values are kept in the order *)
(* in which they were set: all of them, though only five are ever read.    *)
CredentialsKept ==
    /\ serving => \A n \in Names \ lossy : Get(n) = IF held[n].expires = "past" THEN 0 ELSE given[n]
    /\ file.state = "whole" => \A n \in Names \ lossy : file.content[n].value = given[n]
    /\ \A n \in Names : held[n] # NoRecord =>
          /\ held[n].version = Len(held[n].previous) + 1
          /\ \A i \in 1..Len(held[n].previous) :
                /\ held[n].previous[i] < held[n].value
                /\ \A j \in 1..i - 1 : held[n].previous[j] < held[n].previous[i]
=============================================================================
