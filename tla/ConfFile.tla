------------------------------ MODULE ConfFile ------------------------------
(***************************************************************************)
(* /etc/txtempus.conf and update_conf of the web server                     *)
(* (web/txtempus-web.py:78-101), which each request runs in a thread of its  *)
(* own.  A thread reads the file, edits the lines, opens the temporary file, *)
(* writes it and renames it to the configuration; between any two of these   *)
(* another thread may run, and the server may be killed.                    *)
(*                                                                         *)
(* A file is an inode: a thread that has opened one goes on writing to it    *)
(* after it was renamed.  The file is shorter than Python's buffer, so it    *)
(* reaches the inode in one write when it is closed, and one read returns    *)
(* all of it: what read_conf and the scripts that source the file see is     *)
(* Conf.                                                                   *)
(***************************************************************************)
EXTENDS Naturals, Sequences, FiniteSets, SequencesExt

CONSTANTS
  Thread,         \* threads of the server that serve a request
  Key, Value,     \* settings and their values
  Width,          \* Width[v] : length of a line that sets a key to v
  Installed,      \* the files that this or an older install.sh leaves
  Request,        \* the updates the POST handlers pass, each from a set of keys
  Inode,          \* enough inodes for the two names and the open files
  MaxOverlaps     \* bound: requests from the first on that meets another one

(* A line sets a key, or is a comment, or is the end of a line that was      *)
(* overwritten.                                                            *)
Comment  == [key |-> "#", value |-> ""]
Scrap    == [key |-> "scrap", value |-> ""]
Setting  == [key : Key, value : Value]
Line     == Setting \cup {Comment, Scrap}
NoInode  == "none"
NoUpdate == <<>>

ASSUME ConfAssumption ==
  /\ Installed \subseteq Seq(Setting \cup {Comment})
  /\ {"#", "scrap"} \cap Key = {}
  /\ IsFiniteSet(Key)
  /\ \A u \in Request : DOMAIN u # {} /\ DOMAIN u \subseteq Key
                          /\ \A k \in DOMAIN u : u[k] \in Value
  /\ NoInode \notin Inode
  /\ MaxOverlaps \in Nat \ {0}

VARIABLES
  conf, tmp,      \* the inodes the two names stand for
  content,        \* content[i] : the lines of an inode
  at,             \* at[t] : the next step of a thread
  updates,        \* updates[t] : the argument of update_conf
  out,            \* out[t] : the edited lines
  fd,             \* fd[t] : the inode open for writing
  installed,      \* history: the file found at the start
  saved,          \* history: the settings after the requests that succeeded
  overlaps        \* history: requests since the first that met another one

vars == <<conf, tmp, content, at, updates, out, fd,
          installed, saved, overlaps>>

Conf == content[conf]

IsSetting(line) == line.key \in Key

(* The settings that read_conf finds in a file: the last line counts.       *)
Settings(lines) ==
  LET Lines(k) == {i \in DOMAIN lines : IsSetting(lines[i]) /\ lines[i].key = k}
      Keys     == {k \in Key : Lines(k) # {}}
      Final(k) == CHOOSE i \in Lines(k) : \A j \in Lines(k) : j <= i
  IN  [k \in Keys |-> lines[Final(k)].value]

(* What must survive an update: comments and keys, in their order.          *)
Shape(lines) == [i \in DOMAIN lines |-> lines[i].key]

-----------------------------------------------------------------------------
(* update_conf's loop over the lines, and the keys it appends.              *)
Edited(line, u) ==
  IF IsSetting(line) /\ line.key \in DOMAIN u
  THEN [line EXCEPT !.value = u[line.key]]
  ELSE line

Unseen(lines, u) ==
  {k \in DOMAIN u : \A i \in DOMAIN lines : IsSetting(lines[i]) => lines[i].key # k}

(* Mutant of Edit: keys that are not in the file yet are not appended.      *)
EditKnown(lines, u) == [i \in DOMAIN lines |-> Edited(lines[i], u)]

Edit(lines, u) ==
  [i \in DOMAIN lines |-> Edited(lines[i], u)] \o
  SetToSeq({[key |-> k, value |-> u[k]] : k \in Unseen(lines, u)})

(* Writing from the start of an inode that another thread has filled since   *)
(* this one truncated it: what is longer sticks out.                        *)
LineWidth(line) == IF IsSetting(line) THEN Width[line.value] ELSE 1
Size(lines)     == FoldSeq(LAMBDA line, n : LineWidth(line) + n, 0, lines)

Overwrite(old, new) ==
  IF old # <<>> /\ Size(old) > Size(new) THEN Append(new, Scrap) ELSE new

-----------------------------------------------------------------------------
Init ==
  /\ installed \in Installed
  /\ conf \in Inode
  /\ tmp = NoInode
  /\ content = [i \in Inode |-> IF i = conf THEN installed ELSE <<>>]
  /\ at = [t \in Thread |-> "idle"]
  /\ updates = [t \in Thread |-> NoUpdate]
  /\ out = [t \in Thread |-> <<>>]
  /\ fd = [t \in Thread |-> NoInode]
  /\ saved = Settings(installed)
  /\ overlaps = 0

(* A request arrives; the file is read and edited.                          *)
Read(t, u) ==
  /\ at[t] = "idle"
  /\ updates' = [updates EXCEPT ![t] = u]
  /\ out' = [out EXCEPT ![t] = Edit(Conf, u)]
  /\ at' = [at EXCEPT ![t] = "open"]
  /\ overlaps < MaxOverlaps
  /\ overlaps' = IF overlaps > 0 \/ \E s \in Thread : at[s] # "idle"
                 THEN overlaps + 1 ELSE 0
  /\ UNCHANGED <<conf, tmp, content, fd, installed, saved>>

(* open(tmp, "w") truncates the file if it exists, or creates it.           *)
Unused == Inode \ ({conf, tmp} \cup {fd[s] : s \in Thread})

(* Mutant of Open: a temporary file that exists is opened without           *)
(* truncating it.                                                          *)
OpenUntruncated(t) ==
  /\ at[t] = "open"
  /\ \E i \in IF tmp # NoInode THEN {tmp} ELSE Unused :
       /\ tmp' = i
       /\ fd' = [fd EXCEPT ![t] = i]
       /\ content' = IF tmp # NoInode THEN content
                     ELSE [content EXCEPT ![i] = <<>>]
  /\ at' = [at EXCEPT ![t] = "write"]
  /\ UNCHANGED <<conf, updates, out, installed, saved, overlaps>>

Open(t) ==
  /\ at[t] = "open"
  /\ \E i \in IF tmp # NoInode THEN {tmp} ELSE Unused :
       /\ tmp' = i
       /\ fd' = [fd EXCEPT ![t] = i]
       /\ content' = [content EXCEPT ![i] = <<>>]
  /\ at' = [at EXCEPT ![t] = "write"]
  /\ UNCHANGED <<conf, updates, out, installed, saved, overlaps>>

(* f.writelines(out) and the close that flushes it.                         *)
Write(t) ==
  /\ at[t] = "write"
  /\ content' = [content EXCEPT ![fd[t]] = Overwrite(@, out[t])]
  /\ fd' = [fd EXCEPT ![t] = NoInode]
  /\ out' = [out EXCEPT ![t] = <<>>]
  /\ at' = [at EXCEPT ![t] = "replace"]
  /\ UNCHANGED <<conf, tmp, updates, installed, saved, overlaps>>

Done(t) ==
  /\ at' = [at EXCEPT ![t] = "idle"]
  /\ updates' = [updates EXCEPT ![t] = NoUpdate]

(* Mutant of Replace: a link instead of a rename, the temporary name stays.  *)
ReplaceByLink(t) ==
  /\ at[t] = "replace"
  /\ tmp # NoInode
  /\ conf' = tmp
  /\ saved' = [k \in DOMAIN saved \cup DOMAIN updates[t] |->
                 IF k \in DOMAIN updates[t] THEN updates[t][k] ELSE saved[k]]
  /\ Done(t)
  /\ UNCHANGED <<content, tmp, out, fd, installed, overlaps>>

(* os.replace; the request is answered with what was saved.  The old file    *)
(* is gone unless a thread has it open.                                     *)
Replace(t) ==
  /\ at[t] = "replace"
  /\ tmp # NoInode
  /\ conf' = tmp
  /\ tmp' = NoInode
  /\ saved' = [k \in DOMAIN saved \cup DOMAIN updates[t] |->
                 IF k \in DOMAIN updates[t] THEN updates[t][k] ELSE saved[k]]
  /\ content' = IF \E s \in Thread : fd[s] = conf THEN content
                ELSE [content EXCEPT ![conf] = <<>>]
  /\ Done(t)
  /\ UNCHANGED <<out, fd, installed, overlaps>>

(* Another thread has renamed the file: os.replace raises, the request is   *)
(* not answered.                                                           *)
ReplaceFails(t) ==
  /\ at[t] = "replace"
  /\ tmp = NoInode
  /\ Done(t)
  /\ UNCHANGED <<conf, tmp, content, out, fd, installed, saved, overlaps>>

(* The server is killed and restarted: its threads and open files are gone, *)
(* the temporary file stays.                                                *)
Restart ==
  /\ \E t \in Thread : at[t] # "idle"
  /\ at' = [t \in Thread |-> "idle"]
  /\ updates' = [t \in Thread |-> NoUpdate]
  /\ out' = [t \in Thread |-> <<>>]
  /\ fd' = [t \in Thread |-> NoInode]
  /\ UNCHANGED <<conf, tmp, content, installed, saved, overlaps>>

UpdateConf(t) ==
  \/ \E u \in Request : Read(t, u)
  \/ Open(t)
  \/ Write(t)
  \/ Replace(t)
  \/ ReplaceFails(t)

Next == Restart \/ \E t \in Thread : UpdateConf(t)

Spec == Init /\ [][Next]_vars

-----------------------------------------------------------------------------
(***************************************************************************)
(* Every variable has its type; the two names never stand for one inode,    *)
(* and a thread that writes has an inode open (web/txtempus-web.py:78-101). *)
(***************************************************************************)
ConfTypeOK ==
  /\ conf \in Inode
  /\ tmp \in (Inode \cup {NoInode}) \ {conf}
  /\ DOMAIN content = Inode
  /\ \A i \in Inode : \A n \in DOMAIN content[i] : content[i][n] \in Line
  /\ at \in [Thread -> {"idle", "open", "write", "replace"}]
  /\ \A t \in Thread :
       /\ updates[t] \in Request \cup {NoUpdate}
       /\ fd[t] \in Inode <=> at[t] = "write"
       /\ updates[t] = NoUpdate <=> at[t] = "idle"
       /\ \A n \in DOMAIN out[t] : out[t][n] \in Line

(***************************************************************************)
(* Whoever reads the configuration finds a whole file: the comments and     *)
(* keys of the installed one, in their order, and what was appended later;   *)
(* never an empty file, nor the scraps of two (web/txtempus-web.py:79:       *)
(* "preserving comments/order; atomic").                                   *)
(***************************************************************************)
ConfIsWhole ==
  /\ IsPrefix(Shape(installed), Shape(Conf))
  /\ \A i \in DOMAIN Conf : Conf[i] # Scrap

(***************************************************************************)
(* As long as requests have come one after the other, the file is whole      *)
(* whenever it is read, wherever the server may have been killed before      *)
(* (web/txtempus-web.py:98-101).                                           *)
(***************************************************************************)
WholeUnlessOverlapped == overlaps = 0 => ConfIsWhole

(***************************************************************************)
(* As long as requests have come one after the other, the settings in the    *)
(* file are those of all the requests that were answered, and of no other:   *)
(* a request that was cut off by a kill leaves nothing behind                *)
(* (web/txtempus-web.py:78-101).                                           *)
(***************************************************************************)
AnsweredMeansStored == overlaps = 0 => Settings(Conf) = saved

=============================================================================
