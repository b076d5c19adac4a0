------------------------- MODULE WebRequests_proofs -------------------------
(***************************************************************************)
(* What update_conf makes of the configuration file while updates come one   *)
(* after the other, for any number of threads, any keys and values, any file  *)
(* to begin with, and a server that may be killed at any step; and what       *)
(* holds then of the requests to the web server, for any bodies.             *)
(***************************************************************************)
EXTENDS WebRequests, FiniteSetTheorems, SequenceTheorems, WellFoundedInduction,
        TLAPS

-----------------------------------------------------------------------------
(* The operators of the model of update_conf.                               *)

(* There is a last one among some lines of a file.                          *)
LEMMA LastExists ==
  ASSUME NEW n \in Nat, NEW S \in SUBSET (1 .. n), S # {}
  PROVE  \E i \in S : \A j \in S : j <= i
<1> DEFINE T == {k \in Nat : n - k \in S}
<1>1. PICK s \in S : TRUE
  OBVIOUS
<1>2. T \subseteq Nat /\ T # {}
  <2>1. n - s \in T
    BY <1>1
  <2> QED
    BY <2>1
<1>3. PICK k \in T : \A m \in T : ~ (<<m, k>> \in OpToRel(<, Nat))
  BY <1>2, WFMin, NatLessThanWellFounded
<1>4. \A m \in T : ~ (m < k)
  BY <1>3 DEF OpToRel
<1>5. \A j \in S : j <= n - k
  <2>1. TAKE j \in S
  <2>2. n - j \in T
    BY <2>1
  <2> QED
    BY <2>1, <2>2, <1>4
<1> QED
  BY <1>5

(* SetToSeq lists a finite set.                                             *)
LEMMA SetToSeqLists ==
  ASSUME NEW S, IsFiniteSet(S)
  PROVE  /\ SetToSeq(S) \in Seq(S)
         /\ \A x \in S : \E i \in 1 .. Len(SetToSeq(S)) : SetToSeq(S)[i] = x
<1> DEFINE n == Cardinality(S)
           f == SetToSeq(S)
<1>1. n \in Nat /\ ExistsBijection(1..n, S)
  BY FS_CardinalityType
<1>2. \E g \in [1..n -> S] : IsInjective(g)
  BY <1>1 DEF ExistsBijection, Bijection, Injection
<1>3. f \in [1..n -> S] /\ IsInjective(f)
  BY <1>2 DEF SetToSeq
<1>4. f \in Injection(1..n, S)
  BY <1>3 DEF Injection
<1>5. IsFiniteSet(1..n) /\ Cardinality(1..n) = n
  BY <1>1, FS_Interval
<1>6. f \in Surjection(1..n, S)
  BY <1>4, <1>5, FS_Injection
<1>7. f \in Seq(S) /\ Len(f) = n
  BY <1>1, <1>3
<1> QED
  BY <1>6, <1>7 DEF Surjection

(* A prefix, element by element.                                           *)
LEMMA PrefixByElements ==
  ASSUME NEW S, NEW s \in Seq(S), NEW t \in Seq(S), Len(s) <= Len(t),
         \A i \in 1 .. Len(s) : s[i] = t[i]
  PROVE  IsPrefix(s, t)
<1>1. SubSeq(s, 1, Len(s)) = [i \in 1 .. Len(s) |-> s[i]]
  OBVIOUS
<1>2. SubSeq(t, 1, Len(s)) = [i \in 1 .. Len(s) |-> t[i]]
  OBVIOUS
<1> QED
  BY <1>1, <1>2 DEF IsPrefix

-----------------------------------------------------------------------------
(* The settings of a file are those that some line sets ...                 *)
LEMMA SettingsDomain ==
  ASSUME NEW lines \in Seq(Line)
  PROVE  DOMAIN Settings(lines)
           = {k \in Key : \E i \in 1 .. Len(lines) :
                            IsSetting(lines[i]) /\ lines[i].key = k}
BY DEF Settings

(* ... each with the value of the last such line.                           *)
LEMMA SettingsLast ==
  ASSUME NEW lines \in Seq(Line), NEW k \in DOMAIN Settings(lines)
  PROVE  \E i \in 1 .. Len(lines) :
           /\ IsSetting(lines[i]) /\ lines[i].key = k
           /\ \A j \in 1 .. Len(lines) :
                IsSetting(lines[j]) /\ lines[j].key = k => j <= i
           /\ Settings(lines)[k] = lines[i].value
<1> DEFINE Lines == {i \in DOMAIN lines : IsSetting(lines[i]) /\ lines[i].key = k}
           final == CHOOSE i \in Lines : \A j \in Lines : j <= i
<1>1. Lines \subseteq 1 .. Len(lines) /\ Len(lines) \in Nat
  OBVIOUS
<1>2. Lines # {}
  <2>1. PICK i \in 1 .. Len(lines) : IsSetting(lines[i]) /\ lines[i].key = k
    BY SettingsDomain
  <2> QED
    BY <2>1
<1>3. \E i \in Lines : \A j \in Lines : j <= i
  <2> HIDE DEF Lines
  <2> QED
    BY <1>1, <1>2, LastExists
<1>4. final \in Lines /\ \A j \in Lines : j <= final
  <2> HIDE DEF Lines
  <2> QED
    BY <1>3
<1>5. Settings(lines)[k] = lines[final].value
  BY SettingsDomain DEF Settings
<1> QED
  <2> HIDE DEF final
  <2> QED
    BY <1>4, <1>5

(* Two last lines are the same one.                                        *)
LEMMA SettingsOfLast ==
  ASSUME NEW lines \in Seq(Line), NEW i \in 1 .. Len(lines),
         IsSetting(lines[i]),
         \A j \in 1 .. Len(lines) :
           IsSetting(lines[j]) /\ lines[j].key = lines[i].key => j <= i
  PROVE  /\ lines[i].key \in DOMAIN Settings(lines)
         /\ Settings(lines)[lines[i].key] = lines[i].value
<1>1. lines[i].key \in DOMAIN Settings(lines)
  BY SettingsDomain DEF IsSetting
<1>2. PICK j \in 1 .. Len(lines) :
        /\ IsSetting(lines[j]) /\ lines[j].key = lines[i].key
        /\ \A m \in 1 .. Len(lines) :
             IsSetting(lines[m]) /\ lines[m].key = lines[i].key => m <= j
        /\ Settings(lines)[lines[i].key] = lines[j].value
  BY <1>1, SettingsLast
<1>3. i = j
  BY <1>2
<1> QED
  BY <1>1, <1>2, <1>3

-----------------------------------------------------------------------------
(* update_conf's edit.  The lines of the file stay where they are, each with  *)
(* its key; settings of new keys follow.                                   *)
IsUpdate(u) == DOMAIN u \subseteq Key /\ \A k \in DOMAIN u : u[k] \in Value

Appended(lines, u) ==
  SetToSeq({[key |-> k, value |-> u[k]] : k \in Unseen(lines, u)})

(* A line is a setting exactly if it is in Setting.                         *)
LEMMA LineKinds ==
  /\ \A line \in Setting : IsSetting(line)
  /\ ~ IsSetting(Comment) /\ ~ IsSetting(Scrap)
  /\ Comment \notin Setting /\ Scrap \notin Setting
  /\ Scrap # Comment
BY ConfAssumption DEF Setting, Comment, Scrap, IsSetting

LEMMA AppendedLines ==
  ASSUME NEW lines \in Seq(Line), NEW u, IsUpdate(u)
  PROVE  /\ Appended(lines, u) \in Seq(Setting)
         /\ \A j \in 1 .. Len(Appended(lines, u)) :
              \E k \in DOMAIN u : Appended(lines, u)[j] = [key |-> k, value |-> u[k]]
         /\ \A k \in Unseen(lines, u) : \E j \in 1 .. Len(Appended(lines, u)) :
              Appended(lines, u)[j] = [key |-> k, value |-> u[k]]
<1> DEFINE New == {[key |-> k, value |-> u[k]] : k \in Unseen(lines, u)}
<1>1. IsFiniteSet(Unseen(lines, u))
  <2>1. Unseen(lines, u) \subseteq Key
    BY DEF Unseen, IsUpdate
  <2> QED
    BY <2>1, ConfAssumption, FS_Subset
<1>2. IsFiniteSet(New)
  <2> DEFINE f == [k \in Unseen(lines, u) |-> [key |-> k, value |-> u[k]]]
  <2>1. f \in Surjection(Unseen(lines, u), New)
    BY DEF Surjection
  <2> HIDE DEF f, New
  <2> QED
    BY <1>1, <2>1, FS_Surjection
<1>3. New \subseteq Setting
  BY DEF Unseen, IsUpdate, Setting
<1>4. /\ SetToSeq(New) \in Seq(New)
      /\ \A x \in New : \E i \in 1 .. Len(SetToSeq(New)) : SetToSeq(New)[i] = x
  <2> HIDE DEF New
  <2> QED
    BY <1>2, SetToSeqLists
<1>5. Appended(lines, u) = SetToSeq(New)
  BY DEF Appended
<1>6. Appended(lines, u) \in Seq(Setting)
  BY <1>3, <1>4, <1>5
<1>7. ASSUME NEW j \in 1 .. Len(Appended(lines, u))
      PROVE  \E k \in DOMAIN u : Appended(lines, u)[j] = [key |-> k, value |-> u[k]]
  <2>1. Appended(lines, u)[j] \in New
    <3> HIDE DEF New
    <3> QED
      BY <1>4, <1>5
  <2> QED
    BY <2>1 DEF Unseen
<1>8. ASSUME NEW k \in Unseen(lines, u)
      PROVE  \E j \in 1 .. Len(Appended(lines, u)) :
               Appended(lines, u)[j] = [key |-> k, value |-> u[k]]
  BY <1>4, <1>5
<1> QED
  BY <1>6, <1>7, <1>8

LEMMA EditedLine ==
  ASSUME NEW line \in Line, NEW u, IsUpdate(u)
  PROVE  /\ Edited(line, u) \in Line
         /\ Edited(line, u).key = line.key
         /\ line.key \notin DOMAIN u => Edited(line, u) = line
         /\ IsSetting(line) /\ line.key \in DOMAIN u =>
              Edited(line, u).value = u[line.key]
         /\ Edited(line, u) = Scrap => line = Scrap
BY LineKinds DEF Edited, IsUpdate, Line, Setting, IsSetting

LEMMA EditLines ==
  ASSUME NEW lines \in Seq(Line), NEW u, IsUpdate(u)
  PROVE  /\ Edit(lines, u) \in Seq(Line)
         /\ Len(Edit(lines, u)) = Len(lines) + Len(Appended(lines, u))
         /\ \A i \in 1 .. Len(lines) : Edit(lines, u)[i] = Edited(lines[i], u)
         /\ \A j \in 1 .. Len(Appended(lines, u)) :
              Edit(lines, u)[Len(lines) + j] = Appended(lines, u)[j]
<1> DEFINE old == [i \in DOMAIN lines |-> Edited(lines[i], u)]
<1>1. old \in Seq(Line) /\ Len(old) = Len(lines)
  <2>1. DOMAIN lines = 1 .. Len(lines) /\ Len(lines) \in Nat
    OBVIOUS
  <2>2. \A i \in 1 .. Len(lines) : Edited(lines[i], u) \in Line
    BY <2>1, EditedLine
  <2>3. old \in [1 .. Len(lines) -> Line]
    BY <2>1, <2>2
  <2> HIDE DEF old
  <2> QED
    BY <2>1, <2>3
<1>2. Appended(lines, u) \in Seq(Line)
  BY AppendedLines DEF Line
<1>3. Edit(lines, u) = old \o Appended(lines, u)
  BY DEF Edit, Appended
<1> HIDE DEF old
<1>4. /\ old \o Appended(lines, u) \in Seq(Line)
      /\ Len(old \o Appended(lines, u)) = Len(old) + Len(Appended(lines, u))
      /\ \A i \in 1 .. Len(old) : (old \o Appended(lines, u))[i] = old[i]
      /\ \A j \in 1 .. Len(Appended(lines, u)) :
           (old \o Appended(lines, u))[Len(old) + j] = Appended(lines, u)[j]
  BY <1>1, <1>2
<1>5. \A i \in 1 .. Len(lines) : old[i] = Edited(lines[i], u)
  BY DEF old
<1> QED
  BY <1>1, <1>3, <1>4, <1>5

(* A setting of the edited file with a key of the update has its value; the   *)
(* others are those of the file as it was.                                 *)
LEMMA EditedSettings ==
  ASSUME NEW lines \in Seq(Line), NEW u, IsUpdate(u), NEW i \in 1 .. Len(Edit(lines, u)),
         IsSetting(Edit(lines, u)[i])
  PROVE  /\ Edit(lines, u)[i].key \in DOMAIN u =>
              Edit(lines, u)[i].value = u[Edit(lines, u)[i].key]
         /\ Edit(lines, u)[i].key \notin DOMAIN u =>
              i \in 1 .. Len(lines) /\ Edit(lines, u)[i] = lines[i]
<1>1. Len(lines) \in Nat /\ Len(Appended(lines, u)) \in Nat
  BY AppendedLines
<1>2. CASE i \in 1 .. Len(lines)
  <2>1. /\ lines[i] \in Line
        /\ Edit(lines, u)[i] = Edited(lines[i], u)
    BY <1>2, EditLines
  <2>2. /\ Edit(lines, u)[i].key = lines[i].key
        /\ lines[i].key \notin DOMAIN u => Edit(lines, u)[i] = lines[i]
        /\ IsSetting(lines[i]) /\ lines[i].key \in DOMAIN u =>
             Edit(lines, u)[i].value = u[lines[i].key]
    BY <2>1, EditedLine
  <2> QED
    BY <1>2, <2>2 DEF IsSetting
<1>3. CASE i \notin 1 .. Len(lines)
  <2> DEFINE j == i - Len(lines)
  <2>1. j \in 1 .. Len(Appended(lines, u)) /\ i = Len(lines) + j
    BY <1>1, <1>3, EditLines, SMTT(30)
  <2>2. Edit(lines, u)[i] = Appended(lines, u)[j]
    BY <2>1, EditLines
  <2>3. \E k \in DOMAIN u : Edit(lines, u)[i] = [key |-> k, value |-> u[k]]
    BY <2>1, <2>2, AppendedLines
  <2> QED
    BY <2>3
<1> QED
  BY <1>2, <1>3

(* Every key of the update is set by some line of the edited file.          *)
LEMMA UpdateIsInFile ==
  ASSUME NEW lines \in Seq(Line), NEW u, IsUpdate(u), NEW k \in DOMAIN u
  PROVE  \E i \in 1 .. Len(Edit(lines, u)) :
           IsSetting(Edit(lines, u)[i]) /\ Edit(lines, u)[i].key = k
<1>1. Len(lines) \in Nat /\ Len(Appended(lines, u)) \in Nat
  BY AppendedLines
<1>2. k \in Key
  BY DEF IsUpdate
<1>3. CASE k \in Unseen(lines, u)
  <2>1. PICK j \in 1 .. Len(Appended(lines, u)) :
          Appended(lines, u)[j] = [key |-> k, value |-> u[k]]
    BY <1>3, AppendedLines
  <2>2. Edit(lines, u)[Len(lines) + j].key = k
    BY <2>1, EditLines
  <2>3. Len(lines) + j \in 1 .. Len(Edit(lines, u))
    BY <1>1, EditLines
  <2> QED
    BY <1>2, <2>2, <2>3 DEF IsSetting
<1>4. CASE k \notin Unseen(lines, u)
  <2>1. PICK i \in DOMAIN lines : IsSetting(lines[i]) /\ lines[i].key = k
    BY <1>4 DEF Unseen
  <2>2. i \in 1 .. Len(lines) /\ lines[i] \in Line
    OBVIOUS
  <2>3. Edit(lines, u)[i].key = k
    BY <2>1, <2>2, EditLines, EditedLine
  <2>4. i \in 1 .. Len(Edit(lines, u))
    BY <1>1, <2>2, EditLines
  <2> QED
    BY <1>2, <2>3, <2>4 DEF IsSetting
<1> QED
  BY <1>3, <1>4

LEMMA UntouchedLine ==
  ASSUME NEW lines \in Seq(Line), NEW u, IsUpdate(u), NEW i \in 1 .. Len(lines),
         lines[i].key \notin DOMAIN u
  PROVE  i \in 1 .. Len(Edit(lines, u)) /\ Edit(lines, u)[i] = lines[i]
<1>1. Len(lines) \in Nat /\ Len(Appended(lines, u)) \in Nat
  BY AppendedLines
<1>2. lines[i] \in Line
  OBVIOUS
<1>3. Edit(lines, u)[i] = lines[i]
  BY <1>2, EditLines, EditedLine
<1> QED
  BY <1>1, <1>3, EditLines

Merged(settings, u) ==
  [k \in DOMAIN settings \cup DOMAIN u |->
     IF k \in DOMAIN u THEN u[k] ELSE settings[k]]

(* What read_conf finds in the edited file are the settings it found before,  *)
(* with those of the update in their places.                               *)
LEMMA EditMerges ==
  ASSUME NEW lines \in Seq(Line), NEW u, IsUpdate(u)
  PROVE  Settings(Edit(lines, u)) = Merged(Settings(lines), u)
<1> DEFINE e == Edit(lines, u)
<1>1. lines \in Seq(Line) /\ e \in Seq(Line)
  BY EditLines
<1>2. DOMAIN Settings(e) = DOMAIN Settings(lines) \cup DOMAIN u
  <2>1. ASSUME NEW k \in DOMAIN Settings(e), k \notin DOMAIN u
        PROVE  k \in DOMAIN Settings(lines)
    <3>1. PICK i \in 1 .. Len(e) : IsSetting(e[i]) /\ e[i].key = k
      BY <1>1, SettingsDomain
    <3>2. i \in 1 .. Len(lines) /\ e[i] = lines[i]
      BY <2>1, <3>1, EditedSettings
    <3> QED
      BY <1>1, <3>1, <3>2, SettingsDomain DEF IsSetting
  <2>2. ASSUME NEW k \in DOMAIN u
        PROVE  k \in DOMAIN Settings(e)
    <3>1. k \in Key
      BY DEF IsUpdate
    <3>2. PICK i \in 1 .. Len(e) : IsSetting(e[i]) /\ e[i].key = k
      BY UpdateIsInFile
    <3> HIDE DEF e
    <3> QED
      BY <1>1, <3>1, <3>2, SettingsDomain
  <2>3. ASSUME NEW k \in DOMAIN Settings(lines), k \notin DOMAIN u
        PROVE  k \in DOMAIN Settings(e)
    <3>1. PICK i \in 1 .. Len(lines) : IsSetting(lines[i]) /\ lines[i].key = k
      BY <1>1, SettingsDomain
    <3>2. i \in 1 .. Len(e) /\ e[i] = lines[i]
      BY <2>3, <3>1, UntouchedLine
    <3> QED
      BY <1>1, <3>1, <3>2, SettingsDomain DEF IsSetting
  <2> HIDE DEF e
  <2> QED
    BY <2>1, <2>2, <2>3
<1>3. ASSUME NEW k \in DOMAIN Settings(e), k \in DOMAIN u
      PROVE  Settings(e)[k] = u[k]
  <2>1. PICK i \in 1 .. Len(e) :
          IsSetting(e[i]) /\ e[i].key = k /\ Settings(e)[k] = e[i].value
    BY <1>1, SettingsLast
  <2> QED
    BY <1>3, <2>1, EditedSettings
<1>4. ASSUME NEW k \in DOMAIN Settings(e), k \notin DOMAIN u
      PROVE  Settings(e)[k] = Settings(lines)[k]
  <2>1. PICK i \in 1 .. Len(e) :
          /\ IsSetting(e[i]) /\ e[i].key = k
          /\ \A j \in 1 .. Len(e) : IsSetting(e[j]) /\ e[j].key = k => j <= i
          /\ Settings(e)[k] = e[i].value
    <3> HIDE DEF e
    <3> QED
      BY <1>1, SettingsLast
  <2>2. i \in 1 .. Len(lines) /\ e[i] = lines[i]
    BY <1>4, <2>1, EditedSettings
  <2>3. ASSUME NEW j \in 1 .. Len(lines), IsSetting(lines[j]), lines[j].key = k
        PROVE  j <= i
    <3>1. j \in 1 .. Len(e) /\ e[j] = lines[j]
      BY <1>4, <2>3, UntouchedLine
    <3> QED
      BY <2>1, <2>3, <3>1
  <2> HIDE DEF e
  <2>4. Settings(lines)[lines[i].key] = lines[i].value
    BY <1>1, <2>1, <2>2, <2>3, SettingsOfLast
  <2> QED
    BY <2>1, <2>2, <2>4
<1>5. Settings(e) = [k \in DOMAIN Settings(e) |-> Settings(e)[k]]
  BY DEF Settings
<1> HIDE DEF e
<1>6. Settings(e) = Merged(Settings(lines), u)
  BY <1>2, <1>3, <1>4, <1>5 DEF Merged
<1> QED
  BY <1>6 DEF e

(* The edited file keeps the comments and keys of a file, and no scraps come  *)
(* into it.                                                                *)
Keeps(lines, new) ==
  /\ Len(lines) <= Len(new)
  /\ \A i \in 1 .. Len(lines) : lines[i].key = new[i].key

Clean(lines) == \A i \in DOMAIN lines : lines[i] # Scrap

LEMMA EditKeeps ==
  ASSUME NEW lines \in Seq(Line), NEW u, IsUpdate(u)
  PROVE  /\ Edit(lines, u) \in Seq(Line)
         /\ Keeps(lines, Edit(lines, u))
         /\ Clean(lines) => Clean(Edit(lines, u))
<1>1. Len(lines) \in Nat /\ Len(Appended(lines, u)) \in Nat
  BY AppendedLines
<1>2. ASSUME NEW i \in 1 .. Len(lines)
      PROVE  /\ Edit(lines, u)[i].key = lines[i].key
             /\ Edit(lines, u)[i] = Scrap => lines[i] = Scrap
  BY EditLines, EditedLine
<1>3. ASSUME NEW j \in 1 .. Len(Appended(lines, u))
      PROVE  Edit(lines, u)[Len(lines) + j] # Scrap
  <2>1. Appended(lines, u)[j] \in Setting
    BY AppendedLines
  <2> QED
    BY <2>1, EditLines, LineKinds
<1>4. Keeps(lines, Edit(lines, u))
  BY <1>1, <1>2, EditLines DEF Keeps
<1>5. ASSUME Clean(lines), NEW i \in DOMAIN Edit(lines, u)
      PROVE  Edit(lines, u)[i] # Scrap
  <2>1. i \in 1 .. Len(Edit(lines, u))
    BY EditLines
  <2>2. CASE i \in 1 .. Len(lines)
    BY <1>2, <1>5, <2>2 DEF Clean
  <2>3. CASE i \notin 1 .. Len(lines)
    <3>1. i - Len(lines) \in 1 .. Len(Appended(lines, u))
          /\ i = Len(lines) + (i - Len(lines))
      BY <1>1, <2>1, <2>3, EditLines
    <3> QED
      BY <1>3, <3>1
  <2> QED
    BY <2>2, <2>3
<1> QED
  BY <1>4, <1>5, EditLines DEF Clean

LEMMA KeepsAll ==
  ASSUME NEW a \in Seq(Line), NEW b \in Seq(Line), NEW c \in Seq(Line),
         Keeps(a, b), Keeps(b, c)
  PROVE  Keeps(a, c)
BY DEF Keeps

LEMMA KeepsIsPrefix ==
  ASSUME NEW a \in Seq(Line), NEW b \in Seq(Line), Keeps(a, b)
  PROVE  IsPrefix(Shape(a), Shape(b))
<1> DEFINE S == {line.key : line \in Line}
<1>1. /\ Shape(a) \in Seq(S) /\ Len(Shape(a)) = Len(a)
      /\ \A i \in 1 .. Len(a) : Shape(a)[i] = a[i].key
  BY DEF Shape
<1>2. /\ Shape(b) \in Seq(S) /\ Len(Shape(b)) = Len(b)
      /\ \A i \in 1 .. Len(b) : Shape(b)[i] = b[i].key
  BY DEF Shape
<1>3. \A i \in 1 .. Len(Shape(a)) : Shape(a)[i] = Shape(b)[i]
  BY <1>1, <1>2 DEF Keeps
<1> HIDE DEF S
<1> QED
  BY <1>1, <1>2, <1>3, PrefixByElements DEF Keeps

LEMMA OverwriteLines ==
  ASSUME NEW old, NEW new \in Seq(Line)
  PROVE  /\ Overwrite(old, new) \in Seq(Line)
         /\ Overwrite(<<>>, new) = new
<1>1. Scrap \in Line
  BY DEF Line
<1> QED
  BY <1>1 DEF Overwrite

-----------------------------------------------------------------------------
(* The inductive invariant.  While no two requests have met, at most one      *)
(* thread is at work; the configuration is good and has the saved settings,   *)
(* and what the thread has edited, and then written to a file that was empty, *)
(* is good and has them merged with its update.                            *)
Types ==
  /\ conf \in Inode
  /\ tmp \in (Inode \cup {NoInode}) \ {conf}
  /\ content \in [Inode -> Seq(Line)]
  /\ at \in [Thread -> {"idle", "open", "write", "replace"}]
  /\ updates \in [Thread -> Request \cup {NoUpdate}]
  /\ out \in [Thread -> Seq(Line)]
  /\ fd \in [Thread -> Inode \cup {NoInode}]
  /\ installed \in Seq(Line)
  /\ overlaps \in Nat

Steps ==
  \A t \in Thread :
    /\ fd[t] \in Inode <=> at[t] = "write"
    /\ updates[t] = NoUpdate <=> at[t] = "idle"

Good(lines, settings) ==
  Keeps(installed, lines) /\ Clean(lines) /\ Settings(lines) = settings

OneAtATime == \A s, t \in Thread : at[s] # "idle" /\ at[t] # "idle" => s = t

ConfGood == Good(Conf, saved)

OutGood ==
  \A t \in Thread : at[t] \in {"open", "write"} =>
    Good(out[t], Merged(saved, updates[t]))

TmpEmpty ==
  \A t \in Thread : at[t] = "write" => fd[t] = tmp /\ content[tmp] = <<>>

TmpGood ==
  \A t \in Thread : at[t] = "replace" =>
    tmp # NoInode /\ Good(content[tmp], Merged(saved, updates[t]))

Alone == OneAtATime /\ ConfGood /\ OutGood /\ TmpEmpty /\ TmpGood

IInv == Types /\ Steps /\ (overlaps = 0 => Alone)

LEMMA RequestIsUpdate ==
  ASSUME NEW u \in Request
  PROVE  IsUpdate(u) /\ u # NoUpdate
BY ConfAssumption DEF IsUpdate, NoUpdate

LEMMA InstalledIsGood ==
  ASSUME NEW lines \in Installed
  PROVE  lines \in Seq(Line) /\ Clean(lines) /\ Keeps(lines, lines)
<1>1. lines \in Seq(Setting \cup {Comment})
  BY ConfAssumption
<1>2. \A i \in DOMAIN lines : lines[i] \in Setting \cup {Comment}
  BY <1>1
<1>3. lines \in Seq(Line)
  BY <1>1 DEF Line
<1> QED
  BY <1>2, <1>3, LineKinds DEF Clean, Keeps

LEMMA InitIInv == Init => IInv
<1> SUFFICES ASSUME Init PROVE IInv
  OBVIOUS
<1> USE DEF Init
<1>1. installed \in Seq(Line) /\ Clean(installed) /\ Keeps(installed, installed)
  BY InstalledIsGood
<1>2. Types
  BY <1>1, ConfAssumption DEF Types
<1>3. Steps
  BY ConfAssumption DEF Steps
<1>4. Alone
  BY <1>1 DEF Alone, OneAtATime, ConfGood, OutGood, TmpEmpty, TmpGood, Good, Conf
<1> QED
  BY <1>2, <1>3, <1>4 DEF IInv

LEMMA ReadIInv ==
  ASSUME IInv, NEW t \in Thread, NEW u \in Request, Read(t, u)
  PROVE  IInv'
<1> USE DEF Read
<1>1. IsUpdate(u) /\ u # NoUpdate
  BY RequestIsUpdate
<1>2. Conf \in Seq(Line)
  BY DEF IInv, Types, Conf
<1>3. /\ Edit(Conf, u) \in Seq(Line)
      /\ Keeps(Conf, Edit(Conf, u))
      /\ Clean(Conf) => Clean(Edit(Conf, u))
  BY <1>1, <1>2, EditKeeps
<1>4. Types'
  BY <1>3 DEF IInv, Types
<1>5. Steps'
  BY <1>1, ConfAssumption DEF IInv, Types, Steps
<1>6. ASSUME overlaps' = 0
      PROVE  Alone'
  <2>1. overlaps = 0 /\ \A s \in Thread : at[s] = "idle"
    BY <1>6 DEF IInv, Types
  <2>2. Alone /\ ConfGood
    BY <2>1 DEF IInv, Alone
  <2>3. \A s \in Thread : at'[s] = IF s = t THEN "open" ELSE "idle"
    BY <2>1 DEF IInv, Types
  <2>4. OneAtATime' /\ TmpEmpty' /\ TmpGood'
    BY <2>3 DEF OneAtATime, TmpEmpty, TmpGood
  <2>5. ConfGood'
    BY <2>2 DEF ConfGood, Conf, Good
  <2>6. Settings(Edit(Conf, u)) = Merged(saved, u)
    BY <1>1, <1>2, <2>2, EditMerges DEF ConfGood, Good
  <2>7. Keeps(installed, Edit(Conf, u))
    BY <1>2, <1>3, <2>2, KeepsAll DEF ConfGood, Good, IInv, Types
  <2>8. Good(Edit(Conf, u), Merged(saved, u))
    BY <1>3, <2>2, <2>6, <2>7 DEF ConfGood, Good
  <2>9. out'[t] = Edit(Conf, u) /\ updates'[t] = u
    BY DEF IInv, Types
  <2>10. OutGood'
    BY <2>3, <2>8, <2>9 DEF OutGood, Good
  <2> QED
    BY <2>4, <2>5, <2>10 DEF Alone
<1> QED
  BY <1>4, <1>5, <1>6 DEF IInv

LEMMA OpenIInv ==
  ASSUME IInv, NEW t \in Thread, Open(t)
  PROVE  IInv'
<1>1. PICK i \in Inode \ {conf} :
        /\ at[t] = "open"
        /\ tmp' = i
        /\ fd' = [fd EXCEPT ![t] = i]
        /\ content' = [content EXCEPT ![i] = <<>>]
        /\ at' = [at EXCEPT ![t] = "write"]
        /\ UNCHANGED <<conf, updates, out, installed, saved, overlaps>>
  BY DEF Open, Unused, IInv, Types
<1>2. Types'
  BY <1>1 DEF IInv, Types
<1>3. Steps'
  BY <1>1 DEF IInv, Types, Steps
<1>4. ASSUME overlaps' = 0
      PROVE  Alone'
  <2>1. Alone
    BY <1>1, <1>4 DEF IInv
  <2>2. \A s \in Thread : at'[s] = IF s = t THEN "write" ELSE "idle"
    BY <1>1, <2>1 DEF Alone, OneAtATime, IInv, Types
  <2>3. OneAtATime' /\ TmpGood'
    BY <2>2 DEF OneAtATime, TmpGood
  <2>4. ConfGood'
    BY <1>1, <2>1 DEF Alone, ConfGood, Conf, Good, IInv, Types
  <2>5. OutGood'
    BY <1>1, <2>1, <2>2 DEF Alone, OutGood, Good
  <2>6. TmpEmpty'
    BY <1>1, <2>2 DEF TmpEmpty, IInv, Types
  <2> QED
    BY <2>3, <2>4, <2>5, <2>6 DEF Alone
<1> QED
  BY <1>2, <1>3, <1>4 DEF IInv

LEMMA WriteIInv ==
  ASSUME IInv, NEW t \in Thread, Write(t)
  PROVE  IInv'
<1> USE DEF Write
<1>1. fd[t] \in Inode /\ out[t] \in Seq(Line)
  BY DEF IInv, Types, Steps
<1>2. Overwrite(content[fd[t]], out[t]) \in Seq(Line)
  BY <1>1, OverwriteLines
<1>3. Types'
  <2>1. content' \in [Inode -> Seq(Line)]
    BY <1>1, <1>2 DEF IInv, Types
  <2>2. <<>> \in Seq(Line)
    OBVIOUS
  <2>3. out' \in [Thread -> Seq(Line)]
    BY <2>2 DEF IInv, Types
  <2> QED
    BY <2>1, <2>3 DEF IInv, Types
<1>4. Steps'
  BY ConfAssumption DEF IInv, Types, Steps
<1>5. ASSUME overlaps' = 0
      PROVE  Alone'
  <2>1. Alone
    BY <1>5 DEF IInv
  <2>2. \A s \in Thread : at'[s] = IF s = t THEN "replace" ELSE "idle"
    BY <2>1 DEF Alone, OneAtATime, IInv, Types
  <2>3. fd[t] = tmp /\ content[tmp] = <<>> /\ tmp # conf /\ tmp # NoInode
    BY <1>1, <2>1, ConfAssumption DEF Alone, TmpEmpty, IInv, Types
  <2>4. content' = [content EXCEPT ![tmp] = out[t]]
    BY <1>1, <2>3, OverwriteLines DEF IInv, Types
  <2>5. OneAtATime' /\ OutGood' /\ TmpEmpty'
    BY <2>2 DEF OneAtATime, OutGood, TmpEmpty
  <2>6. ConfGood'
    BY <2>1, <2>3, <2>4 DEF Alone, ConfGood, Conf, Good, IInv, Types
  <2>7. content'[tmp] = out[t]
    BY <1>1, <2>3, <2>4 DEF IInv, Types
  <2>8. TmpGood'
    BY <2>1, <2>2, <2>3, <2>7 DEF Alone, OutGood, TmpGood, Good
  <2> QED
    BY <2>5, <2>6, <2>8 DEF Alone
<1> QED
  BY <1>3, <1>4, <1>5 DEF IInv

LEMMA ReplaceIInv ==
  ASSUME IInv, NEW t \in Thread, Replace(t)
  PROVE  IInv'
<1> USE DEF Replace, Done
<1>1. tmp \in Inode /\ tmp # conf
  BY DEF IInv, Types
<1>2. Types'
  <2>1. content' \in [Inode -> Seq(Line)]
    <3>1. <<>> \in Seq(Line)
      OBVIOUS
    <3>2. content \in [Inode -> Seq(Line)]
      BY DEF IInv, Types
    <3> QED
      BY <3>1, <3>2
  <2>2. conf' \in Inode /\ tmp' \in (Inode \cup {NoInode}) \ {conf'}
    BY <1>1, ConfAssumption
  <2> QED
    BY <2>1, <2>2 DEF IInv, Types
<1>3. Steps'
  BY DEF IInv, Types, Steps
<1>4. ASSUME overlaps' = 0
      PROVE  Alone'
  <2>1. Alone
    BY <1>4 DEF IInv
  <2>2. \A s \in Thread : at'[s] = "idle"
    BY <2>1 DEF Alone, OneAtATime, IInv, Types
  <2>3. OneAtATime' /\ OutGood' /\ TmpEmpty' /\ TmpGood'
    BY <2>2 DEF OneAtATime, OutGood, TmpEmpty, TmpGood
  <2>4. content'[conf'] = content[tmp]
    BY <1>1 DEF IInv, Types
  <2>5. saved' = Merged(saved, updates[t])
    BY DEF Merged
  <2>6. ConfGood'
    BY <2>1, <2>4, <2>5 DEF Alone, TmpGood, ConfGood, Conf, Good
  <2> QED
    BY <2>3, <2>6 DEF Alone
<1> QED
  BY <1>2, <1>3, <1>4 DEF IInv

LEMMA ReplaceFailsIInv ==
  ASSUME IInv, NEW t \in Thread, ReplaceFails(t)
  PROVE  IInv'
<1> USE DEF ReplaceFails, Done
<1>1. Types'
  BY DEF IInv, Types
<1>2. Steps'
  BY DEF IInv, Types, Steps
<1>3. overlaps' # 0
  BY DEF IInv, Alone, TmpGood
<1> QED
  BY <1>1, <1>2, <1>3 DEF IInv

LEMMA RestartIInv ==
  ASSUME IInv, Restart
  PROVE  IInv'
<1> USE DEF Restart
<1>1. Types'
  BY DEF IInv, Types
<1>2. Steps'
  BY ConfAssumption DEF Steps
<1>3. ASSUME overlaps' = 0
      PROVE  Alone'
  <2>1. ConfGood
    BY <1>3 DEF IInv, Alone
  <2> QED
    BY <2>1 DEF Alone, OneAtATime, ConfGood, OutGood, TmpEmpty, TmpGood, Conf, Good
<1> QED
  BY <1>1, <1>2, <1>3 DEF IInv

LEMMA NextIInv == IInv /\ [Next]_vars => IInv'
<1> SUFFICES ASSUME IInv, [Next]_vars PROVE IInv'
  OBVIOUS
<1>1. CASE Restart
  BY <1>1, RestartIInv
<1>2. ASSUME NEW t \in Thread, UpdateConf(t) PROVE IInv'
  BY <1>2, ReadIInv, OpenIInv, WriteIInv, ReplaceIInv, ReplaceFailsIInv
     DEF UpdateConf
<1>3. CASE UNCHANGED vars
  BY <1>3 DEF vars, IInv, Types, Steps, Alone, OneAtATime, ConfGood, OutGood,
              TmpEmpty, TmpGood, Good, Conf
<1> QED
  BY <1>1, <1>2, <1>3 DEF Next

LEMMA SpecIInv == Spec => []IInv
<1> QED
  BY InitIInv, NextIInv, PTL DEF Spec

-----------------------------------------------------------------------------
(* What the runs check follows from the invariant.                          *)
LEMMA IInvTypes == IInv => ConfTypeOK
<1> SUFFICES ASSUME IInv PROVE ConfTypeOK
  OBVIOUS
<1>1. Types /\ Steps
  BY DEF IInv
<1>2. \A lines \in Seq(Line) : \A n \in DOMAIN lines : lines[n] \in Line
  OBVIOUS
<1> QED
  BY <1>1, <1>2 DEF Types, Steps, ConfTypeOK

LEMMA IInvWhole == IInv => WholeUnlessOverlapped
<1> SUFFICES ASSUME IInv, overlaps = 0 PROVE ConfIsWhole
  BY DEF WholeUnlessOverlapped
<1>1. Conf \in Seq(Line) /\ installed \in Seq(Line)
  BY DEF IInv, Types, Conf
<1>2. Keeps(installed, Conf) /\ Clean(Conf)
  BY DEF IInv, Alone, ConfGood, Good
<1> QED
  BY <1>1, <1>2, KeepsIsPrefix DEF ConfIsWhole, Clean

LEMMA IInvStored == IInv => AnsweredMeansStored
BY DEF IInv, Alone, ConfGood, Good, AnsweredMeansStored

(***************************************************************************)
(* Whatever threads and kills come between: the two names never stand for one *)
(* file, and a thread that writes has one open (web/txtempus-web.py:78-101). *)
(***************************************************************************)
THEOREM ConfTypeCorrect == Spec => []ConfTypeOK
BY IInvTypes, SpecIInv, PTL

(***************************************************************************)
(* While requests come one after the other the configuration is whole at any *)
(* moment, also after kills (web/txtempus-web.py:98-101).                  *)
(***************************************************************************)
THEOREM ConfStaysWhole == Spec => []WholeUnlessOverlapped
BY IInvWhole, SpecIInv, PTL

(***************************************************************************)
(* While requests come one after the other the settings in the file are those *)
(* of the requests that were answered, merged in their order into what was    *)
(* installed: no update is lost, none that was cut off by a kill shows        *)
(* (web/txtempus-web.py:78-101).                                           *)
(***************************************************************************)
THEOREM AnswersAreStored == Spec => []AnsweredMeansStored
BY IInvStored, SpecIInv, PTL

-----------------------------------------------------------------------------
(* The handlers do nothing to the configuration but what update_conf does.   *)
LEMMA WebImplementsConf == WebNext => [Next]_vars
<1> SUFFICES ASSUME WebNext PROVE [Next]_vars
  OBVIOUS
<1>1. CASE WebRestart
  BY <1>1 DEF WebRestart, Next
<1>2. ASSUME NEW t \in Thread, Serve(t)
      PROVE  [Next]_vars
  <2>1. ASSUME NEW b \in ConfigBody, PostConfig(t, b)
        PROVE  [Next]_vars
    BY <2>1, WebAssumption DEF PostConfig, Save, Refuse, Next, UpdateConf
  <2>2. ASSUME NEW b \in ScheduleBody, PostSchedule(t, b)
        PROVE  [Next]_vars
    <3>1. CASE UNCHANGED vars
      BY <3>1
    <3>2. CASE ~ UNCHANGED vars
      <4>1. ScheduleAccepted(b) /\ b # NoUpdate /\ Read(t, ScheduleUpdates(b))
        BY <2>2, <3>2 DEF PostSchedule, Save, Refuse
      <4>2. ScheduleUpdates(b) \in Request
        BY <4>1, WebAssumption
      <4> QED
        BY <4>1, <4>2 DEF Next, UpdateConf
    <3> QED
      BY <3>1, <3>2
  <2>3. ASSUME Update(t) \/ Saved(t) \/ SaveFails(t)
        PROVE  [Next]_vars
    BY <2>3 DEF Update, Saved, SaveFails, Next, UpdateConf
  <2>4. ASSUME \/ \E b \in StartBody : PostStart(t, b)
               \/ GetConfig(t) \/ Apply(t) \/ Show(t) \/ Start(t) \/ Answer(t)
        PROVE  [Next]_vars
    BY <2>4 DEF PostStart, GetConfig, Apply, Show, Start, StartStation,
                StartMinutes, StartZone, Answer
  <2> QED
    BY <1>2, <2>1, <2>2, <2>3, <2>4 DEF Serve
<1> QED
  BY <1>1, <1>2 DEF WebNext

LEMMA WebIInv == WebSpec => []IInv
<1>1. WebInit => IInv
  BY InitIInv DEF WebInit
<1>2. IInv /\ [WebNext]_<<vars, web>> => IInv'
  <2> SUFFICES ASSUME IInv, [WebNext]_<<vars, web>> PROVE IInv'
    OBVIOUS
  <2>1. [Next]_vars
    BY WebImplementsConf
  <2> QED
    BY <2>1, NextIInv
<1> QED
  BY <1>1, <1>2, PTL DEF WebSpec

-----------------------------------------------------------------------------
(* What is saved and what is found in the file has the form that the handlers  *)
(* give it, or was put into the installed file by hand: so it is with each      *)
(* line of any file, and with those that a thread is about to write, however   *)
(* updates are cut off or mixed.                                           *)
Known(hand, k, v) == Plain(k, v) \/ ByHand(hand, k, v)

KnownLines(hand, lines) ==
  \A i \in 1 .. Len(lines) :
    IsSetting(lines[i]) => Known(hand, lines[i].key, lines[i].value)

KnownUpdate(hand, u) == \A k \in DOMAIN u : Known(hand, k, u[k])

KnownInv ==
  /\ \A i \in Inode : KnownLines(installed, content[i])
  /\ \A t \in Thread : /\ KnownLines(installed, out[t])
                       /\ KnownUpdate(installed, updates[t])
  /\ KnownUpdate(installed, saved)

LEMMA KnownEdit ==
  ASSUME NEW hand, NEW lines \in Seq(Line), KnownLines(hand, lines),
         NEW u, IsUpdate(u), KnownUpdate(hand, u)
  PROVE  KnownLines(hand, Edit(lines, u))
<1> DEFINE e == Edit(lines, u)
<1> SUFFICES ASSUME NEW i \in 1 .. Len(e), IsSetting(e[i])
             PROVE  Known(hand, e[i].key, e[i].value)
  BY DEF KnownLines
<1>1. CASE e[i].key \in DOMAIN u
  BY <1>1, EditedSettings DEF KnownUpdate
<1>2. CASE e[i].key \notin DOMAIN u
  BY <1>2, EditedSettings DEF KnownLines
<1> QED
  BY <1>1, <1>2

LEMMA KnownOverwrite ==
  ASSUME NEW hand, NEW old, NEW new \in Seq(Line), KnownLines(hand, new)
  PROVE  KnownLines(hand, Overwrite(old, new))
<1>1. Scrap \in Line /\ ~ IsSetting(Scrap)
  BY LineKinds DEF Line
<1>2. KnownLines(hand, Append(new, Scrap))
  BY <1>1 DEF KnownLines
<1> QED
  BY <1>2 DEF Overwrite

(* The settings of such lines are such.                                    *)
LEMMA KnownSettings ==
  ASSUME NEW hand, NEW lines \in Seq(Line), KnownLines(hand, lines)
  PROVE  KnownUpdate(hand, Settings(lines))
BY SettingsLast DEF KnownLines, KnownUpdate

-----------------------------------------------------------------------------
(* What the handlers make of the bodies is plain.                           *)

(* The number of minutes is one of the texts that stay as they are.          *)
LEMMA ClampedIsPlain ==
  ASSUME NEW v
  PROVE  LET c == clamp_minutes(v, Minutes(10))
         IN  c # "" /\ c = clamp_minutes(c, "")
<1> DEFINE clamp(n) == Max({1, Min({120, n})})
<1>1. ASSUME NEW n \in Int
      PROVE  clamp(n) \in {1, 120, n} /\ clamp(n) \in 1 .. 120
  <2>1. PICK m \in {120, n} : m = Min({120, n}) /\ m <= 120 /\ m <= n
    BY DEF Min
  <2> QED
    BY <2>1 DEF Max
<1>2. ASSUME NEW n \in 1 .. 120 PROVE clamp(n) = n
  <2>1. Min({120, n}) = n
    BY DEF Min
  <2> QED
    BY <2>1 DEF Max
<1>3. ASSUME NEW n \in 1 .. 120, Minutes(n) \in DOMAIN int, int[Minutes(n)] = n
      PROVE  Minutes(n) = clamp_minutes(Minutes(n), "")
  BY <1>2, <1>3 DEF clamp_minutes
<1> HIDE DEF clamp
<1>4. ASSUME NEW n \in {0, 1, 10, 120} \cup {int[w] : w \in DOMAIN int}
      PROVE  Minutes(n) \in DOMAIN int /\ int[Minutes(n)] = n
  BY TextAssumption
<1>5. CASE v \in DOMAIN int
  <2>1. int[v] \in Int
    BY <1>5, TextAssumption
  <2>2. PICK n \in 1 .. 120 : n = clamp(int[v]) /\ n \in {1, 120, int[v]}
    BY <1>1, <2>1
  <2>3. Minutes(n) \in DOMAIN int /\ int[Minutes(n)] = n
    <3>1. n \in {0, 1, 10, 120} \cup {int[w] : w \in DOMAIN int}
      BY <1>5, <2>2
    <3> QED
      BY <1>4, <3>1
  <2>4. clamp_minutes(v, Minutes(10)) = Minutes(n)
    BY <1>5, <2>2 DEF clamp_minutes, clamp
  <2>5. Minutes(n) # ""
    BY <2>3, TextAssumption
  <2> QED
    BY <1>3, <2>3, <2>4, <2>5
<1>6. CASE v \notin DOMAIN int
  <2>1. clamp_minutes(v, Minutes(10)) = Minutes(10)
    BY <1>6 DEF clamp_minutes
  <2>2. Minutes(10) \in DOMAIN int /\ int[Minutes(10)] = 10
    BY TextAssumption
  <2>3. Minutes(10) = clamp_minutes(Minutes(10), "")
    <3>1. 10 \in 1 .. 120
      OBVIOUS
    <3> QED
      BY <1>3, <2>2, <3>1
  <2>4. Minutes(10) # ""
    BY <2>2, TextAssumption
  <2> QED
    BY <2>1, <2>3, <2>4
<1> QED
  BY <1>5, <1>6

LEMMA ConfigUpdatesArePlain ==
  ASSUME NEW b \in ConfigBody, ConfigAccepted(b)
  PROVE  \A hand : KnownUpdate(hand, ConfigUpdates(b))
<1> DEFINE u == ConfigUpdates(b)
<1> SUFFICES ASSUME NEW k \in DOMAIN u PROVE Plain(k, u[k])
  BY DEF KnownUpdate, Known
<1>1. PICK field \in DOMAIN b : k = ConfigKey[field]
  BY DEF ConfigUpdates
<1>2. DOMAIN b \subseteq {"station", "run_duration", "zone_offset"}
  BY TextAssumption DEF ConfigKey
<1>3. CASE field = "station"
  <2>1. k = "STATION" /\ u[k] = b.station
    BY <1>1, <1>3 DEF ConfigUpdates, ConfigKey
  <2>2. u[k] # ""
    BY <1>1, <1>3, <2>1, TextAssumption DEF ConfigAccepted, valid_station, Has
  <2> QED
    BY <2>1, <2>2 DEF Plain
<1>4. CASE field = "run_duration"
  <2>1. k = "RUN_DURATION" /\ u[k] = clamp_minutes(b.run_duration, Minutes(10))
    BY <1>1, <1>4 DEF ConfigUpdates, ConfigKey
  <2> QED
    BY <2>1, ClampedIsPlain DEF Plain
<1>5. CASE field = "zone_offset"
  <2>1. k = "ZONE_OFFSET" /\ u[k] = Minutes(int[b.zone_offset])
    BY <1>1, <1>5 DEF ConfigUpdates, ConfigKey
  <2>2. b.zone_offset \in DOMAIN int
    BY <1>1, <1>5 DEF ConfigAccepted, valid_zone, Has
  <2>3. IsDigits(u[k])
    BY <2>1, <2>2, TextAssumption DEF IsDigits
  <2> QED
    BY <2>1, <2>3 DEF Plain
<1> QED
  BY <1>1, <1>2, <1>3, <1>4, <1>5

LEMMA ScheduleUpdatesArePlain ==
  ASSUME NEW b \in ScheduleBody, ScheduleAccepted(b)
  PROVE  \A hand : KnownUpdate(hand, ScheduleUpdates(b))
<1> DEFINE u == ScheduleUpdates(b)
<1> SUFFICES ASSUME NEW k \in DOMAIN u PROVE Plain(k, u[k])
  BY DEF KnownUpdate, Known
<1>1. PICK field \in DOMAIN b : k = ScheduleKey[field]
  BY DEF ScheduleUpdates
<1>2. DOMAIN b \subseteq {"times", "enabled", "duration"}
  BY TextAssumption DEF ScheduleKey
<1>3. CASE field = "times"
  <2>1. k = "SCHEDULE_TIMES" /\ u[k] = Join(Times(b.times))
    BY <1>1, <1>3 DEF ScheduleUpdates, ScheduleKey
  <2>2. AllTimes(b.times) /\ b.times \in DOMAIN split
    BY <1>1, <1>3, TextAssumption DEF ScheduleAccepted, Has
  <2>3. AllTimes(u[k])
    BY <2>1, <2>2, TextAssumption DEF AllTimes
  <2> QED
    BY <2>1, <2>3 DEF Plain
<1>4. CASE field = "enabled"
  <2>1. k = "SCHEDULE_ENABLED" /\ u[k] = b.enabled
    BY <1>1, <1>4 DEF ScheduleUpdates, ScheduleKey
  <2>2. u[k] \in {"true", "false"}
    BY <1>1, <1>4, <2>1, TextAssumption DEF Has
  <2> QED
    BY <2>1, <2>2 DEF Plain, LowersToTrue
<1>5. CASE field = "duration"
  <2>1. k = "RUN_DURATION" /\ u[k] = clamp_minutes(b.duration, Minutes(10))
    BY <1>1, <1>5 DEF ScheduleUpdates, ScheduleKey
  <2> QED
    BY <2>1, ClampedIsPlain DEF Plain
<1> QED
  BY <1>1, <1>2, <1>3, <1>4, <1>5

-----------------------------------------------------------------------------
(* No step makes another line.                                             *)
LEMMA ReadKnown ==
  ASSUME IInv, KnownInv, NEW t \in Thread, NEW u \in Request,
         KnownUpdate(installed, u), Read(t, u)
  PROVE  KnownInv'
<1>1. Conf \in Seq(Line) /\ KnownLines(installed, Conf)
  BY DEF IInv, Types, Conf, KnownInv
<1>2. KnownLines(installed, Edit(Conf, u))
  BY <1>1, KnownEdit, RequestIsUpdate
<1>3. /\ content' = content /\ saved' = saved /\ installed' = installed
      /\ out'[t] = Edit(Conf, u) /\ updates'[t] = u
      /\ \A s \in Thread \ {t} : out'[s] = out[s] /\ updates'[s] = updates[s]
  BY DEF Read, IInv, Types
<1> QED
  BY <1>2, <1>3 DEF KnownInv

LEMMA UpdateKnown ==
  ASSUME IInv, KnownInv, NEW t \in Thread,
         Open(t) \/ Write(t) \/ Replace(t) \/ ReplaceFails(t)
  PROVE  KnownInv'
<1>1. KnownLines(installed, <<>>) /\ KnownUpdate(installed, NoUpdate)
  BY DEF KnownLines, KnownUpdate, NoUpdate
<1>2. /\ content = [i \in Inode |-> content[i]] /\ out = [s \in Thread |-> out[s]]
      /\ updates = [s \in Thread |-> updates[s]]
  BY DEF IInv, Types
<1>3. CASE Open(t)
  <2>1. PICK i : /\ UNCHANGED <<out, updates, saved, installed>>
                /\ content' = [content EXCEPT ![i] = <<>>]
    BY <1>3 DEF Open
  <2> QED
    BY <1>1, <1>2, <2>1 DEF KnownInv
<1>4. CASE Write(t)
  <2>1. out[t] \in Seq(Line) /\ KnownLines(installed, out[t])
    BY DEF IInv, Types, KnownInv
  <2>2. KnownLines(installed, Overwrite(content[fd[t]], out[t]))
    BY <2>1, KnownOverwrite
  <2>3. /\ content' = [content EXCEPT ![fd[t]] = Overwrite(content[fd[t]], out[t])]
        /\ out' = [out EXCEPT ![t] = <<>>] /\ UNCHANGED <<updates, saved, installed>>
    BY <1>4 DEF Write
  <2> QED
    BY <1>1, <1>2, <2>2, <2>3 DEF KnownInv
<1>5. CASE Replace(t)
  <2>1. /\ UNCHANGED <<out, installed>> /\ content' \in {content, [content EXCEPT ![conf] = <<>>]}
        /\ updates' = [updates EXCEPT ![t] = NoUpdate]
        /\ saved' = Merged(saved, updates[t])
    BY <1>5 DEF Replace, Done, Merged
  <2>2. KnownUpdate(installed, saved')
    BY <2>1 DEF KnownInv, KnownUpdate, Merged
  <2> QED
    BY <1>1, <1>2, <2>1, <2>2 DEF KnownInv
<1>6. CASE ReplaceFails(t)
  <2>1. /\ UNCHANGED <<content, out, saved, installed>>
        /\ updates' = [updates EXCEPT ![t] = NoUpdate]
    BY <1>6 DEF ReplaceFails, Done
  <2> QED
    BY <1>1, <1>2, <2>1 DEF KnownInv
<1> QED
  BY <1>3, <1>4, <1>5, <1>6

LEMMA ServeKnown ==
  ASSUME IInv, KnownInv, NEW t \in Thread, Serve(t)
  PROVE  KnownInv'
<1>1. CASE UNCHANGED vars
  BY <1>1 DEF vars, KnownInv
<1>2. ASSUME NEW b \in ConfigBody, PostConfig(t, b), ~ UNCHANGED vars
      PROVE  KnownInv'
  <2>1. ConfigAccepted(b) /\ Read(t, ConfigUpdates(b))
    BY <1>2 DEF PostConfig, Save, Refuse
  <2>2. ConfigUpdates(b) \in Request
    BY <2>1, WebAssumption
  <2> QED
    BY <2>1, <2>2, ConfigUpdatesArePlain, ReadKnown
<1>3. ASSUME NEW b \in ScheduleBody, PostSchedule(t, b), ~ UNCHANGED vars
      PROVE  KnownInv'
  <2>1. ScheduleAccepted(b) /\ b # NoUpdate /\ Read(t, ScheduleUpdates(b))
    BY <1>3 DEF PostSchedule, Save, Refuse
  <2>2. ScheduleUpdates(b) \in Request
    BY <2>1, WebAssumption
  <2> QED
    BY <2>1, <2>2, ScheduleUpdatesArePlain, ReadKnown
<1>4. CASE Update(t) \/ Saved(t) \/ SaveFails(t)
  BY <1>4, UpdateKnown DEF Update, Saved, SaveFails
<1>5. CASE \/ \E b \in StartBody : PostStart(t, b)
           \/ GetConfig(t) \/ Apply(t) \/ Show(t) \/ Start(t) \/ Answer(t)
  <2>1. UNCHANGED vars
    BY <1>5 DEF PostStart, GetConfig, Apply, Show, Start, StartStation,
                StartMinutes, StartZone, Answer
  <2> QED
    BY <1>1, <2>1
<1> QED
  BY <1>1, <1>2, <1>3, <1>4, <1>5 DEF Serve

LEMMA NextKnownInv == IInv /\ KnownInv /\ [WebNext]_<<vars, web>> => KnownInv'
<1> SUFFICES ASSUME IInv, KnownInv, [WebNext]_<<vars, web>> PROVE KnownInv'
  OBVIOUS
<1>1. CASE UNCHANGED vars
  BY <1>1 DEF vars, KnownInv
<1>2. CASE Restart
  <2>1. /\ content' = content /\ saved' = saved /\ installed' = installed
        /\ out' = [t \in Thread |-> <<>>]
        /\ updates' = [t \in Thread |-> NoUpdate]
    BY <1>2 DEF Restart
  <2> QED
    BY <2>1 DEF KnownInv, KnownLines, KnownUpdate, NoUpdate
<1> QED
  BY <1>1, <1>2, ServeKnown DEF WebNext, WebRestart, web

LEMMA InitKnownInv == WebInit => KnownInv
<1> SUFFICES ASSUME WebInit PROVE KnownInv
  OBVIOUS
<1>1. KnownLines(installed, installed)
  BY DEF KnownLines, Known, ByHand
<1>2. KnownLines(installed, <<>>) /\ KnownUpdate(installed, NoUpdate)
  BY DEF KnownLines, KnownUpdate, NoUpdate
<1>3. KnownUpdate(installed, Settings(installed))
  BY <1>1, InstalledIsGood, KnownSettings DEF WebInit, Init
<1> QED
  BY <1>1, <1>2, <1>3 DEF WebInit, Init, KnownInv

LEMMA AlwaysKnown == WebSpec => []KnownInv
BY InitKnownInv, NextKnownInv, WebIInv, PTL DEF WebSpec

-----------------------------------------------------------------------------
(* A thread's request, and what the helpers make of it.                     *)
IsTask(r) ==
  \/ r = NoTask
  \/ /\ r.do \in {"config", "schedule", "start", "get", "error"}
     /\ r = [do |-> r.do, body |-> r.body, step |-> r.step, found |-> r.found]

Tables ==
  /\ task = [t \in Thread |-> task[t]] /\ \A t \in Thread : IsTask(task[t])
  /\ offered = [t \in Thread |-> offered[t]]

(* A thread is in update_conf exactly while its request is being saved, and   *)
(* a request that is served has been offered the settings that are saved.    *)
InStep ==
  \A t \in Thread :
    /\ at[t] # "idle" <=> ~Idle(t) /\ task[t].step = "save"
    /\ offered[t] = {} <=> Idle(t)
    /\ ~Idle(t) => saved \in offered[t]

LEMMA TaskIsBusy ==
  ASSUME NEW do, NEW body, NEW step, NEW found,
         do \in {"config", "schedule", "start", "get", "error"}
  PROVE  /\ IsTask([do |-> do, body |-> body, step |-> step, found |-> found])
         /\ [do |-> do, body |-> body, step |-> step, found |-> found] # NoTask
BY DEF IsTask, NoTask

LEMMA BeginGives ==
  ASSUME Tables, NEW t \in Thread, NEW do, NEW body, NEW step,
         do \in {"config", "schedule", "start", "get", "error"},
         Begin(t, do, body, step)
  PROVE  /\ Tables' /\ Idle(t) /\ ~Idle(t)'
         /\ task'[t] = [do |-> do, body |-> body, step |-> step, found |-> NoUpdate]
         /\ offered'[t] = {saved}
         /\ \A s \in Thread \ {t} : task'[s] = task[s] /\ offered'[s] = offered[s]
<1>1. task'[t] = [do |-> do, body |-> body, step |-> step, found |-> NoUpdate]
  BY DEF Begin, Tables, Task
<1>2. task' = [s \in Thread |-> task'[s]] /\ offered' = [s \in Thread |-> offered'[s]]
  BY DEF Begin, Tables
<1>3. \A s \in Thread \ {t} : task'[s] = task[s] /\ offered'[s] = offered[s]
  BY DEF Begin, Tables
<1>4. IsTask(task'[t]) /\ task'[t] # NoTask
  BY <1>1, TaskIsBusy
<1>5. Idle(t) /\ offered'[t] = {saved}
  BY DEF Begin, Tables
<1>6. Tables'
  BY <1>2, <1>3, <1>4 DEF Tables
<1> QED
  BY <1>1, <1>3, <1>4, <1>5, <1>6 DEF Idle

LEMMA FindGives ==
  ASSUME Tables, NEW t \in Thread, ~Idle(t), NEW found, NEW step,
         Find(t, found, step)
  PROVE  /\ task' = [s \in Thread |-> task'[s]]
         /\ \A s \in Thread : IsTask(task'[s])
         /\ ~Idle(t)'
         /\ task'[t] = [do |-> task[t].do, body |-> task[t].body,
                        step |-> step, found |-> found]
         /\ \A s \in Thread \ {t} : task'[s] = task[s]
<1> DEFINE old == task[t]
<1>1. /\ old.do \in {"config", "schedule", "start", "get", "error"}
      /\ old = [do |-> old.do, body |-> old.body, step |-> old.step,
                found |-> old.found]
  BY DEF Tables, IsTask, Idle
<1>2. task'[t] = [[old EXCEPT !.step = step] EXCEPT !.found = found]
  BY DEF Find, Tables
<1>3. task'[t] = [do |-> old.do, body |-> old.body, step |-> step, found |-> found]
  <2> HIDE DEF old
  <2> QED
    BY <1>1, <1>2
<1>4. task' = [s \in Thread |-> task'[s]] /\ \A s \in Thread \ {t} : task'[s] = task[s]
  BY DEF Find, Tables
<1> QED
  BY <1>1, <1>3, <1>4, TaskIsBusy DEF Tables, Idle

LEMMA GotoGives ==
  ASSUME Tables, NEW t \in Thread, ~Idle(t), NEW step, Goto(t, step)
  PROVE  /\ task' = [s \in Thread |-> task'[s]]
         /\ \A s \in Thread : IsTask(task'[s])
         /\ ~Idle(t)'
         /\ task'[t] = [do |-> task[t].do, body |-> task[t].body,
                        step |-> step, found |-> task[t].found]
         /\ \A s \in Thread \ {t} : task'[s] = task[s]
<1> DEFINE old == task[t]
<1>1. /\ old.do \in {"config", "schedule", "start", "get", "error"}
      /\ old = [do |-> old.do, body |-> old.body, step |-> old.step,
                found |-> old.found]
  BY DEF Tables, IsTask, Idle
<1>2. task'[t] = [old EXCEPT !.step = step]
  BY DEF Goto, Tables
<1>3. task'[t] = [do |-> old.do, body |-> old.body, step |-> step,
                  found |-> old.found]
  <2> HIDE DEF old
  <2> QED
    BY <1>1, <1>2
<1>4. task' = [s \in Thread |-> task'[s]] /\ \A s \in Thread \ {t} : task'[s] = task[s]
  BY DEF Goto, Tables
<1> QED
  BY <1>1, <1>3, <1>4, TaskIsBusy DEF Tables, Idle

LEMMA RefusedGives ==
  ASSUME Tables, NEW t \in Thread, Refused(t)
  PROVE  /\ task' = [s \in Thread |-> task'[s]]
         /\ \A s \in Thread : IsTask(task'[s])
         /\ ~Idle(t)'
         /\ task'[t] = [do |-> "error", body |-> NoUpdate, step |-> "refused",
                        found |-> NoUpdate]
         /\ \A s \in Thread \ {t} : task'[s] = task[s]
<1>1. task'[t] = [do |-> "error", body |-> NoUpdate, step |-> "refused",
                  found |-> NoUpdate]
  BY DEF Refused, Tables, Task
<1> QED
  BY <1>1, TaskIsBusy DEF Refused, Tables, Idle

LEMMA LeaveGives ==
  ASSUME Tables, NEW t \in Thread, Leave(t)
  PROVE  /\ Tables' /\ Idle(t)' /\ offered'[t] = {}
         /\ \A s \in Thread \ {t} : task'[s] = task[s] /\ offered'[s] = offered[s]
BY DEF Leave, Tables, IsTask, Idle

-----------------------------------------------------------------------------
(* What a request has found so far comes from settings it was offered.       *)
StationSeen(b, found, shown) ==
  found.station \in IF Has(b, "station") THEN {b.station}
                    ELSE {c.station : c \in shown}

DurationSeen(b, found, shown) ==
  found.duration \in
    IF Has(b, "minutes") /\ b.minutes \in DOMAIN int
    THEN {clamp_minutes(b.minutes, "")}
    ELSE {c.duration : c \in shown}

ZoneSeen(b, found, settings) ==
  found.zone \in IF Has(b, "zone") THEN {Minutes(int[b.zone])}
                 ELSE {StartsWithZone(s) : s \in settings}

Shown(settings) == {get_config(s) : s \in settings}

Seen(r, settings) ==
  /\ r.step = "answer" => \E s \in settings : r.found = get_config(s)
  /\ r.step \in {"minutes", "zone", "control"} =>
       StationSeen(r.body, r.found, Shown(settings))
  /\ r.step \in {"zone", "control"} =>
       DurationSeen(r.body, r.found, Shown(settings))
  /\ r.step = "control" =>
       ZoneSeen(r.body, r.found, settings)

SeenByAll ==
  overlaps = 0 => \A t \in Thread : ~Idle(t) => Seen(task[t], offered[t])

WebInv == Tables /\ InStep /\ SeenByAll

LEMMA SeenStaysSeen ==
  ASSUME NEW r, NEW few, NEW many, few \subseteq many, Seen(r, few)
  PROVE  Seen(r, many)
<1>1. Shown(few) \subseteq Shown(many)
  BY DEF Shown
<1>2. \A b, found : StationSeen(b, found, Shown(few)) =>
                      StationSeen(b, found, Shown(many))
  BY <1>1 DEF StationSeen
<1>3. \A b, found : DurationSeen(b, found, Shown(few)) =>
                      DurationSeen(b, found, Shown(many))
  BY <1>1 DEF DurationSeen
<1>4. \A b, found : ZoneSeen(b, found, few) => ZoneSeen(b, found, many)
  BY DEF ZoneSeen
<1> QED
  BY <1>2, <1>3, <1>4 DEF Seen

LEMMA InitWebInv == WebInit => WebInv
<1> SUFFICES ASSUME WebInit PROVE WebInv
  OBVIOUS
<1> USE DEF WebInit, Init
<1>1. Tables
  BY DEF Tables, IsTask
<1>2. InStep
  BY DEF InStep, Idle
<1>3. SeenByAll
  BY DEF SeenByAll, Idle
<1> QED
  BY <1>1, <1>2, <1>3 DEF WebInv

(* A step of a handler that touches neither the file nor the others.         *)
LEMMA StepKeeps ==
  ASSUME WebInv, NEW t \in Thread, ~Idle(t), UNCHANGED <<vars, offered>>,
         task' = [s \in Thread |-> task'[s]],
         \A s \in Thread : IsTask(task'[s]),
         \A s \in Thread \ {t} : task'[s] = task[s],
         ~Idle(t)', task[t].step # "save", task'[t].step # "save",
         overlaps = 0 => Seen(task'[t], offered[t])
  PROVE  WebInv'
<1>1. Tables'
  BY DEF WebInv, Tables
<1>2. InStep'
  BY DEF WebInv, InStep, Idle, vars
<1>3. SeenByAll'
  BY DEF WebInv, SeenByAll, Idle, vars
<1> QED
  BY <1>1, <1>2, <1>3 DEF WebInv

LEMMA BeginKeeps ==
  ASSUME WebInv, NEW t \in Thread, NEW do, NEW body, NEW step,
         do \in {"config", "schedule", "start", "get", "error"},
         step \in {"refused", "apply", "show", "station"},
         Begin(t, do, body, step), UNCHANGED vars
  PROVE  WebInv'
<1>1. /\ Tables' /\ Idle(t) /\ ~Idle(t)'
      /\ task'[t] = [do |-> do, body |-> body, step |-> step, found |-> NoUpdate]
      /\ offered'[t] = {saved}
      /\ \A s \in Thread \ {t} : task'[s] = task[s] /\ offered'[s] = offered[s]
  BY BeginGives DEF WebInv
<1>2. InStep'
  BY <1>1 DEF WebInv, InStep, Idle, vars
<1>3. Seen(task'[t], offered'[t])
  BY <1>1 DEF Seen
<1>4. SeenByAll'
  BY <1>1, <1>3 DEF WebInv, SeenByAll, Idle, vars
<1> QED
  BY <1>1, <1>2, <1>4 DEF WebInv

LEMMA SaveKeeps ==
  ASSUME IInv, WebInv, NEW t \in Thread, NEW do \in {"config", "schedule"},
         NEW u \in Request, Save(t, do, u)
  PROVE  WebInv'
<1>1. Begin(t, do, NoUpdate, "save") /\ Read(t, u)
  BY DEF Save
<1>2. /\ Tables' /\ Idle(t) /\ ~Idle(t)'
      /\ task'[t] = [do |-> do, body |-> NoUpdate, step |-> "save",
                     found |-> NoUpdate]
      /\ offered'[t] = {saved}
      /\ \A s \in Thread \ {t} : task'[s] = task[s] /\ offered'[s] = offered[s]
  BY <1>1, BeginGives DEF WebInv
<1>3. /\ at'[t] = "open" /\ saved' = saved
      /\ \A s \in Thread \ {t} : at'[s] = at[s]
      /\ overlaps' = 0 => overlaps = 0
  BY <1>1 DEF Read, IInv, Types
<1>4. InStep'
  BY <1>2, <1>3 DEF WebInv, InStep, Idle
<1>5. Seen(task'[t], offered'[t])
  BY <1>2 DEF Seen
<1>6. SeenByAll'
  BY <1>2, <1>3, <1>5 DEF WebInv, SeenByAll, Idle
<1> QED
  BY <1>2, <1>4, <1>6 DEF WebInv

LEMMA UpdateKeeps ==
  ASSUME IInv, WebInv, NEW t \in Thread, Update(t)
  PROVE  WebInv'
<1>1. /\ at[t] # "idle" /\ at'[t] # "idle"
      /\ \A s \in Thread \ {t} : at'[s] = at[s]
      /\ saved' = saved /\ overlaps' = overlaps
  BY DEF Update, Open, Write, IInv, Types
<1>2. task' = task /\ offered' = offered
  BY DEF Update, web
<1> QED
  BY <1>1, <1>2 DEF WebInv, Tables, InStep, SeenByAll, Idle

LEMMA SavedKeeps ==
  ASSUME IInv, WebInv, NEW t \in Thread, Saved(t)
  PROVE  WebInv'
<1>1. Replace(t) /\ at[t] = "replace"
  BY DEF Saved, Replace
<1>2. ~Idle(t) /\ task[t].step = "save"
  BY <1>1 DEF WebInv, InStep
<1>3. PICK step \in {"apply", "show"} : Goto(t, step)
  BY DEF Saved
<1>4. /\ task' = [s \in Thread |-> task'[s]]
      /\ \A s \in Thread : IsTask(task'[s])
      /\ ~Idle(t)'
      /\ task'[t] = [do |-> task[t].do, body |-> task[t].body,
                     step |-> step, found |-> task[t].found]
      /\ \A s \in Thread \ {t} : task'[s] = task[s]
  BY <1>2, <1>3, GotoGives DEF WebInv
<1>5. /\ at'[t] = "idle"
      /\ \A s \in Thread \ {t} : at'[s] = at[s]
      /\ overlaps' = overlaps
  BY <1>1 DEF Replace, Done, IInv, Types
<1>6. /\ offered' = [s \in Thread |-> offered'[s]]
      /\ offered'[t] = {saved'}
      /\ \A s \in Thread \ {t} :
           offered'[s] = IF Idle(s) THEN {} ELSE offered[s] \cup {saved'}
  BY DEF Saved
<1>7. Tables'
  BY <1>4, <1>6 DEF Tables
<1>8. InStep'
  <2>1. ASSUME NEW s \in Thread \ {t}
        PROVE  Idle(s)' = Idle(s)
    BY <1>4 DEF Idle
  <2> QED
    BY <1>4, <1>5, <1>6, <2>1 DEF WebInv, InStep
<1>9. Seen(task'[t], offered'[t])
  BY <1>4 DEF Seen
<1>10. SeenByAll'
  <2>1. ASSUME overlaps' = 0, NEW s \in Thread \ {t}, ~Idle(s)'
        PROVE  Seen(task'[s], offered'[s])
    <3>1. ~Idle(s) /\ task'[s] = task[s] /\ offered[s] \subseteq offered'[s]
      BY <1>4, <1>6, <2>1 DEF Idle
    <3>2. Seen(task[s], offered[s])
      BY <1>5, <2>1, <3>1 DEF WebInv, SeenByAll
    <3> QED
      BY <3>1, <3>2, SeenStaysSeen
  <2> QED
    BY <1>9, <2>1 DEF SeenByAll
<1> QED
  BY <1>7, <1>8, <1>10 DEF WebInv

LEMMA LeaveKeeps ==
  ASSUME WebInv, NEW t \in Thread, Leave(t),
         at'[t] = "idle", \A s \in Thread \ {t} : at'[s] = at[s],
         saved' = saved, overlaps' = overlaps
  PROVE  WebInv'
<1>1. /\ Tables' /\ Idle(t)' /\ offered'[t] = {}
      /\ \A s \in Thread \ {t} : task'[s] = task[s] /\ offered'[s] = offered[s]
  BY LeaveGives DEF WebInv
<1>2. InStep'
  BY <1>1 DEF WebInv, InStep, Idle
<1>3. SeenByAll'
  BY <1>1 DEF WebInv, SeenByAll, Idle
<1> QED
  BY <1>1, <1>2, <1>3 DEF WebInv

LEMMA RestartKeeps ==
  ASSUME IInv, WebInv, WebRestart
  PROVE  WebInv'
<1>1. saved' = saved /\ \A t \in Thread : at'[t] = "idle"
  BY DEF WebRestart, Restart, vars, IInv, Types
<1>2. /\ task' = [t \in Thread |-> NoTask]
      /\ offered' = [t \in Thread |-> {}]
  BY DEF WebRestart
<1> QED
  BY <1>1, <1>2 DEF WebInv, Tables, IsTask, InStep, SeenByAll, Idle

(* The reads of the configuration.                                         *)
LEMMA ShowKeeps ==
  ASSUME IInv, WebInv, NEW t \in Thread, Show(t)
  PROVE  WebInv'
<1>1. ~Idle(t) /\ task[t].step = "show"
  BY DEF Show, Serving, Idle, NoTask
<1>2. Find(t, get_config(Settings(Conf)), "answer") /\ UNCHANGED <<vars, offered>>
  BY DEF Show
<1>3. /\ task' = [s \in Thread |-> task'[s]]
      /\ \A s \in Thread : IsTask(task'[s])
      /\ ~Idle(t)'
      /\ task'[t] = [do |-> task[t].do, body |-> task[t].body,
                     step |-> "answer", found |-> get_config(Settings(Conf))]
      /\ \A s \in Thread \ {t} : task'[s] = task[s]
  BY <1>1, <1>2, FindGives DEF WebInv
<1>4. overlaps = 0 => Seen(task'[t], offered[t])
  <2> SUFFICES ASSUME overlaps = 0 PROVE Seen(task'[t], offered[t])
    OBVIOUS
  <2>1. Settings(Conf) = saved /\ saved \in offered[t]
    BY <1>1 DEF IInv, Alone, ConfGood, Good, WebInv, InStep
  <2> QED
    BY <1>3, <2>1 DEF Seen
<1> QED
  BY <1>1, <1>2, <1>3, <1>4, StepKeeps

LEMMA ApplyKeeps ==
  ASSUME WebInv, NEW t \in Thread, Apply(t)
  PROVE  WebInv'
<1>1. ~Idle(t) /\ task[t].step = "apply" /\ UNCHANGED <<vars, offered>>
  BY DEF Apply, Serving, Idle, NoTask
<1>2. CASE Goto(t, "show")
  <2>1. /\ task' = [s \in Thread |-> task'[s]]
        /\ \A s \in Thread : IsTask(task'[s])
        /\ ~Idle(t)'
        /\ task'[t] = [do |-> task[t].do, body |-> task[t].body,
                       step |-> "show", found |-> task[t].found]
        /\ \A s \in Thread \ {t} : task'[s] = task[s]
    BY <1>1, <1>2, GotoGives DEF WebInv
  <2>2. Seen(task'[t], offered[t])
    BY <2>1 DEF Seen
  <2> QED
    BY <1>1, <2>1, <2>2, StepKeeps
<1>3. CASE Refused(t)
  <2>1. /\ task' = [s \in Thread |-> task'[s]]
        /\ \A s \in Thread : IsTask(task'[s])
        /\ ~Idle(t)'
        /\ task'[t] = [do |-> "error", body |-> NoUpdate, step |-> "refused",
                       found |-> NoUpdate]
        /\ \A s \in Thread \ {t} : task'[s] = task[s]
    BY <1>3, RefusedGives DEF WebInv
  <2>2. Seen(task'[t], offered[t])
    BY <2>1 DEF Seen
  <2> QED
    BY <1>1, <2>1, <2>2, StepKeeps
<1> QED
  BY <1>2, <1>3 DEF Apply

(* A start that is refused, or goes on with what it has seen.               *)
LEMMA RefusalKeeps ==
  ASSUME WebInv, NEW t \in Thread, ~Idle(t), task[t].step # "save",
         Refused(t), UNCHANGED <<vars, offered>>
  PROVE  WebInv'
<1>1. /\ task' = [s \in Thread |-> task'[s]]
      /\ \A s \in Thread : IsTask(task'[s])
      /\ ~Idle(t)'
      /\ task'[t] = [do |-> "error", body |-> NoUpdate, step |-> "refused",
                     found |-> NoUpdate]
      /\ \A s \in Thread \ {t} : task'[s] = task[s]
  BY RefusedGives DEF WebInv
<1>2. Seen(task'[t], offered[t])
  BY <1>1 DEF Seen
<1> QED
  BY <1>1, <1>2, StepKeeps

LEMMA FindKeeps ==
  ASSUME WebInv, NEW t \in Thread, ~Idle(t), task[t].step # "save",
         NEW found, NEW step \in {"minutes", "zone", "control"},
         Find(t, found, step), UNCHANGED <<vars, offered>>,
         overlaps = 0 =>
           /\ StationSeen(task[t].body, found, Shown(offered[t]))
           /\ step \in {"zone", "control"} =>
                DurationSeen(task[t].body, found, Shown(offered[t]))
           /\ step = "control" =>
                ZoneSeen(task[t].body, found, offered[t])
  PROVE  WebInv'
<1>1. /\ task' = [s \in Thread |-> task'[s]]
      /\ \A s \in Thread : IsTask(task'[s])
      /\ ~Idle(t)'
      /\ task'[t] = [do |-> task[t].do, body |-> task[t].body,
                     step |-> step, found |-> found]
      /\ \A s \in Thread \ {t} : task'[s] = task[s]
  BY FindGives DEF WebInv
<1>2. overlaps = 0 => Seen(task'[t], offered[t])
  BY <1>1 DEF Seen
<1> QED
  BY <1>1, <1>2, StepKeeps

(* The configuration that is read is one the request was offered.           *)
LEMMA SavedIsShown ==
  ASSUME IInv, WebInv, NEW t \in Thread, ~Idle(t), overlaps = 0
  PROVE  Settings(Conf) = saved /\ get_config(saved) \in Shown(offered[t])
BY DEF IInv, Alone, ConfGood, Good, WebInv, InStep, Shown

LEMMA StartStationKeeps ==
  ASSUME IInv, WebInv, NEW t \in Thread, StartStation(t)
  PROVE  WebInv'
<1> DEFINE b == task[t].body
           s == IF Has(b, "station") THEN b.station
                ELSE GetConf(Settings(Conf), "STATION", "DCF77")
<1>1. ~Idle(t) /\ task[t].step = "station" /\ UNCHANGED <<vars, offered>>
  BY DEF StartStation, Serving, Idle, NoTask
<1>2. CASE valid_station(s)
  <2>1. Find(t, [station |-> s], "minutes")
    BY <1>2 DEF StartStation
  <2>2. overlaps = 0 => StationSeen(b, [station |-> s], Shown(offered[t]))
    <3> SUFFICES ASSUME overlaps = 0
                 PROVE  StationSeen(b, [station |-> s], Shown(offered[t]))
      OBVIOUS
    <3>1. Settings(Conf) = saved /\ get_config(saved) \in Shown(offered[t])
      BY <1>1, SavedIsShown
    <3>2. get_config(saved).station = GetConf(saved, "STATION", "DCF77")
      BY DEF get_config
    <3> QED
      BY <3>1, <3>2 DEF StationSeen
  <2> HIDE DEF s
  <2> QED
    BY <1>1, <2>1, <2>2, FindKeeps
<1>3. CASE ~ valid_station(s)
  BY <1>1, <1>3, RefusalKeeps DEF StartStation
<1> QED
  BY <1>2, <1>3

LEMMA StartMinutesKeeps ==
  ASSUME IInv, WebInv, NEW t \in Thread, StartMinutes(t)
  PROVE  WebInv'
<1> DEFINE b == task[t].body
           configured ==
             clamp_minutes(GetConf(Settings(Conf), "RUN_DURATION", ""), Minutes(10))
           minutes == IF Has(b, "minutes") THEN clamp_minutes(b.minutes, configured)
                      ELSE configured
           found == [station |-> task[t].found.station, duration |-> minutes]
<1>1. ~Idle(t) /\ task[t].step = "minutes" /\ UNCHANGED <<vars, offered>>
  <2>1. Serving(t, {"start"}, "minutes") /\ UNCHANGED <<vars, offered>>
    BY Zenon DEF StartMinutes
  <2> QED
    BY <2>1 DEF Serving, Idle, NoTask
<1>2. Find(t, found, "zone")
  BY Zenon DEF StartMinutes
<1>3. ASSUME overlaps = 0
      PROVE  /\ StationSeen(b, found, Shown(offered[t]))
             /\ DurationSeen(b, found, Shown(offered[t]))
  <2>1. Settings(Conf) = saved /\ get_config(saved) \in Shown(offered[t])
    BY <1>1, <1>3, SavedIsShown
  <2>2. StationSeen(b, task[t].found, Shown(offered[t]))
    BY <1>1, <1>3 DEF WebInv, SeenByAll, Seen
  <2>3. StationSeen(b, found, Shown(offered[t]))
    BY <2>2 DEF StationSeen
  <2>4. get_config(saved).duration = configured
    BY <2>1 DEF get_config
  <2>5. Has(b, "minutes") /\ b.minutes \in DOMAIN int =>
          minutes = clamp_minutes(b.minutes, "")
    BY DEF clamp_minutes
  <2>6. ~(Has(b, "minutes") /\ b.minutes \in DOMAIN int) => minutes = configured
    BY DEF clamp_minutes
  <2>7. found.duration = minutes
    OBVIOUS
  <2> HIDE DEF found, minutes, configured
  <2>8. DurationSeen(b, found, Shown(offered[t]))
    BY <2>1, <2>4, <2>5, <2>6, <2>7 DEF DurationSeen
  <2> QED
    BY <2>3, <2>8
<1> HIDE DEF found
<1> QED
  BY <1>1, <1>2, <1>3, FindKeeps

LEMMA StartZoneKeeps ==
  ASSUME IInv, WebInv, NEW t \in Thread, StartZone(t)
  PROVE  WebInv'
<1> DEFINE b == task[t].body
           z == IF Has(b, "zone") THEN b.zone
                ELSE GetConf(Settings(Conf), "ZONE_OFFSET", "0")
           found == [station  |-> task[t].found.station,
                     duration |-> task[t].found.duration,
                     zone     |-> Minutes(int[z])]
<1>1. ~Idle(t) /\ task[t].step = "zone" /\ UNCHANGED <<vars, offered>>
  BY DEF StartZone, Serving, Idle, NoTask
<1>2. CASE valid_zone(z)
  <2>1. Find(t, found, "control")
    BY <1>2 DEF StartZone
  <2>2. ASSUME overlaps = 0
        PROVE  /\ StationSeen(b, found, Shown(offered[t]))
               /\ DurationSeen(b, found, Shown(offered[t]))
               /\ ZoneSeen(b, found, offered[t])
    <3>1. Settings(Conf) = saved /\ get_config(saved) \in Shown(offered[t])
      BY <1>1, <2>2, SavedIsShown
    <3>2. /\ StationSeen(b, task[t].found, Shown(offered[t]))
          /\ DurationSeen(b, task[t].found, Shown(offered[t]))
      BY <1>1, <2>2 DEF WebInv, SeenByAll, Seen
    <3>3. /\ StationSeen(b, found, Shown(offered[t]))
          /\ DurationSeen(b, found, Shown(offered[t]))
      BY <3>2 DEF StationSeen, DurationSeen
    <3>4. GetConf(saved, "ZONE_OFFSET", "0") = GetConf(Settings(Conf), "ZONE_OFFSET", "0")
      BY <3>1
    <3>5. ~Has(b, "zone") => Minutes(int[z]) = StartsWithZone(saved)
      BY <3>4 DEF StartsWithZone
    <3>6. saved \in offered[t]
      BY <1>1 DEF WebInv, InStep
    <3>7. ZoneSeen(b, found, offered[t])
      BY <3>5, <3>6 DEF ZoneSeen
    <3> QED
      BY <3>3, <3>7
  <2> HIDE DEF found
  <2> QED
    BY <1>1, <2>1, <2>2, FindKeeps
<1>3. CASE ~ valid_zone(z)
  BY <1>1, <1>3, RefusalKeeps DEF StartZone
<1> QED
  BY <1>2, <1>3

LEMMA ServeKeeps ==
  ASSUME IInv, WebInv, NEW t \in Thread, Serve(t)
  PROVE  WebInv'
<1>1. ASSUME NEW b \in ConfigBody, PostConfig(t, b)
      PROVE  WebInv'
  <2>1. CASE ConfigAccepted(b)
    BY <1>1, <2>1, WebAssumption, SaveKeeps DEF PostConfig
  <2>2. CASE ~ ConfigAccepted(b)
    BY <1>1, <2>2, BeginKeeps DEF PostConfig, Refuse
  <2> QED
    BY <2>1, <2>2
<1>2. ASSUME NEW b \in ScheduleBody, PostSchedule(t, b)
      PROVE  WebInv'
  <2>1. CASE ~ ScheduleAccepted(b)
    BY <1>2, <2>1, BeginKeeps DEF PostSchedule, Refuse
  <2>2. CASE ScheduleAccepted(b) /\ b = NoUpdate
    BY <1>2, <2>2, BeginKeeps DEF PostSchedule
  <2>3. CASE ScheduleAccepted(b) /\ b # NoUpdate
    BY <1>2, <2>3, WebAssumption, SaveKeeps DEF PostSchedule
  <2> QED
    BY <2>1, <2>2, <2>3
<1>3. ASSUME NEW b \in StartBody, PostStart(t, b)
      PROVE  WebInv'
  BY <1>3, BeginKeeps DEF PostStart
<1>4. CASE GetConfig(t)
  BY <1>4, BeginKeeps DEF GetConfig
<1>5. CASE SaveFails(t)
  <2>1. /\ Leave(t) /\ at'[t] = "idle"
        /\ \A s \in Thread \ {t} : at'[s] = at[s]
        /\ saved' = saved /\ overlaps' = overlaps
    BY <1>5 DEF SaveFails, ReplaceFails, Done, IInv, Types
  <2> QED
    BY <2>1, LeaveKeeps
<1>6. CASE Answer(t)
  <2>1. Leave(t) /\ UNCHANGED vars /\ at[t] = "idle"
    BY <1>6 DEF Answer, WebInv, InStep
  <2> QED
    BY <2>1, LeaveKeeps DEF vars
<1>7. CASE Start(t)
  BY <1>7, StartStationKeeps, StartMinutesKeeps, StartZoneKeeps DEF Start
<1> QED
  BY <1>1, <1>2, <1>3, <1>4, <1>5, <1>6, <1>7, UpdateKeeps, SavedKeeps,
     ApplyKeeps, ShowKeeps DEF Serve

LEMMA NextWebInv ==
  IInv /\ WebInv /\ [WebNext]_<<vars, web>> => WebInv'
<1> SUFFICES ASSUME IInv, WebInv, [WebNext]_<<vars, web>> PROVE WebInv'
  OBVIOUS
<1>1. CASE WebNext
  BY <1>1, RestartKeeps, ServeKeeps DEF WebNext
<1>2. CASE UNCHANGED <<vars, web>>
  BY <1>2 DEF vars, web, WebInv, Tables, InStep, SeenByAll, Idle
<1> QED
  BY <1>1, <1>2

LEMMA WebWebInv == WebSpec => []WebInv
BY InitWebInv, NextWebInv, WebIInv, PTL DEF WebSpec

-----------------------------------------------------------------------------
(***************************************************************************)
(* Each thread is where its request says it is, whatever kills and failed     *)
(* renames come between (web/txtempus-web.py:427-461).                     *)
(***************************************************************************)
THEOREM WebTypeCorrect == WebSpec => []WebTypeOK
<1>1. IInv /\ WebInv => WebTypeOK
  <2> SUFFICES ASSUME IInv, WebInv PROVE WebTypeOK
    OBVIOUS
  <2>1. ConfTypeOK
    BY IInvTypes
  <2> QED
    BY <2>1 DEF WebInv, Tables, IsTask, InStep, Idle, WebTypeOK
<1> QED
  BY <1>1, WebIInv, WebWebInv, PTL

(***************************************************************************)
(* A server that handles one update at a time always has a whole file ...    *)
(* (web/txtempus-web.py:98-101).                                           *)
(***************************************************************************)
THEOREM ServedFileIsWhole == WebSpec => []WholeUnlessOverlapped
BY IInvWhole, WebIInv, PTL

(***************************************************************************)
(* ... with the settings of the updates it has answered                      *)
(* (web/txtempus-web.py:427-461).                                          *)
(***************************************************************************)
THEOREM ServedAnswersAreStored == WebSpec => []AnsweredMeansStored
BY IInvStored, WebIInv, PTL

(***************************************************************************)
(* While updates come one after the other every request sees settings that   *)
(* were saved, whatever bodies come and however many requests are served at   *)
(* a time (web/txtempus-web.py:400-417, 442, 461).                         *)
(***************************************************************************)
THEOREM RequestsSeeSavedSettings == WebSpec => []SeesSavedSettings
<1>1. WebInv => SeesSavedSettings
  BY DEF WebInv, SeenByAll, Seen, StationSeen, DurationSeen, ZoneSeen, Shown,
         SeesSavedSettings
<1> QED
  BY <1>1, WebWebInv, PTL

-----------------------------------------------------------------------------
(***************************************************************************)
(* Whatever requests come, are cut off or overlap, and whatever is left of     *)
(* the file then: page and scripts make the same of each setting, but for      *)
(* times that are empty or missing, for which the scripts put their default,    *)
(* and a value that somebody gave the installed file by hand in a form that    *)
(* no request saves (web/txtempus-web.py:368-380,                           *)
(* deploy/txtempus-control.sh:22-26).                                      *)
(***************************************************************************)
THEOREM PageAndScriptsAgree == WebSpec => []PageShowsWhatRuns
<1>1. ASSUME IInv, KnownInv PROVE PageShowsWhatRuns
  <2> DEFINE settings == Settings(Conf)
             page     == get_config(settings)
             shell    == ShellConf(settings)
             AsSaved(k) == k \in DOMAIN settings => Plain(k, settings[k])
  <2>1. KnownUpdate(installed, settings)
    BY <1>1, KnownSettings DEF IInv, Types, Conf, KnownInv
  <2>2. \A k : AsSaved(k) \/ (k \in DOMAIN settings /\ ByHand(installed, k, settings[k]))
    BY <2>1 DEF KnownUpdate, Known
  <2> HIDE DEF settings
  <2>3. AsSaved("STATION") => page.station = shell.station
    BY DEF Plain, get_config, ShellConf, ShellValue, GetConf
  <2>4. AsSaved("RUN_DURATION") => page.duration = shell.duration
    BY TextAssumption, Zenon
    DEF Plain, get_config, ShellConf, ShellValue, GetConf, clamp_minutes
  <2>5. AsSaved("ZONE_OFFSET") => page.zone = shell.zone
    BY TextAssumption
    DEF Plain, get_config, ShellConf, ShellValue, GetConf, IsDigits
  <2>6. AsSaved("SCHEDULE_ENABLED") => page.enabled = shell.enabled
    <3> DEFINE v == GetConf(settings, "SCHEDULE_ENABLED", "true")
               w == ShellValue(settings, "SCHEDULE_ENABLED", "true")
    <3>1. page.enabled = (v \in LowersToTrue) /\ shell.enabled = (w = "true")
      BY DEF get_config, ShellConf
    <3>2. AsSaved("SCHEDULE_ENABLED") => w = v /\ (v \in LowersToTrue => v = "true")
      BY DEF Plain, ShellValue, GetConf
    <3>3. "true" \in LowersToTrue
      BY DEF LowersToTrue
    <3>4. AsSaved("SCHEDULE_ENABLED") => (v \in LowersToTrue <=> w = "true")
      BY <3>2, <3>3
    <3> HIDE DEF AsSaved, v, w, page, shell
    <3> SUFFICES ASSUME AsSaved("SCHEDULE_ENABLED") PROVE page.enabled = shell.enabled
      OBVIOUS
    <3>5. (v \in LowersToTrue) = (w = "true")
      BY <3>4
    <3> QED
      BY <3>1, <3>5, Zenon
  <2>7. AsSaved("SCHEDULE_TIMES") /\ GetConf(settings, "SCHEDULE_TIMES", "") # "" =>
          page.times = shell.times
    BY DEF Plain, get_config, ShellConf, ShellValue, GetConf
  <2> HIDE DEF AsSaved, page, shell
  <2>8. SUFFICES ASSUME NEW field \in DOMAIN FieldKey
                 PROVE  LET k == FieldKey[field]
                        IN  \/ page[field] = shell[field]
                            \/ k = "SCHEDULE_TIMES" /\ GetConf(settings, k, "") = ""
                            \/ k \in DOMAIN settings
                               /\ ByHand(installed, k, settings[k])
    BY DEF PageShowsWhatRuns, settings, page, shell
  <2>9. field \in {"station", "duration", "zone", "times", "enabled"}
    BY DEF FieldKey
  <2>10. CASE field = "station"
    BY <2>2, <2>3, <2>10 DEF FieldKey
  <2>11. CASE field = "duration"
    BY <2>2, <2>4, <2>11 DEF FieldKey
  <2>12. CASE field = "zone"
    BY <2>2, <2>5, <2>12 DEF FieldKey
  <2>13. CASE field = "enabled"
    BY <2>2, <2>6, <2>13, Zenon DEF FieldKey
  <2>14. CASE field = "times"
    BY <2>2, <2>7, <2>14 DEF FieldKey
  <2> QED
    BY <2>9, <2>10, <2>11, <2>12, <2>13, <2>14
<1> QED
  BY <1>1, WebIInv, AlwaysKnown, PTL

=============================================================================
