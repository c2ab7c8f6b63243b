----------------------------- MODULE SSHConfig -----------------------------
(***************************************************************************)
(* The block of ~/.ssh/config that `flexctl login` manages                 *)
(* (internal/flexctlcli/sshconfig.go).  A file is a sequence of tokens:    *)
(* the two markers, the body between them, newlines, runs of blanks, and   *)
(* anything else is text of the user without a newline.                    *)
(***************************************************************************)
EXTENDS Integers, Sequences

Begin == "begin"
Body  == "body"
End   == "end"
NL    == "nl"
Blank == "blank"

Markers == {Begin, Body, End}

Has(f, x) == \E i \in DOMAIN f : f[i] = x

(* bytes.Index of a token that f has. *)
Index(f, x) == CHOOSE i \in DOMAIN f : f[i] = x /\ \A j \in 1..(i - 1) : f[j] # x

From(f, i) == SubSeq(f, i, Len(f))
EndsIn(f, x) == f # <<>> /\ f[Len(f)] = x

renderBlock == <<Begin, Body, End, NL>>

(* strings.TrimRight of blanks. *)
TrimRight(f) ==
    CHOOSE g \in {SubSeq(f, 1, n) : n \in 0..Len(f)} :
        /\ ~EndsIn(g, Blank)
        /\ \A i \in (Len(g) + 1)..Len(f) : f[i] = Blank

(* A blank line sets the block off from what precedes it. *)
appendBlock(f, block) ==
    LET ended == IF f # <<>> /\ ~EndsIn(f, NL) THEN Append(f, NL) ELSE f
    IN  (IF f # <<>> THEN Append(ended, NL) ELSE ended) \o block

(* The first begin marker, up to the first end marker after it and the newline
   that follows; without an end marker nothing is replaced.  Removing the last
   thing in the file takes the blank line before it too. *)
replaceBlock(f, block) ==
    LET b      == Index(f, Begin)
        e      == b - 1 + Index(From(f, b), End)
        last   == IF e < Len(f) /\ f[e + 1] = NL THEN e + 1 ELSE e
        before == SubSeq(f, 1, b - 1)
        after  == From(f, last + 1)
        kept   == IF block = <<>> /\ EndsIn(before, NL) /\ after = <<>>
                  THEN SubSeq(before, 1, b - 2) ELSE before
    IN  IF Has(f, Begin) /\ Has(From(f, b), End)
        THEN TrimRight(kept \o block \o after) ELSE f

(* Mutated form of Upserted: the block is appended every time. *)
UpsertedTwice(f) == appendBlock(f, renderBlock)

(* What UpsertSSHConfig writes over f, *)
Upserted(f) ==
    IF Has(f, Begin) THEN replaceBlock(f, renderBlock) ELSE appendBlock(f, renderBlock)

(* Mutated form of BackedUp: of files that have a block only. *)
BackedUpLate(f) == Has(f, Begin)

(* after it has made a backup: not of an empty file, nor of one in which it
   finds a block. *)
BackedUp(f) == f # <<>> /\ ~Has(f, Begin)

(* What RemoveSSHConfigBlock writes, always after a backup; without a block the
   file is left alone. *)
Removed(f) == IF Has(f, Begin) THEN replaceBlock(f, <<>>) ELSE f

(* The file holds one block, whole. *)
HasBlock(f) ==
    /\ \E i \in 1..(Len(f) - 2) : SubSeq(f, i, i + 2) = <<Begin, Body, End>>
    /\ \A i, j \in DOMAIN f : f[i] = Begin /\ f[j] = Begin => i = j

(* The user's words in f. *)
Words(f) == {f[i] : i \in DOMAIN f} \ (Markers \cup {NL, Blank})
=============================================================================
