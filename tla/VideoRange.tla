----------------------------- MODULE VideoRange -----------------------------
(***************************************************************************)
(* The answer to a player that asks for a video in ranges of bytes.  A     *)
(* file is a sequence, its first byte is at position 0.  The parts of a    *)
(* Range header: "between" two positions (a-b), "from" a position (a-),    *)
(* the "last" n bytes (-n), and "words" that are no range.  The whole file *)
(* is asked for by no part.                                                *)
(***************************************************************************)
EXTENDS Integers, Sequences, FiniteSetsExt, Loops

PartStart(part, size) == IF part.kind = "last" THEN Max({size - part.n, 0}) ELSE part.a
PartEnd(part, size) == IF part.kind = "between" THEN part.b ELSE size - 1

\* A range that leaves the file is refused, not cut.
Satisfiable(part, size) ==
  /\ part.kind # "words"
  /\ part.kind = "last" => part.n > 0
  /\ PartEnd(part, size) < size
  /\ PartStart(part, size) <= PartEnd(part, size)

\* What the file has of the positions.
FileRange(file, start, end) == SubSeq(file, start + 1, Min({end + 1, Len(file)}))

\* A body is announced with its length, the headers of its parts left out.
RangeResponse(file, parts) ==
  LET size == Len(file)
      starts == [i \in DOMAIN parts |-> PartStart(parts[i], size)]
      ends == [i \in DOMAIN parts |-> PartEnd(parts[i], size)]
      counts == [i \in DOMAIN parts |-> ends[i] - starts[i] + 1]
      pieces == [i \in DOMAIN parts |-> FileRange(file, starts[i], ends[i])]
  IN IF parts = <<>> THEN [status |-> 200, length |-> size, body |-> file]
     ELSE IF \E i \in DOMAIN parts : ~Satisfiable(parts[i], size)
     THEN [status |-> 416, length |-> 0, body |-> <<>>]
     ELSE [status |-> 206,
           length |-> SumOf(counts, Len(counts)),
           body |-> Joined(pieces, Len(pieces))]

=============================================================================
