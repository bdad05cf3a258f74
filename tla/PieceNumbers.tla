----------------------------- MODULE PieceNumbers -----------------------------
(* How a task is cut into pieces (resource/piece.rs): the piece length of a    *)
(* content, the loop that lists the pieces of a range, and the bookkeeping of  *)
(* finished and remaining pieces over the rounds of a download.                *)
EXTENDS Integers, Sequences, FiniteSets, SequencesExt

CONSTANTS
    MinPieceLength,  \* MIN_PIECE_LENGTH,
    MaxPieceLength,  \* MAX_PIECE_LENGTH and
    MaxPieceCount,   \* MAX_PIECE_COUNT, on a small scale
    Downloads,       \* [content, fixed, range]: the content length, the piece length that the
                     \* request fixes, or 0, and the range, or NoRange
    NoRange,
    MaxRounds,       \* bound on the rounds of a download
    MaxMerged        \* bound on the pieces of a task whose rounds are followed

VARIABLES
    download,        \* the download
    phase,           \* what is calculated
    length,          \* its piece length
    number, offset,  \* the next piece of the loop
    pieces,          \* the pieces listed so far
    round,           \* rounds that have ended
    finished,        \* pieces with the round that brought them
    remaining,       \* the pieces still to be fetched
    brought          \* the numbers of all pieces that some round has brought

vars == <<download, phase, length, number, offset, pieces, round, finished, remaining, brought>>
loopVars == <<number, offset, pieces>>
roundVars == <<round, finished, remaining, brought>>

TypeOK ==
    /\ download \in Downloads
    /\ phase \in {"length", "loop", "listed", "error"}
    /\ length \in Nat
    /\ number \in Nat
    /\ offset \in Nat
    /\ \A p \in ToSet(pieces) : p.number \in Nat /\ p.offset \in Nat /\ p.length \in Nat \ {0}
    /\ round \in 0 .. MaxRounds
    /\ \A f \in finished : f.number \in Nat /\ f.round \in 0 .. MaxRounds

Init ==
    /\ download \in Downloads
    /\ phase = "length"
    /\ length = 0
    /\ number = 0
    /\ offset = 0
    /\ pieces = <<>>
    /\ round = 0
    /\ finished = {}
    /\ remaining = {}
    /\ brought = {}

-----------------------------------------------------------------------------

\* A number whose only odd divisor is one.
IsPowerOfTwo(m) == m > 0 /\ \A d \in 2 .. m : m % d = 0 => d % 2 = 0

next_power_of_two(n) == Min({m \in n .. 2 * n + 1 : IsPowerOfTwo(m)})

\* Mutant: the piece length has no limit.
LengthUnlimited(fixed, content) ==
    IF fixed # 0 THEN fixed
    ELSE LET l == next_power_of_two(content \div MaxPieceCount)
         IN  IF l > MinPieceLength THEN l ELSE MinPieceLength

\* The quotient is cut off, rounded up to a power of two and kept within its limits.
calculate_piece_length(fixed, content) ==
    IF fixed # 0 THEN fixed
    ELSE LET l == next_power_of_two(content \div MaxPieceCount)
         IN  IF l >= MaxPieceLength THEN MaxPieceLength
             ELSE IF l > MinPieceLength THEN l ELSE MinPieceLength

calculate_piece_count(l, content) == (content + l - 1) \div l

Ranged == download.range # NoRange
RangeEnd == download.range.start + download.range.length

\* The record of the task is made; without content there is nothing to list, and a
\* range without length is refused.
download_started ==
    /\ phase = "length"
    /\ length' = calculate_piece_length(download.fixed, download.content)
    /\ phase' = IF download.content = 0 THEN "listed"
                ELSE IF Ranged /\ download.range.length = 0 THEN "error"
                ELSE "loop"
    /\ UNCHANGED <<download, loopVars, roundVars>>

\* The end of the content: the last piece gets what is left of it. A range behind the
\* end has no piece.
ContentEnds ==
    /\ phase = "loop"
    /\ offset >= download.content
    /\ IF pieces = <<>>
       THEN phase' = "error" /\ UNCHANGED <<pieces, remaining>>
       ELSE /\ phase' = "listed"
            /\ pieces' = [pieces EXCEPT ![Len(pieces)].length = length + download.content - offset]
            /\ remaining' = ToSet(pieces')
    /\ UNCHANGED <<download, length, number, offset, round, finished, brought>>

RangeEnds ==
    /\ phase = "loop"
    /\ offset < download.content
    /\ Ranged /\ offset >= RangeEnd
    /\ phase' = "listed"
    /\ remaining' = ToSet(pieces)
    /\ UNCHANGED <<download, length, loopVars, round, finished, brought>>

\* Mutant: a piece that ends where the range starts is listed.
ListPieceTouching ==
    /\ phase = "loop"
    /\ offset < download.content
    /\ Ranged => offset < RangeEnd
    /\ pieces' = IF ~Ranged \/ offset + length >= download.range.start
                 THEN Append(pieces, [number |-> number, offset |-> offset, length |-> length])
                 ELSE pieces
    /\ offset' = (number + 1) * length
    /\ number' = number + 1
    /\ UNCHANGED <<download, phase, length, roundVars>>

ListPiece ==
    /\ phase = "loop"
    /\ offset < download.content
    /\ Ranged => offset < RangeEnd
    /\ pieces' = IF ~Ranged \/ offset + length > download.range.start
                 THEN Append(pieces, [number |-> number, offset |-> offset, length |-> length])
                 ELSE pieces
    /\ offset' = (number + 1) * length
    /\ number' = number + 1
    /\ UNCHANGED <<download, phase, length, roundVars>>

calculate_interested == ListPiece \/ RangeEnds \/ ContentEnds

-----------------------------------------------------------------------------
(* The rounds of a download.                                                  *)

remove_finished_from_interested(done, interested) ==
    {p \in interested : \A f \in done : f.number # p.number}

\* Mutant: only the pieces of the last round are kept.
MergeLatest(done, more) == more

\* Of two pieces with the same number the one that was there is kept.
merge_finished_pieces(done, more) ==
    done \cup {f \in more : \A g \in done : g.number # f.number}

\* A round asks for the pieces that are left and brings some of them, so that the merge
\* never meets a number that it has.
RoundEnds ==
    /\ phase = "listed"
    /\ Len(pieces) \in 1 .. MaxMerged
    /\ round < MaxRounds
    /\ round' = round + 1
    /\ \E N \in SUBSET {p.number : p \in remaining} :
        /\ finished' = merge_finished_pieces(finished, [number : N, round : {round'}])
        /\ brought' = brought \cup N
    /\ remaining' = remove_finished_from_interested(finished', ToSet(pieces))
    /\ UNCHANGED <<download, phase, length, loopVars>>

Next == download_started \/ calculate_interested \/ RoundEnds

Spec == Init /\ [][Next]_vars

-----------------------------------------------------------------------------

\* The pieces listed are those, in order, that share a byte with the range (or with
\* the content), each with the bytes of the content that are its own. Only a range that
\* is empty or starts behind the end is refused; one that starts where the last piece
\* would be, were it a full one, gets the last piece.
ListedIsRange ==
    LET last == calculate_piece_count(length, download.content) - 1
        Extent(n) == n * length .. (n + 1) * length - 1
        Wanted == IF Ranged THEN download.range.start .. RangeEnd - 1 ELSE 0 .. download.content - 1
        N == {n \in 0 .. last : Extent(n) \cap Wanted # {}}
    IN  /\ phase = "listed" =>
              pieces = [i \in 1 .. Cardinality(N) |->
                           LET n == CHOOSE n \in N : Cardinality({k \in N : k < n}) = i - 1
                           IN  [number |-> n, offset |-> n * length,
                                length |-> Cardinality(Extent(n) \cap 0 .. download.content - 1)]]
        /\ phase = "error" => N = {}

\* The piece length that is calculated keeps the number of pieces within
\* MAX_PIECE_COUNT, or one above it where the quotient was cut off, unless it is the
\* longest; and it is never more than twice what that takes.
PieceCountFits ==
    phase # "length" /\ download.fixed = 0 =>
        /\ length \in MinPieceLength .. MaxPieceLength
        /\ length < MaxPieceLength => calculate_piece_count(length, download.content) <= MaxPieceCount + 1
        /\ length > MinPieceLength => (length \div 2) * MaxPieceCount < download.content

\* The number of finished pieces decides whether the download is complete
\* (finished_pieces.len() == interested_pieces.len()): over any rounds, it is that of
\* the listed pieces exactly when each of them was brought and none remains.
CountDecides ==
    phase = "listed" =>
        /\ Cardinality(finished) = Len(pieces) <=> brought = {p.number : p \in ToSet(pieces)}
        /\ Cardinality(finished) = Len(pieces) <=> remaining = {}

\* The loop ends.
Listed == phase \in {"listed", "error"}

=============================================================================
