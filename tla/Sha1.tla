-------------------------------- MODULE Sha1 --------------------------------
(***************************************************************************)
(* sha1_util.c: a digest taken of a message that comes in pieces, as       *)
(* sha1_file() reads a file, the control server its WebSocket key, and the *)
(* demos their HMAC keys.  The compression function is left abstract: the  *)
(* state of a digest is the sequence of the blocks it has been given.      *)
(***************************************************************************)
EXTENDS DemoPrograms, FiniteSetsExt

CONSTANTS Block,       \* bytes of a block; 64
          LengthSize,  \* bytes of the length at the end; 8
          Sizes,       \* the lengths of the messages
          Pieces       \* the lengths of the pieces

ASSUME BlockAssumption == Block \in Nat /\ LengthSize \in 1..(Block - 1)
ASSUME SizesAssumption == Sizes \subseteq Nat /\ Pieces \subseteq Nat \ {0}
\* So much of exponentiation the proofs need.
ASSUME LengthAssumption == 256 ^ LengthSize \in Nat \ {0}

LengthAt == Block - LengthSize
OneByte == 128
ZeroByte == 0

\* All that is known of a message's byte is its place.
Message == [i \in 1..mem.size |-> i]

\* bit_count is a uint64_t.  (In the mutant it counts bytes.)
AddBits_Bytes(n) == (mem.bitCount + n) % (256 ^ LengthSize)
AddBits(n) == (mem.bitCount + 8 * n) % (256 ^ LengthSize)
BigEndian(n) == [i \in 1..LengthSize |-> (n \div (256 ^ (LengthSize - i))) % 256]

DigestInit ==
  /\ protocol = "sha1" /\ scenario = "normal" /\ faults = {}
  /\ ProgramsAt([server |-> "update", client |-> "exit"])  \* one program
  /\ NoFiles
  \* taken: how many bytes sha1_update() has been given; data: those the running call
  \* has not copied yet; state: the blocks transformed; buffer: of buffer_len bytes;
  \* length: the bit_count that sha1_final() found
  /\ \E n \in Sizes :
       mem = [size |-> n, taken |-> 0, data |-> <<>>, state |-> <<>>, bitCount |-> 0,
              buffer |-> <<>>, length |-> 0]

\* A call of sha1_update() starts.
Given(bytes) == [mem EXCEPT !.data = bytes, !.bitCount = AddBits(Len(bytes))]

Room == Block - Len(mem.buffer)

\* One turn of the loop of sha1_update().
DigestCopy ==
  /\ mem.data # <<>>
  /\ LET n == Min({Room, Len(mem.data)})
         filled == mem.buffer \o SubSeq(mem.data, 1, n)
         full == Len(filled) = Block
     IN  mem' = [mem EXCEPT !.data = SubSeq(@, n + 1, Len(@)),
                            !.state = IF full THEN Append(@, filled) ELSE @,
                            !.buffer = IF full THEN <<>> ELSE filled]
  /\ UNCHANGED <<quietVars, net, at, results>>

DigestUpdate ==
  /\ at.server = "update" /\ mem.data = <<>>
  /\ \E n \in Pieces :
       /\ mem.taken + n <= mem.size
       /\ mem' = [Given(SubSeq(Message, mem.taken + 1, mem.taken + n)) EXCEPT !.taken = @ + n]
  /\ UNCHANGED <<quietVars, net, at, results>>

\* fread() fails: no digest.
DigestReadFails ==
  /\ at.server = "update" /\ mem.data = <<>>
  /\ Finish("server", ABORT)
  /\ UNCHANGED <<quietVars, net, mem>>

\* sha1_final() remembers bit_count, which its own updates change.
DigestFinalOne ==
  /\ at.server = "update" /\ mem.data = <<>> /\ mem.taken = mem.size
  /\ mem' = [Given(<<OneByte>>) EXCEPT !.length = mem.bitCount]
  /\ Goto("server", "pad")
  /\ UNCHANGED <<quietVars, net>>

Padded_Past == Len(mem.buffer) >= LengthAt
Padded == Len(mem.buffer) = LengthAt

DigestFinalZero ==
  /\ at.server = "pad" /\ mem.data = <<>> /\ ~Padded
  /\ mem' = Given(<<ZeroByte>>)
  /\ UNCHANGED <<quietVars, net, at, results>>

DigestFinalLength ==
  /\ at.server = "pad" /\ mem.data = <<>> /\ Padded
  /\ mem' = Given(BigEndian(mem.length))
  /\ Goto("server", "length")
  /\ UNCHANGED <<quietVars, net>>

DigestFinal ==
  /\ at.server = "length" /\ mem.data = <<>>
  /\ Finish("server", OK)
  /\ UNCHANGED <<quietVars, net, mem>>

Digest ==
  \/ DigestCopy \/ DigestUpdate \/ DigestReadFails
  \/ DigestFinalOne \/ DigestFinalZero \/ DigestFinalLength \/ DigestFinal

-----------------------------------------------------------------------------
\* The counts stay in their ranges: a full buffer is transformed at once.
DigestTypeOK ==
  /\ mem.size \in Sizes /\ mem.taken \in 0..mem.size
  /\ {mem.bitCount, mem.length} \subseteq 0..(256 ^ LengthSize - 1)
  /\ Len(mem.buffer) < Block
  /\ \A k \in DOMAIN mem.state : Len(mem.state[k]) = Block

\* FIPS 180: a one bit, as few zeros as bring the length to the end of a block, and
\* the length in bits.
PaddedMessage ==
  LET zeros == CHOOSE k \in 0..(Block - 1) : (mem.size + 1 + k) % Block = LengthAt
  IN  Message \o <<OneByte>> \o [i \in 1..zeros |-> ZeroByte]
        \o BigEndian((8 * mem.size) % (256 ^ LengthSize))

\* However the message is cut into pieces, the blocks and what waits for one are the
\* beginning of the padded message: no byte is lost, repeated or moved.
NothingLostOrRepeated ==
  protocol = "sha1" =>
    IsPrefix(FlattenSeq(mem.state) \o mem.buffer \o mem.data, PaddedMessage)

\* The digest is that of the whole padded message, for the lengths too at which the
\* padding needs a block of its own.
DigestOfPaddedMessage ==
  protocol = "sha1" /\ results.server = OK =>
    FlattenSeq(mem.state) = PaddedMessage /\ mem.buffer = <<>>

\* At every point of the calls, and at their end.
PaddedInPieces == NothingLostOrRepeated /\ DigestOfPaddedMessage
=============================================================================
