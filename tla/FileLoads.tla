------------------------------ MODULE FileLoads -----------------------------
(***************************************************************************)
(* The bounded loads of files: read_file_limited, read_file_prefix and     *)
(* decode_compressed_kdmp of crates/vmi-artifact and read_text_profile of  *)
(* crates/vmi-profile.  The size of the file is compared with the limit    *)
(* once, and then the file is read in chunks while other processes may     *)
(* append to it, cut it or write over it; a read may be short.  A crash    *)
(* dump that is compressed is decoded by a second loop of the same shape,  *)
(* over a stream whose length nobody knows in advance.                     *)
(*                                                                         *)
(* The contents of a file are a sequence of units; a unit is what one read *)
(* can return at least (a byte, or a line of a text profile).              *)
(***************************************************************************)
EXTENDS Naturals, Sequences, SequencesExt

CONSTANTS
  ChunkSize,   \* the size of the buffer a chunk is read into
  Top,         \* the largest number, u64::MAX
  MaxLength,   \* bound: the length of files and of decoded streams
  MaxEdits     \* bound: how often others change the file

ASSUME LoadAssumption ==
  /\ ChunkSize \in Nat \ {0} /\ Top \in Nat \ {0}
  /\ MaxLength \in Nat /\ MaxEdits \in Nat

\* What the header of a crash dump tells: compressed, or a page dump.
ZipUnit == <<"zip">>
PageUnit == <<"page">>

VARIABLES
  load,      \* the load under way: "limited", "kdmp" or "prefix" of an artifact,
             \* "system_map", "json" or "pdb" of a profile
  maximum,   \* its limit
  file,      \* the contents of the file
  edits,     \* how often the file was changed since it was opened
  grown,     \* whether all of these changes appended
  stage,     \* "open", "read", "decode", or how the load ended: "loaded",
             \* "refused" (for its size or header) or "unreadable"; a profile
             \* has further ones
  stream,    \* what the decoder produces
  encoded,   \* the compressed dump, which the decoder borrows until the load returns
  data       \* the bytes captured so far

loadVars == <<load, maximum, file, edits, grown, stage, stream, encoded, data>>

UpTo(units, length) == UNION {[1..n -> units] : n \in 0..length}

\* A load of the given kind of a file with one of the given contents.
InitLoad(kind, limits, contents) ==
  /\ load = kind
  /\ maximum \in limits
  /\ file \in contents
  /\ edits = 0
  /\ grown = TRUE
  /\ stage = "open"
  /\ stream = <<>>
  /\ encoded = <<>>
  /\ data = <<>>

EndLoad(outcome) ==
  /\ stage' = outcome
  /\ UNCHANGED <<load, maximum, file, edits, grown, stream, encoded, data>>

-----------------------------------------------------------------------------
(* The loop.                                                               *)

\* The size is compared before anything is read; a prefix has any size.
Inspect ==
  /\ stage = "open" /\ load # "pdb"
  /\ IF load # "prefix" /\ (maximum = 0 \/ Len(file) > maximum) THEN EndLoad("refused")
     ELSE EndLoad("read")

Reading == stage \in {"read", "decode"} /\ load # "pdb"

\* What is read from; the offset is the number of units captured.
Source == IF stage = "decode" THEN stream ELSE file
Available == IF Len(Source) > Len(data) THEN Len(Source) - Len(data) ELSE 0

\* Mutant: the reserved size is trusted.
CaptureLimitOfSize == IF load = "prefix" THEN maximum ELSE Top + 1

\* One unit more than allowed, to notice that there is more: saturating_add.
CaptureLimit ==
  IF load = "prefix" THEN maximum ELSE IF maximum = Top THEN Top ELSE maximum + 1

Remaining == IF CaptureLimit > Len(data) THEN CaptureLimit - Len(data) ELSE 0

\* Mutant: a file of exactly the maximum is refused.
TooLongEarly(d) == load # "prefix" /\ Len(d) >= maximum

\* The length is compared again after every chunk.
TooLong(d) == load # "prefix" /\ Len(d) > maximum

\* A chunk, which may be shorter than the buffer; an interrupted read is retried.
ReadChunk(count) ==
  /\ Reading
  /\ count <= ChunkSize /\ count <= Remaining /\ count <= Available
  /\ data' = data \o SubSeq(Source, Len(data) + 1, Len(data) + count)
  /\ stage' = IF TooLong(data') THEN "refused" ELSE stage
  /\ UNCHANGED <<load, maximum, file, edits, grown, stream, encoded>>

Compressed(d) == d # <<>> /\ d[1] = ZipUnit
IsPageDump(d) == d # <<>> /\ d[1] = PageUnit

\* The loop was left.  A compressed crash dump is decoded, into a stream that
\* only the decoder knows and which must be a page dump in its turn; what was
\* read is kept, since the decoder reads from it.
Captured(decoded) ==
  IF stage = "read" /\ load = "kdmp" /\ Compressed(data)
  THEN /\ stage' = "decode"
       /\ stream' = decoded
       /\ encoded' = data
       /\ data' = <<>>
       /\ UNCHANGED <<load, maximum, file, edits, grown>>
  ELSE /\ decoded = <<>>
       /\ EndLoad(IF stage = "decode" /\ ~IsPageDump(data) THEN "refused" ELSE "loaded")

EndOfFile(decoded) == Reading /\ Remaining > 0 /\ Available = 0 /\ Captured(decoded)

\* The capture limit is reached: a prefix is complete, and otherwise the limit
\* is Top and one more read tells whether the file goes on.
Full(decoded) ==
  /\ Reading /\ Remaining = 0
  /\ IF load # "prefix" /\ Available > 0 THEN decoded = <<>> /\ EndLoad("refused")
     ELSE Captured(decoded)

\* An error of the file system, of the decoder, or of an allocation.
LoadFails == stage \in {"open", "read", "decode", "reopen", "stream", "types"} /\ EndLoad("unreadable")

-----------------------------------------------------------------------------
(* Others change the file.                                                 *)

Edited(contents, appended) ==
  /\ stage \in {"open", "read", "reopen", "stream"} /\ edits < MaxEdits
  /\ file' = contents
  /\ edits' = edits + 1
  /\ grown' = (grown /\ appended)
  /\ UNCHANGED <<load, maximum, stage, stream, encoded, data>>

Grow(unit) == Len(file) < MaxLength /\ Edited(Append(file, unit), TRUE)
Cut(length) == length < Len(file) /\ Edited(SubSeq(file, 1, length), FALSE)
Overwrite(i, unit) == i \in DOMAIN file /\ file[i] # unit /\ Edited([file EXCEPT ![i] = unit], FALSE)

\* One step of the thread that loads.
LoadStep(streams) ==
  \/ Inspect
  \/ \E count \in 1..ChunkSize : ReadChunk(count)
  \/ \E decoded \in streams : EndOfFile(decoded) \/ Full(decoded)

EditStep(units) ==
  \/ \E unit \in units : Grow(unit)
  \/ \E length \in 0..MaxLength : Cut(length)
  \/ \E i \in 1..MaxLength, unit \in units : Overwrite(i, unit)

-----------------------------------------------------------------------------
(* Properties.                                                             *)

\* Whatever happens to the file after its size was compared, and however much a
\* decoder produces, the buffers of a load hold at most one unit more than the
\* limit, and what is returned does not exceed it.  A compressed dump is held
\* beside what is decoded from it, so that the two together may reach twice the
\* limit and one unit.  Only a PDB, whose reader trusts the size that open_pdb_file
\* saw, may be longer, and only when it has grown.
LoadBounded ==
  IF load = "pdb" THEN edits = 0 => Len(data) <= maximum
  ELSE LET probe == IF maximum < Top THEN 1 ELSE 0
           buffers == IF encoded = <<>> THEN 1 ELSE 2
       IN  /\ Len(encoded) + Len(data) <= buffers * maximum + probe
           /\ stage = "loaded" => Len(data) <= maximum

Loaded == stage = "loaded"

\* A load returns the whole file (its prefix, the decoded dump), however short the
\* reads are, also when the file grows meanwhile: then it is the file as it was
\* when its end was met.  A load that nobody disturbs is refused exactly when the
\* file is too long, or the limit zero, or the dump not a dump.
LoadExact ==
  LET decoded == load = "kdmp" /\ Compressed(file)
      whole == IF decoded THEN stream ELSE file
  IN  /\ Loaded /\ grown =>
           data = IF load = "prefix" /\ Len(whole) > maximum
                  THEN SubSeq(whole, 1, maximum) ELSE whole
      /\ stage = "refused" /\ edits = 0 =>
           \/ maximum = 0 \/ Len(file) > maximum
           \/ decoded /\ (Len(stream) > maximum \/ ~IsPageDump(stream))

=============================================================================
