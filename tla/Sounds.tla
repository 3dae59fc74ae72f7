---- MODULE Sounds ----
(***************************************************************************)
(* Replacement sounds: the WAV loader (src/replacement/wav_audio_loader)   *)
(* and the catalog (src/replacement/replacement_catalog) that keeps what   *)
(* was loaded and builds what the renderer plays.                          *)
(*                                                                         *)
(* A file is where it is, its size in bytes, what its RIFF header says and *)
(* its chunks in order; the bytes behind the last one are fewer than a     *)
(* chunk header.  A place other than "local" names the status it leads to. *)
(***************************************************************************)
EXTENDS Integers, Sequences, SequencesExt, FiniteSets

CONSTANTS
    WavFiles,           \* the files a user may choose
    MaxFileBytes,       \* WavAudioLoaderOptions::max_file_bytes
    MaxSamples,         \* WavAudioLoaderOptions::max_decoded_samples
    AssetKinds          \* the kinds with an asset: duck, bark and custom

\* What a header may claim; only a chunk of the format has one inside.
WavFormat == [tag : Nat, channels : Nat, rate : Nat, bits : Nat, align : Nat, byteRate : Nat]
WavChunk == [id : {"fmt"}, size : Nat, format : WavFormat]
            \cup [id : {"data", "LIST"}, size : Nat]
Places == {"local", "empty_path", "remote_source", "missing", "not_regular_file", "unreadable",
           "too_large"}
WavFile == [place : Places, size : Nat, wave : BOOLEAN, riff : Nat, extension : BOOLEAN,
            chunks : Seq(WavChunk)]

ASSUME WavFilesAssumption == WavFiles \subseteq WavFile
ASSUME LimitsAssumption == MaxFileBytes \in Nat /\ MaxSamples \in Nat

Kinds == AssetKinds \cup {"beep"}
NoAsset == [count |-> 0]

VARIABLES
    assets,             \* the assets of the catalog
    sound               \* what an operation returned and the caller still has

soundVars == <<assets, sound>>

-----------------------------------------------------------------------------
(* Reading and parsing. *)

ReadLocalFile(file) ==
    IF file.place # "local" THEN file.place
    ELSE IF file.size = 0 THEN "truncated_header"
    ELSE IF file.size > MaxFileBytes THEN "too_large"
    ELSE "success"

\* A chunk with its header and the byte that pads it.
Padded(chunk) == 8 + chunk.size + (chunk.size % 2)

\* The chunks up to `end`: where the parser is, the format and data it found, or why it
\* gave up.
Walk(chunks, end) ==
    LET stop(s, status) == [s EXCEPT !.status = status]
        format(s, c) ==
            IF s.format # <<>> \/ c.size < 16 THEN stop(s, "invalid_header")
            ELSE [s EXCEPT !.format = <<c.format>>, !.at = @ + Padded(c)]
        data(s, c) ==
            IF s.data # <<>> THEN stop(s, "invalid_header")
            ELSE IF c.size = 0 THEN stop(s, "empty_data")
            ELSE [s EXCEPT !.data = <<[offset |-> s.at + 8, bytes |-> c.size]>>,
                           !.at = @ + Padded(c)]
        step(s, c) ==
            IF s.status # "success" \/ s.at >= end THEN s
            ELSE IF end - s.at < 8 THEN stop(s, "truncated_header")
            ELSE IF s.at + Padded(c) > end
            THEN stop(s, IF c.id = "data" THEN "truncated_data" ELSE "truncated_header")
            ELSE IF c.id = "fmt" THEN format(s, c)
            ELSE IF c.id = "data" THEN data(s, c)
            ELSE [s EXCEPT !.at = @ + Padded(c)]
        walked == FoldLeft(step, [at |-> 12, format |-> <<>>, data |-> <<>>,
                                  status |-> "success"], chunks)
    IN  IF walked.status = "success" /\ walked.at < end
        THEN stop(walked, "truncated_header") ELSE walked

FormatStatus(f) ==
    IF \/ f.tag # 1 \/ f.channels \notin 1 .. 32
       \/ f.rate = 0 \/ f.rate > 384000 \/ f.bits \notin {8, 16, 24, 32}
    THEN "unsupported_format"
    ELSE IF f.align # f.channels * (f.bits \div 8) \/ f.byteRate # f.rate * f.align
    THEN "invalid_header"
    ELSE "success"

\* Mutant of RiffStatus: the size that the header claims is not compared with the file's.
RiffStatusClaimed(file) ==
    IF file.size < 12 THEN "truncated_header"
    ELSE IF ~file.wave THEN "invalid_container"
    ELSE IF file.riff < 4 THEN "truncated_header"
    ELSE "success"

RiffStatus(file) ==
    IF file.size < 12 THEN "truncated_header"
    ELSE IF ~file.wave THEN "invalid_container"
    ELSE IF file.riff < 4 \/ file.riff + 8 > file.size THEN "truncated_header"
    ELSE "success"

\* What the parser says of a file whose chunks it has walked over.
Verdict(file, walked) ==
    LET status ==
            IF RiffStatus(file) # "success" THEN RiffStatus(file)
            ELSE IF walked.status # "success" THEN walked.status
            ELSE IF walked.format = <<>> THEN "missing_format_chunk"
            ELSE IF walked.data = <<>> THEN "missing_data_chunk"
            ELSE IF FormatStatus(walked.format[1]) # "success"
            THEN FormatStatus(walked.format[1])
            ELSE IF walked.data[1].bytes % walked.format[1].align # 0
            THEN "truncated_data"
            ELSE "success"
    IN  [status |-> status, format |-> walked.format, data |-> walked.data]

ParseWav(file) == Verdict(file, Walk(file.chunks, file.riff + 8))

ValidateWavPcm(file) ==
    IF ReadLocalFile(file) # "success" THEN ReadLocalFile(file) ELSE ParseWav(file).status

\* The decoded samples, and the bytes of the file they came from.
DecodeWav(file, parsed) ==
    LET format == parsed.format[1]
        data == parsed.data[1]
        count == (data.bytes \div format.align) * format.channels
        refused(status) == [op |-> "load", file |-> file, status |-> status,
                            read |-> {}, audio |-> [rate |-> 0, channels |-> 0, count |-> 0]]
    IN  IF ValidateWavPcm(file) # "success" THEN refused(ValidateWavPcm(file))
        ELSE IF count > MaxSamples THEN refused("too_large")
        ELSE [op |-> "load", file |-> file, status |-> "success",
              read |-> data.offset .. data.offset + count * (format.bits \div 8) - 1,
              audio |-> [rate |-> format.rate, channels |-> format.channels,
                         count |-> count]]

LoadWavPcm(file) == DecodeWav(file, ParseWav(file))

\* validate_custom_audio(): a check of the choice, before anything is decoded.
ValidateCustomAudio(file) ==
    IF file.place \in {"empty_path", "remote_source", "missing", "not_regular_file"}
    THEN file.place
    ELSE IF ~file.extension THEN "unsupported_format"
    ELSE IF file.size = 0 THEN "empty_file"
    ELSE IF file.place = "unreadable" THEN "unreadable"
    ELSE "valid"

-----------------------------------------------------------------------------
(* The catalog. *)

ValidAsset(a) == a.rate # 0 /\ a.channels # 0 /\ a.count # 0 /\ a.count % a.channels = 0

HasAsset(kind) == kind = "beep" \/ assets[kind] # NoAsset

Beep(rate, channels, frames) ==
    [rate |-> rate, channels |-> channels,
     count |-> IF rate = 0 \/ channels = 0 THEN 0 ELSE frames * channels]

Build(kind, rate, channels, frames) ==
    LET failed(status) ==
            [status |-> status, audio |-> [rate |-> rate, channels |-> channels, count |-> 0]]
    IN  IF kind = "beep"
        THEN [status |-> "success", audio |-> Beep(rate, channels, frames)]
        ELSE IF assets[kind] = NoAsset THEN failed("missing_asset")
        ELSE IF ~ValidAsset(assets[kind]) THEN failed("invalid_asset")
        ELSE [status |-> "success", audio |-> assets[kind]]

SoundInit ==
    /\ assets = [k \in AssetKinds |-> NoAsset]
    /\ sound = [op |-> "none"]

Load(file) ==
    /\ sound.op = "none"
    /\ sound' = LoadWavPcm(file)
    /\ UNCHANGED assets

ValidateChoice(file) ==
    /\ sound.op = "none"
    /\ sound' = [op |-> "check", file |-> file, status |-> ValidateCustomAudio(file)]
    /\ UNCHANGED assets

\* What was loaded last is registered, even if loading failed.
RegisterAsset(kind) ==
    LET accepted == kind # "beep" /\ ValidAsset(sound.audio)
    IN  /\ sound.op = "load"
        /\ assets' = IF accepted THEN [assets EXCEPT ![kind] = sound.audio] ELSE assets
        /\ sound' = [op |-> "register", accepted |-> accepted]

ClearAsset(kind) ==
    /\ sound.op = "none" /\ kind # "beep"
    /\ assets' = [assets EXCEPT ![kind] = NoAsset]
    /\ UNCHANGED sound

BuildReplacement(kind, rate, channels, frames) ==
    /\ sound.op = "none"
    /\ sound' = [op |-> "build", kind |-> kind, frames |-> frames,
                 built |-> Build(kind, rate, channels, frames)]
    /\ UNCHANGED assets

DropResult ==
    /\ sound.op # "none"
    /\ sound' = [op |-> "none"]
    /\ UNCHANGED assets

SoundNext ==
    \/ DropResult
    \/ \E file \in WavFiles : Load(file) \/ ValidateChoice(file)
    \/ \E kind \in Kinds :
         \/ RegisterAsset(kind)
         \/ ClearAsset(kind)
         \/ \E rate \in {8000, 48000}, channels \in 1 .. 2, frames \in 0 .. 2 :
              BuildReplacement(kind, rate, channels, frames)

SoundSpec == SoundInit /\ [][SoundNext]_soundVars

-----------------------------------------------------------------------------
(* Reference: what a file must be, as the format says it. *)

ChunkStart(file, i) ==
    FoldLeft(LAMBDA at, c : at + Padded(c), 12, SubSeq(file.chunks, 1, i - 1))

\* The chunks of the container with this id, by their number.
InsideOf(file, id) ==
    {i \in DOMAIN file.chunks : ChunkStart(file, i) < file.riff + 8 /\ file.chunks[i].id = id}

\* A format that can be decoded, and samples that it fits.
Fits(fmt, data) ==
    LET f == fmt.format
        bytes == f.bits \div 8
    IN  /\ fmt.size >= 16 /\ f.tag = 1
        /\ f.channels \in 1 .. 32 /\ f.bits \in {8, 16, 24, 32}
        /\ f.rate > 0 /\ f.rate <= 384000
        /\ f.align = bytes * f.channels /\ f.byteRate = f.align * f.rate
        /\ data.size > 0 /\ data.size % f.align = 0
        /\ data.size \div bytes <= MaxSamples

\* The chunks fill the container exactly, and one of them is a format that fits the other,
\* the samples.
Playable(file) ==
    /\ file.place = "local" /\ file.wave
    /\ file.size <= MaxFileBytes /\ file.riff + 8 <= file.size
    /\ \E i \in 1 .. Len(file.chunks) + 1 : ChunkStart(file, i) = file.riff + 8
    /\ \A id \in {"fmt", "data"} : Cardinality(InsideOf(file, id)) = 1
    /\ \E fmt \in InsideOf(file, "fmt"), data \in InsideOf(file, "data") :
         Fits(file.chunks[fmt], file.chunks[data])

PlayableSounds == {LoadWavPcm(file).audio : file \in {f \in WavFiles : Playable(f)}}

\* Sounds (docs/architecture.md "validates WAV input and rejects malformed, unsupported or
\* unreadable files"): a file is decoded exactly if it is well-formed as a whole, no byte
\* outside of it is read, a choice refused for anything but its extension could not have
\* been decoded, nothing that failed to decode gets into the catalog or replaces what is
\* there, and a build gives audio to play unless nothing was registered.
SoundsArePlayable ==
    /\ sound.op = "load" =>
         /\ sound.status = "success" <=> Playable(sound.file)
         /\ \A byte \in sound.read : 12 <= byte /\ byte < sound.file.size
    /\ sound.op = "check" /\ sound.status \notin {"valid", "unsupported_format"}
         => ~Playable(sound.file)
    /\ \A kind \in AssetKinds : assets[kind] \in PlayableSounds \cup {NoAsset}
    /\ sound.op = "build" =>
         /\ sound.built.status = "success" <=> HasAsset(sound.kind)
         /\ sound.built.audio.count = 0
              => ~HasAsset(sound.kind) \/ (sound.kind = "beep" /\ sound.frames = 0)

====
