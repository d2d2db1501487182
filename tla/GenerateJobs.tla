---------------------------- MODULE GenerateJobs ----------------------------
(***************************************************************************)
(* generateJobs of PreAssignJob.c and DynamicAssignJob.c: each job is a    *)
(* file, written in chunks; one job is heavier than the others.  fwrite    *)
(* stores less than it is asked to when the disk is full; the program      *)
(* tries again, whatever the reason.                                       *)
(*                                                                         *)
(* External: the disk, which fills up at most MaxFills times.              *)
(***************************************************************************)
EXTENDS Integers, FiniteSetsExt

CONSTANTS NumJobs,      \* INPUT_JOB_NUM
          ChunkSize,    \* CHUNK_SIZE
          ChunkNum,     \* TOTAL_CHUNK_NUM
          HeavyWeight,  \* THE_HEAVY_WEIGHT, argv[2]
          MaxFills,     \* bound: how often the disk gets full
          MaxBytes      \* bound: what totalBytes may be when the disk is full

Jobs == 0..(NumJobs - 1)
HeavyJob == 1  \* THE_HEAVY_JOB_ID

VARIABLES job,         \* the file that is being written
          chunk,       \* its chunks that are complete
          writeSize,   \* what is written of the next chunk
          totalBytes,  \* what the program says it has generated
          stored,      \* stored[j]: the bytes that are in the file of job j
          disk,        \* "free" or "full"
          fills        \* how often it was full

fileVars == <<job, chunk, writeSize, totalBytes, disk, fills>>

ChunksOf(j) == ChunkNum * (IF j = HeavyJob THEN HeavyWeight ELSE 1)

GenerateInit ==
  /\ job = 0 /\ chunk = 0 /\ writeSize = 0 /\ totalBytes = 0
  /\ disk = "free" /\ fills = 0

Generating == job < NumJobs

\* Mutant: writeSize is not reset after a chunk.
ChunkDoneKept == writeSize' = ChunkSize

\* The chunk is complete: writeSize starts again, after the last chunk in the next file.
ChunkDone == writeSize' = 0

NextChunk ==
  IF chunk + 1 < ChunksOf(job)
  THEN chunk' = chunk + 1 /\ UNCHANGED job
  ELSE chunk' = 0 /\ job' = job + 1

\* fwrite stores all that is left of the chunk.
WriteAll ==
  /\ Generating /\ disk = "free"
  /\ stored' = [stored EXCEPT ![job] = @ + ChunkSize - writeSize]
  /\ totalBytes' = totalBytes + ChunkSize
  /\ ChunkDone /\ NextChunk
  /\ UNCHANGED <<disk, fills>>

\* fwrite stores n bytes: the disk is full.
WriteSome ==
  \E n \in 0..(ChunkSize - writeSize - 1) :
    /\ Generating /\ disk = "free" /\ fills < MaxFills
    /\ stored' = [stored EXCEPT ![job] = @ + n]
    /\ writeSize' = writeSize + n
    /\ totalBytes' = totalBytes + writeSize'
    /\ disk' = "full" /\ fills' = fills + 1
    /\ UNCHANGED <<job, chunk>>

\* fwrite returns 0, which is not below 0: the loop goes on, and adds
\* writeSize to the total once more.
WriteNothing ==
  /\ Generating /\ disk = "full"
  /\ totalBytes + writeSize <= MaxBytes
  /\ totalBytes' = totalBytes + writeSize
  /\ UNCHANGED <<job, chunk, writeSize, stored, disk, fills>>

generateJobs == WriteAll \/ WriteSome \/ WriteNothing

\* External: somebody makes room on the disk, or nobody ever does.
MakeRoom ==
  /\ disk = "full"
  /\ disk' = "free"
  /\ UNCHANGED <<job, chunk, writeSize, totalBytes, stored, fills>>

\* The bytes that are in the files.
BytesStored == UNION {{j} \X (1..stored[j]) : j \in Jobs}

\* When the files are written each has all its bytes, and the size that is
\* told is theirs, unless a chunk was written in pieces: then
\* totalBytes+writeSize counts its first bytes once per piece.
FilesComplete ==
  (~Generating /\ totalBytes > 0) =>
    /\ \A j \in Jobs : stored[j] = ChunkSize * ChunksOf(j)
    /\ totalBytes >= Cardinality(BytesStored)
    /\ fills = 0 => totalBytes = Cardinality(BytesStored)
=============================================================================
