--------------------------- MODULE StandaloneProof ---------------------------
(***************************************************************************)
(* The components that share no state with the others: log.c, and the test *)
(* programs relay.c, racey.c and addcnt.c.                                 *)
(*                                                                         *)
(* For every page size, buffer size, entry size and number of entries, the *)
(* log of log.c holds its entries one after the other, across the          *)
(* boundaries of its mappings, and reads them back.                        *)
(*                                                                         *)
(* For any number of threads and any finishing line, the threads of        *)
(* relay.c lose no step and run their legs in order.                       *)
(*                                                                         *)
(* For any number of threads, the start barrier of racey.c and addcnt.c    *)
(* keeps every access behind every thread's mem_init_thr, in both runs;    *)
(* and replay repeats the recorded run, to its result.                     *)
(***************************************************************************)
EXTENDS MappedLog, Relay, TestProgram, FiniteSetTheorems, TLAPS

(* A leaf that names no prover is for Zenon.                               *)
USE ZenonT(60)

(* What the mapping is while the log is written: its end is the file's,    *)
(* and it starts and ends on a page.                                       *)
Mapped ==
    /\ off + buf = written * entry_size /\ off + len = Len(file)
    /\ \E k \in Nat : Len(file) = LOG_BUFFER_SIZE * k
    /\ \E q \in Nat \ {0} : len = PAGE_SIZE * q
    /\ got = << >>

(* How far the reader is                                                   *)
Reading ==
    /\ Len(file) = written * entry_size
    /\ mode = "closed" => got = << >>
    /\ mode = "read" => off = 0 /\ len = Len(file) /\ buf = entry_size * Len(got)
    /\ mode = "end" => Len(got) = written
    /\ mode = "exit" => written = 0
    /\ mode \in {"read", "end"} => written > 0

Filled(f, n) == \A i \in 1 .. n * entry_size : f[i] = ((i - 1) \div entry_size) + 1

LogInv ==
    /\ LogTypeOK /\ Filled(file, written)
    /\ mode = "write" => Mapped
    /\ mode # "write" => Reading
    /\ \A k \in DOMAIN got : got[k] = k

-----------------------------------------------------------------------------
LEMMA Sizes ==
    /\ PAGE_SIZE \in Nat /\ PAGE_SIZE > 0 /\ LOG_BUFFER_SIZE \in Nat
    /\ LOG_BUFFER_SIZE = PAGE_SIZE * Buffers /\ Buffers \in Nat /\ Buffers > 0
    /\ PAGE_SIZE <= LOG_BUFFER_SIZE
<1>1. PAGE_SIZE \in Nat /\ PAGE_SIZE > 0 /\ Buffers \in Nat /\ Buffers > 0
    BY LogAssumption, SMTT(60)
<1>2. Buffers * PAGE_SIZE = PAGE_SIZE * Buffers /\ Buffers * PAGE_SIZE \in Nat
      /\ PAGE_SIZE <= PAGE_SIZE * Buffers
    BY <1>1, SMTT(60)
<1> QED BY <1>1, <1>2 DEF LOG_BUFFER_SIZE

LEMMA IsSeq ==
    ASSUME NEW S, NEW n \in Nat, NEW f \in [1 .. n -> S]
    PROVE  f \in Seq(S) /\ Len(f) = n
BY SMTT(60)

LEMMA ResizedSeq ==
    ASSUME NEW S, 0 \in S, NEW f \in Seq(S), NEW n \in Nat
    PROVE  Resized(f, n) \in Seq(S) /\ Len(Resized(f, n)) = n
<1>1. \A i \in 1 .. n : (IF i <= Len(f) THEN f[i] ELSE 0) \in S
    BY SMTT(60)
<1>2. Resized(f, n) \in [1 .. n -> S]
    BY <1>1 DEF Resized
<1> QED BY <1>2, IsSeq

(* enlarge_mapped_log maps the file's last page again and puts buf where   *)
(* it was in the file: what is left of the mapping is shorter than a page. *)
LEMMA SamePlace ==
    ASSUME NEW q \in Nat, NEW b \in Nat, b <= PAGE_SIZE * q, PAGE_SIZE * q < b + PAGE_SIZE
    PROVE  (IF b % PAGE_SIZE # 0 THEN b % PAGE_SIZE ELSE PAGE_SIZE) = PAGE_SIZE + b - PAGE_SIZE * q
<1> DEFINE P == PAGE_SIZE
<1>0. P \in Nat /\ P > 0
    BY Sizes
<1> HIDE DEF P
<1>1. CASE b = P * q
  <2>1. (P * q) % P = 0
      BY <1>0, SMTT(60)
  <2> QED BY <1>0, <1>1, <2>1, SMTT(60) DEF P
<1>2. CASE b # P * q
  <2> DEFINE s == b - P * (q - 1)
  <2>1. q > 0
    <3>1. q = 0 => P * q = 0
        BY <1>0, SMTT(60)
    <3> QED BY <1>2, <3>1, SMTT(60) DEF P
  <2>2. P * (q - 1) \in Nat /\ P * (q - 1) = P * q - P /\ q - 1 \in Nat
      BY <1>0, <2>1, SMTT(60)
  <2>3. s \in 1 .. P - 1 /\ b = P * (q - 1) + s
      BY <1>0, <1>2, <2>2, SMTT(60) DEF P
  <2> HIDE DEF s
  <2>4. \A k \in Nat : \A r \in 0 .. P - 1 : (P * k + r) % P = r
      BY <1>0, SMTT(60)
  <2>5. b % P = s
      BY <1>0, <2>2, <2>3, <2>4, SMTT(60)
  <2> QED BY <1>0, <2>2, <2>3, <2>5, SMTT(60) DEF P
<1> QED BY <1>1, <1>2

-----------------------------------------------------------------------------
(* Writing.  Where the next entry goes, after an enlargement if the rest   *)
(* of the mapping is too small for it: right behind the last one, within   *)
(* the mapping, which again ends with the file.                            *)
Fits(f, m) ==
    /\ f \in Seq(0 .. MaxEntries)
    /\ \A i \in 1 .. Len(file) : f[i] = file[i]
    /\ Len(file) <= Len(f) /\ \E k \in Nat : Len(f) = LOG_BUFFER_SIZE * k
    /\ m.off \in Nat /\ m.len \in Nat /\ m.buf \in Nat
    /\ m.off + m.buf = written * entry_size /\ m.off + m.len = Len(f)
    /\ m.buf + entry_size <= m.len
    /\ \E q \in Nat \ {0} : m.len = PAGE_SIZE * q

LEMMA Enlarged ==
    ASSUME LogTypeOK, Mapped, buf + entry_size > len
    PROVE  Fits(Resized(file, Len(file) + LOG_BUFFER_SIZE), enlarge_mapped_log(Len(file)))
<1> DEFINE f == Resized(file, Len(file) + LOG_BUFFER_SIZE)
           m == enlarge_mapped_log(Len(file))
<1>1. /\ file \in Seq(0 .. MaxEntries) /\ Len(file) \in Nat /\ 0 \in 0 .. MaxEntries
      /\ off \in Nat /\ len \in Nat /\ buf \in Nat /\ buf <= len
      /\ entry_size \in Nat /\ entry_size <= PAGE_SIZE /\ entry_size >= 1
    BY LogAssumption, SMTT(60) DEF LogTypeOK
<1>2. PICK q \in Nat \ {0} : len = PAGE_SIZE * q
    BY DEF Mapped
<1>3. off + buf = written * entry_size /\ off + len = Len(file)
    BY DEF Mapped
<1>4. f \in Seq(0 .. MaxEntries) /\ Len(f) = Len(file) + LOG_BUFFER_SIZE
  <2>1. Len(file) + LOG_BUFFER_SIZE \in Nat
      BY <1>1, Sizes, SMTT(60)
  <2> QED BY <1>1, <2>1, ResizedSeq
<1>5. \A i \in 1 .. Len(file) : f[i] = file[i]
    BY <1>1, Sizes, SMTT(60) DEF Resized
<1>6. \E k \in Nat : Len(f) = LOG_BUFFER_SIZE * k
  <2>1. PICK k \in Nat : Len(file) = LOG_BUFFER_SIZE * k
      BY DEF Mapped
  <2>2. LOG_BUFFER_SIZE * (k + 1) = LOG_BUFFER_SIZE * k + LOG_BUFFER_SIZE
      BY Sizes, SMTT(60)
  <2> QED BY <1>4, <2>1, <2>2, SMTT(60)
<1>7. m.buf = PAGE_SIZE + buf - len
  <2>1. (IF buf % PAGE_SIZE # 0 THEN buf % PAGE_SIZE ELSE PAGE_SIZE) = PAGE_SIZE + buf - PAGE_SIZE * q
    <3>1. buf \in Nat /\ buf <= PAGE_SIZE * q /\ PAGE_SIZE * q < buf + PAGE_SIZE
        BY <1>1, <1>2, Sizes, SMTT(60)
    <3> QED BY <3>1, SamePlace
  <2> QED BY <1>2, <2>1 DEF enlarge_mapped_log
<1>8. m.off = Len(file) - PAGE_SIZE /\ m.len = LOG_BUFFER_SIZE + PAGE_SIZE
    BY DEF enlarge_mapped_log
<1>9. PAGE_SIZE <= len
  <2>1. PAGE_SIZE <= PAGE_SIZE * q
      BY Sizes, SMTT(60)
  <2> QED BY <1>2, <2>1
<1>10. \E k \in Nat \ {0} : m.len = PAGE_SIZE * k
  <2>1. PAGE_SIZE * (Buffers + 1) = PAGE_SIZE * Buffers + PAGE_SIZE
      BY Sizes, SMTT(60)
  <2> QED BY <1>8, <2>1, Sizes, SMTT(60)
<1> HIDE DEF f, m
<1>11. m.off \in Nat /\ m.len \in Nat /\ m.buf \in Nat
    BY <1>1, <1>3, <1>7, <1>8, <1>9, Sizes, SMTT(60)
<1>12. m.off + m.buf = off + buf /\ m.off + m.len = Len(f) /\ m.buf + entry_size <= m.len
  <2>1. PAGE_SIZE \in Nat /\ LOG_BUFFER_SIZE \in Nat /\ PAGE_SIZE <= LOG_BUFFER_SIZE
      BY Sizes
  <2>2. off + len = Len(file)
      BY <1>3
  <2> QED BY <1>1, <1>4, <1>7, <1>8, <2>1, <2>2, SMTT(60)
<1>13. Fits(f, m)
  <2>1. Len(file) <= Len(f)
      BY <1>1, <1>4, Sizes, SMTT(60)
  <2> QED BY <1>3, <1>4, <1>5, <1>6, <1>10, <1>11, <1>12, <2>1 DEF Fits
<1> QED BY <1>13 DEF f, m

(* A file whose next entry is filled in holds one entry more.              *)
LEMMA OneMore ==
    ASSUME NEW f, NEW g, NEW n \in Nat, entry_size \in Nat, entry_size > 0, Filled(f, n),
           \A i \in 1 .. n * entry_size : g[i] = f[i],
           \A i \in n * entry_size + 1 .. n * entry_size + entry_size : g[i] = n + 1
    PROVE  Filled(g, n + 1)
<1> DEFINE e == entry_size
<1>0. e \in Nat /\ e > 0
    OBVIOUS
<1>1. n * e \in Nat /\ n * e = e * n /\ (n + 1) * e = n * e + e
    BY SMTT(60)
<1>2. \A r \in 0 .. e - 1 : (e * n + r) \div e = n
    BY <1>0, SMTT(60)
<1> HIDE DEF e
<1>3. ASSUME NEW i \in n * e + 1 .. n * e + e
      PROVE  ((i - 1) \div e) + 1 = n + 1
  <2>1. i - 1 - e * n \in 0 .. e - 1 /\ i - 1 = e * n + (i - 1 - e * n)
      BY <1>0, <1>1, SMTT(60)
  <2>2. (i - 1) \div e = n
      BY <1>2, <2>1
  <2> QED BY <2>2
<1>4. ASSUME NEW i \in 1 .. (n + 1) * e PROVE g[i] = ((i - 1) \div e) + 1
  <2>1. CASE i <= n * e
      BY <1>0, <1>1, <2>1, SMTT(60) DEF Filled, e
  <2>2. CASE i > n * e
    <3>1. i \in n * e + 1 .. n * e + e
        BY <1>0, <1>1, <2>2, SMTT(60)
    <3> QED BY <1>3, <3>1 DEF e
  <2> QED BY <1>0, <1>1, <2>1, <2>2, SMTT(60)
<1> QED BY <1>4 DEF Filled, e
LEMMA WriteInv ==
    ASSUME LogInv, next_log_entry
    PROVE  LogInv'
<1> DEFINE full == buf + entry_size > len
           m == IF full THEN enlarge_mapped_log(Len(file)) ELSE [off |-> off, len |-> len, buf |-> buf]
           f == IF full THEN Resized(file, Len(file) + LOG_BUFFER_SIZE) ELSE file
           at == m.off + m.buf
<1>1. /\ mode = "write" /\ written < MaxEntries /\ written' = written + 1
      /\ file' = [i \in DOMAIN f |-> IF i \in at + 1 .. at + entry_size THEN written + 1 ELSE f[i]]
      /\ off' = m.off /\ len' = m.len /\ buf' = m.buf + entry_size
      /\ UNCHANGED <<entry_size, got, mode>>
    BY DEF next_log_entry
<1>2. LogTypeOK /\ Mapped /\ Filled(file, written)
    BY <1>1 DEF LogInv
<1>3. Fits(f, m)
  <2>1. CASE full
      BY <1>2, <2>1, Enlarged
  <2>2. CASE ~full
    <3>1. m.off = off /\ m.len = len /\ m.buf = buf /\ f = file
        BY <2>2
    <3>2. file \in Seq(0 .. MaxEntries) /\ off \in Nat /\ len \in Nat /\ buf \in Nat
          /\ entry_size \in Nat /\ buf + entry_size <= len
        BY <1>2, <2>2, SMTT(60) DEF LogTypeOK
    <3> HIDE DEF m, f
    <3> QED BY <1>2, <3>1, <3>2, SMTT(60) DEF Fits, Mapped
  <2> QED BY <2>1, <2>2
<1> HIDE DEF full, m, f
<1>4. /\ f \in Seq(0 .. MaxEntries) /\ \A i \in 1 .. Len(file) : f[i] = file[i]
      /\ Len(file) \in Nat /\ Len(f) \in Nat /\ Len(file) <= Len(f) /\ DOMAIN f = 1 .. Len(f)
      /\ m.off \in Nat /\ m.len \in Nat /\ m.buf \in Nat /\ m.buf + entry_size <= m.len
      /\ at = written * entry_size /\ m.off + m.len = Len(f)
    BY <1>2, <1>3, SMTT(60) DEF Fits, LogTypeOK
<1>5. /\ entry_size \in Nat /\ entry_size > 0 /\ written \in Nat /\ written + 1 \in 0 .. MaxEntries
      /\ written * entry_size \in Nat /\ (written + 1) * entry_size = written * entry_size + entry_size
    BY <1>1, <1>2, LogAssumption, SMTT(60) DEF LogTypeOK
<1>6. at \in Nat /\ at + entry_size <= Len(f)
    BY <1>4, <1>5, SMTT(60)
<1>n. entry_size \in Nat /\ entry_size > 0
    BY <1>5
<1>7. /\ file' = [i \in 1 .. Len(f) |-> IF i \in at + 1 .. at + entry_size THEN written + 1 ELSE f[i]]
      /\ \A i \in 1 .. Len(f) : f[i] \in 0 .. MaxEntries
      /\ off' + buf' = at + entry_size
  <2>1. off' + buf' = at + entry_size
      BY <1>1, <1>4, <1>n, SMTT(60)
  <2>2. DOMAIN f = 1 .. Len(f)
      BY <1>4
  <2>3. \A i \in 1 .. Len(f) : f[i] \in 0 .. MaxEntries
    <3>1. f \in Seq(0 .. MaxEntries)
        BY <1>4
    <3>2. ASSUME NEW S, NEW s \in Seq(S) PROVE \A i \in 1 .. Len(s) : s[i] \in S
        BY SMTT(60)
    <3> QED BY <3>1, <3>2
  <2> HIDE DEF at
  <2> QED BY <1>1, <2>1, <2>2, <2>3
<1> HIDE DEF at
<1>8. file' \in Seq(0 .. MaxEntries) /\ Len(file') = Len(f)
  <2>1. file' \in [1 .. Len(f) -> 0 .. MaxEntries]
    <3>1. written + 1 \in 0 .. MaxEntries
        BY <1>5
    <3> QED BY <1>7, <3>1
  <2>2. Len(f) \in Nat
      BY <1>4
  <2> QED BY <2>1, <2>2, IsSeq
<1>f. Filled(file', written + 1)
  <2>1. ASSUME NEW i \in 1 .. at PROVE file'[i] = file[i]
    <3>1. off + buf = at /\ off + len = Len(file) /\ off \in Nat /\ len \in Nat /\ buf \in 0 .. len
        BY <1>2, <1>4 DEF Mapped, LogTypeOK
    <3>2. at \in Nat /\ entry_size \in Nat /\ Len(file) \in Nat /\ Len(f) \in Nat /\ Len(file) <= Len(f)
        BY <1>4, <1>5, <1>6
    <3>3. i \in 1 .. Len(file) /\ i \in 1 .. Len(f) /\ i \notin at + 1 .. at + entry_size
        BY <3>1, <3>2, SMTT(60)
    <3> QED BY <1>4, <1>7, <3>3
  <2>2. ASSUME NEW i \in at + 1 .. at + entry_size PROVE file'[i] = written + 1
    <3>1. Len(f) \in Nat /\ at \in Nat /\ at + entry_size <= Len(f)
        BY <1>4, <1>6
    <3>2. i \in 1 .. Len(f)
        BY <1>n, <3>1, SMTT(60)
    <3> QED BY <1>7, <3>2
  <2>3. at = written * entry_size
      BY <1>4
  <2> QED BY <1>2, <1>5, <2>1, <2>2, <2>3, OneMore
<1>9. Filled(file, written)'
    BY <1>1, <1>f DEF Filled
<1>10. LogTypeOK'
    BY <1>1, <1>2, <1>4, <1>5, <1>8, SMTT(60) DEF LogTypeOK
<1>11. Mapped'
  <2>1. \E k \in Nat : Len(f) = LOG_BUFFER_SIZE * k
      BY <1>3 DEF Fits
  <2>2. \E q \in Nat \ {0} : m.len = PAGE_SIZE * q
      BY <1>3 DEF Fits
  <2>3. off' + buf' = written' * entry_size'
    <3>1. off' + buf' = written * entry_size + entry_size
        BY <1>4, <1>7
    <3> QED BY <1>1, <1>5, <3>1
  <2> QED BY <1>1, <1>2, <1>4, <1>8, <2>1, <2>2, <2>3 DEF Mapped
<1> QED BY <1>1, <1>9, <1>10, <1>11 DEF LogInv

(* unmap_truncate_log cuts the file where the last entry ends.             *)
LEMMA TruncateInv ==
    ASSUME LogInv, unmap_truncate_log
    PROVE  LogInv'
<1>1. mode = "write" /\ file' = Resized(file, Len(file) - (len - buf)) /\ mode' = "closed"
      /\ UNCHANGED <<off, len, buf, entry_size, written, got>>
    BY DEF unmap_truncate_log
<1>2. /\ LogTypeOK /\ off + buf = written * entry_size /\ off + len = Len(file) /\ got = << >>
      /\ Filled(file, written)
    BY <1>1 DEF LogInv, Mapped
<1> DEFINE n == written * entry_size
<1>3. /\ file \in Seq(0 .. MaxEntries) /\ Len(file) \in Nat /\ 0 \in 0 .. MaxEntries
      /\ off \in Nat /\ len \in Nat /\ buf \in Nat /\ buf <= len
    BY <1>2, LogAssumption, SMTT(60) DEF LogTypeOK
<1> HIDE DEF n
<1>4. n \in Nat /\ n <= Len(file) /\ Len(file) - (len - buf) = n
    BY <1>2, <1>3, SMTT(60) DEF n
<1>5. file' \in Seq(0 .. MaxEntries) /\ Len(file') = n
    BY <1>1, <1>3, <1>4, ResizedSeq
<1>6. \A i \in 1 .. n : file'[i] = file[i]
    BY <1>1, <1>3, <1>4, SMTT(60) DEF Resized
<1>7. Filled(file, written)'
    BY <1>1, <1>2, <1>6 DEF Filled, n
<1>8. LogTypeOK' /\ Reading'
    BY <1>1, <1>2, <1>5 DEF LogTypeOK, Reading, n
<1> QED BY <1>1, <1>7, <1>8 DEF LogInv
(* open_mapped_log_path starts reading, if there is anything to read.      *)
LEMMA OpenInv ==
    ASSUME LogInv, open_mapped_log_path
    PROVE  LogInv'
<1>1. mode = "closed" /\ UNCHANGED <<file, entry_size, written, got>>
    BY DEF open_mapped_log_path
<1>2. /\ LogTypeOK /\ Len(file) = written * entry_size /\ got = << >> /\ Filled(file, written)
    BY <1>1 DEF LogInv, Reading
<1>3. Filled(file, written)'
    BY <1>1, <1>2 DEF Filled
<1>4. CASE file = << >>
  <2>1. mode' = "exit" /\ UNCHANGED <<off, len, buf>>
      BY <1>4 DEF open_mapped_log_path
  <2>2. written = 0
    <3>1. written \in Nat /\ entry_size \in Nat /\ entry_size > 0 /\ Len(file) = 0
        BY <1>2, <1>4, SMTT(60) DEF LogTypeOK
    <3> QED BY <1>2, <3>1, SMTT(60)
  <2>3. LogTypeOK' /\ Reading'
      BY <1>1, <1>2, <2>1, <2>2 DEF LogTypeOK, Reading
  <2> QED BY <1>1, <1>2, <1>3, <2>1, <2>3 DEF LogInv
<1>5. CASE file # << >>
  <2>1. mode' = "read" /\ off' = 0 /\ len' = Len(file) /\ buf' = 0
      BY <1>5 DEF open_mapped_log_path
  <2>2. LogTypeOK'
      BY <1>1, <1>2, <2>1, SMTT(60) DEF LogTypeOK
  <2>3. Reading'
    <3>1. Len(got) = 0 /\ entry_size * 0 = 0
        BY <1>2, SMTT(60) DEF LogTypeOK
    <3>2. written > 0
      <4>1. written \in Nat /\ entry_size \in Nat /\ file \in Seq(0 .. MaxEntries)
          BY <1>2, SMTT(60) DEF LogTypeOK
      <4>2. Len(file) # 0
          BY <1>5, <4>1, SMTT(60)
      <4> QED BY <1>2, <4>1, <4>2, SMTT(60)
    <3> QED BY <1>1, <1>2, <2>1, <3>1, <3>2 DEF Reading
  <2> QED BY <1>1, <1>2, <1>3, <2>1, <2>2, <2>3 DEF LogInv
<1> QED BY <1>4, <1>5

(* read_log_entry returns the entry after the ones it has returned, and    *)
(* NULL only after the last.                                               *)
LEMMA ReadEntryInv ==
    ASSUME LogInv, read_log_entry
    PROVE  LogInv'
<1>1. mode = "read" /\ UNCHANGED <<file, off, len, entry_size, written>>
    BY DEF read_log_entry
<1> DEFINE e == entry_size
           g == Len(got)
<1>2. /\ LogTypeOK /\ Len(file) = written * e /\ off = 0 /\ len = Len(file) /\ buf = e * g
      /\ Filled(file, written) /\ written > 0 /\ \A k \in DOMAIN got : got[k] = k
    BY <1>1 DEF LogInv, Reading
<1>3. /\ e \in Nat /\ e > 0 /\ written \in Nat /\ g \in Nat /\ buf <= len /\ buf \in Nat /\ len \in Nat
      /\ got \in Seq(Nat)
    BY <1>2, SMTT(60) DEF LogTypeOK
<1>4. Filled(file, written)'
    BY <1>1, <1>2 DEF Filled
<1> HIDE DEF e, g
<1>5. CASE buf + e > len
  <2>1. mode' = "end" /\ UNCHANGED <<buf, got>>
      BY <1>5 DEF read_log_entry, e
  <2>2. g = written
    <3>1. \A n, k, j \in Nat : n > 0 /\ n * k <= j * n => k <= j
        BY SMTT(60)
    <3>2. \A n, k, j \in Nat : n * k + n > j * n => j <= k
        BY SMTT(60)
    <3>3. g <= written
        BY <1>2, <1>3, <3>1
    <3>4. written <= g
        BY <1>2, <1>3, <1>5, <3>2
    <3> QED BY <1>3, <3>3, <3>4, SMTT(60)
  <2>3. LogTypeOK' /\ Reading'
      BY <1>1, <1>2, <2>1, <2>2 DEF LogTypeOK, Reading, g, e
  <2> QED BY <1>1, <1>2, <1>4, <2>1, <2>3 DEF LogInv
<1>6. CASE ~(buf + e > len)
  <2>1. got' = Append(got, file[off + buf + 1]) /\ buf' = buf + e /\ UNCHANGED mode
      BY <1>6 DEF read_log_entry, e
  <2>2. file[off + buf + 1] = g + 1
    <3>1. off + buf + 1 = e * g + 1 /\ e * g \in Nat /\ e * g + 1 \in 1 .. written * e
        BY <1>2, <1>3, <1>6, SMTT(60)
    <3>2. file[e * g + 1] = ((e * g + 1 - 1) \div e) + 1
        BY <1>2, <3>1, SMTT(60) DEF Filled, e
    <3>3. \A n, k \in Nat : n > 0 => (n * k) \div n = k
        BY SMTT(60)
    <3>4. e * g + 1 - 1 = e * g /\ (e * g) \div e = g
        BY <1>3, <3>1, <3>3, SMTT(60)
    <3> QED BY <3>1, <3>2, <3>4
  <2>3. got' \in Seq(Nat) /\ Len(got') = g + 1 /\ \A k \in DOMAIN got' : got'[k] = k
      BY <1>2, <1>3, <2>1, <2>2, SMTT(60) DEF g
  <2>4. buf' \in 0 .. len
      BY <1>3, <1>6, <2>1, SMTT(60)
  <2>5. buf' = e * (g + 1)
    <3>1. e * (g + 1) = e * g + e
        BY <1>3, SMTT(60)
    <3> QED BY <1>2, <2>1, <3>1
  <2>6. LogTypeOK'
      BY <1>1, <1>2, <2>1, <2>3, <2>4 DEF LogTypeOK
  <2>7. Reading'
      BY <1>1, <1>2, <2>1, <2>3, <2>5 DEF Reading, e
  <2> QED BY <1>1, <1>4, <2>1, <2>3, <2>6, <2>7 DEF LogInv
<1> QED BY <1>5, <1>6

-----------------------------------------------------------------------------
LEMMA LogInvInit == LogInit => LogInv
<1> SUFFICES ASSUME LogInit PROVE LogInv
    OBVIOUS
<1>1. /\ file = Resized(<< >>, LOG_BUFFER_SIZE) /\ off = 0 /\ len = LOG_BUFFER_SIZE /\ buf = 0
      /\ entry_size \in 1 .. PAGE_SIZE /\ written = 0 /\ got = << >> /\ mode = "write"
    BY DEF LogInit
<1>2. file \in Seq(0 .. MaxEntries) /\ Len(file) = LOG_BUFFER_SIZE
  <2>1. 0 \in 0 .. MaxEntries /\ << >> \in Seq(0 .. MaxEntries) /\ LOG_BUFFER_SIZE \in Nat
      BY LogAssumption, Sizes, SMTT(60)
  <2> QED BY <1>1, <2>1, ResizedSeq
<1>3. LogTypeOK
    BY <1>1, <1>2, LogAssumption, Sizes, SMTT(60) DEF LogTypeOK
<1>4. entry_size \in Nat /\ written * entry_size = 0
    BY <1>1, LogAssumption, SMTT(60)
<1>5. Mapped
  <2>1. LOG_BUFFER_SIZE \in Nat /\ LOG_BUFFER_SIZE = LOG_BUFFER_SIZE * 1
      BY Sizes, SMTT(60)
  <2>2. \E q \in Nat \ {0} : len = PAGE_SIZE * q
      BY <1>1, Sizes, SMTT(60)
  <2>3. off + buf = written * entry_size /\ off + len = Len(file)
      BY <1>1, <1>2, <1>4, <2>1, SMTT(60)
  <2> QED BY <1>1, <1>2, <2>1, <2>2, <2>3 DEF Mapped
<1>6. Filled(file, written)
    BY <1>4, SMTT(60) DEF Filled
<1> QED BY <1>1, <1>3, <1>5, <1>6, SMTT(60) DEF LogInv

LEMMA LogInvNext == LogInv /\ [LogNext]_logVars => LogInv'
<1> SUFFICES ASSUME LogInv, [LogNext]_logVars PROVE LogInv'
    OBVIOUS
<1>1. CASE UNCHANGED logVars
    BY <1>1 DEF logVars, LogInv, LogTypeOK, Mapped, Reading, Filled
<1> QED BY <1>1, WriteInv, TruncateInv, OpenInv, ReadEntryInv DEF LogNext

LEMMA LogInvariant == LogSpec => []LogInv
BY LogInvInit, LogInvNext, PTL DEF LogSpec

(* next_log_entry and enlarge_mapped_log: whatever the sizes, the entries  *)
(* follow one another in the file across page and mapping boundaries, no   *)
(* byte beyond the mapping is handed out, the mapping ends with the file,  *)
(* and assert(original_size % LOG_BUFFER_SIZE == 0) holds.                 *)
THEOREM LogContiguous == LogSpec => []EntriesContiguous
<1>1. LogInv => EntriesContiguous
  <2> SUFFICES ASSUME LogInv PROVE EntriesContiguous
      OBVIOUS
  <2>1. ASSUME mode = "write"
        PROVE  off + buf = written * entry_size /\ off + len = Len(file) /\ Len(file) % LOG_BUFFER_SIZE = 0
    <3>1. Mapped
        BY <2>1 DEF LogInv
    <3>2. PICK k \in Nat : Len(file) = LOG_BUFFER_SIZE * k
        BY <3>1 DEF Mapped
    <3>3. \A n, j \in Nat : n > 0 => (n * j) % n = 0
        BY SMTT(60)
    <3>4. LOG_BUFFER_SIZE \in Nat /\ LOG_BUFFER_SIZE > 0
        BY Sizes, SMTT(60)
    <3> QED BY <3>1, <3>2, <3>3, <3>4 DEF Mapped
  <2> QED BY <2>1 DEF EntriesContiguous, LogInv, Filled
<1> QED BY <1>1, LogInvariant, PTL

(* unmap_truncate_log leaves exactly the entries in the file, and          *)
(* read_log_entry returns all of them in order before it returns NULL;     *)
(* open_mapped_log ends the program for a log without entries and for no   *)
(* other.                                                                  *)
THEOREM LogReadBack == LogSpec => []ReadBack
<1>1. LogInv => ReadBack
    BY DEF LogInv, LogTypeOK, Reading, ReadBack
<1> QED BY <1>1, LogInvariant, PTL

-----------------------------------------------------------------------------
(* relay.c                                                                 *)
(*                                                                         *)
(* The inductive invariant.  A thread between the test and the store is on *)
(* its own leg, and legs do not overlap: so no two threads are there.      *)
OnLeg(t) ==
    /\ tpc[t] \in {"test", "load", "store", "done"} => step >= floor(t)
    /\ tpc[t] \in {"load", "store"} => step < ceiling(t)
    /\ tpc[t] = "done" => step >= ceiling(t)
    /\ tpc[t] = "store" => reg[t] = step

RelayInv ==
    /\ created \in Nat /\ step \in Nat /\ step <= leg * NumProcs
    /\ tpc \in [Thread -> Place] /\ reg \in [Thread -> Nat]
    /\ \A t \in Thread : OnLeg(t)

-----------------------------------------------------------------------------
(* main's floors and ceilings are natural numbers (int, no overflow: the   *)
(* line is 10000000), and every leg starts where the one before ends       *)
LEMMA LegBounds ==
    ASSUME NEW t \in Thread
    PROVE  /\ floor(t) \in Nat /\ ceiling(t) \in Nat
           /\ floor(t) <= ceiling(t) /\ ceiling(t) <= leg * NumProcs
<1>1. leg \in Nat
  BY RelayAssumption, SMTT(60) DEF leg
<1>2. t \in Nat /\ NumProcs \in Nat /\ t + 1 <= NumProcs
  BY RelayAssumption, SMTT(60) DEF Thread
<1>3. leg * t \in Nat /\ leg * (t + 1) = leg * t + leg
  BY <1>1, <1>2, SMTT(60)
<1>4. PICK d \in Nat : NumProcs = t + 1 + d
  <2>1. NumProcs - (t + 1) \in Nat /\ NumProcs = t + 1 + (NumProcs - (t + 1))
    BY <1>2, SMTT(60)
  <2> QED BY <2>1
<1>5. leg * NumProcs = leg * (t + 1) + leg * d /\ leg * d \in Nat
  BY <1>1, <1>2, <1>4, SMTT(60)
<1> QED BY <1>1, <1>3, <1>5, SMTT(60) DEF floor, ceiling

LEMMA LegsApart ==
    ASSUME NEW t \in Thread, NEW u \in Thread, t < u
    PROVE  ceiling(t) <= floor(u)
<1>1. leg \in Nat
  BY RelayAssumption, SMTT(60) DEF leg
<1>2. t \in Nat /\ u \in Nat
  BY RelayAssumption, SMTT(60) DEF Thread
<1>3. PICK d \in Nat : u = t + 1 + d
  <2>1. u - (t + 1) \in Nat /\ u = t + 1 + (u - (t + 1))
    BY <1>2, SMTT(60)
  <2> QED BY <2>1
<1>4. leg * u = leg * (t + 1) + leg * d /\ leg * d \in Nat /\ leg * (t + 1) \in Nat
  BY <1>1, <1>2, <1>3, SMTT(60)
<1> QED BY <1>4, SMTT(60) DEF floor, ceiling

-----------------------------------------------------------------------------
LEMMA RelayInvInit == RelayInit => RelayInv
<1>1. leg * NumProcs \in Nat
  <2>1. leg \in Nat /\ NumProcs \in Nat
    BY RelayAssumption, SMTT(60) DEF leg
  <2> QED BY <2>1, SMTT(60)
<1> QED BY <1>1, SMTT(60) DEF RelayInit, RelayInv, OnLeg, Place

(* A step of t that leaves the variable step alone                         *)
LEMMA QuietStep ==
    ASSUME RelayInv, NEW t \in Thread, NEW here, NEW there \in Place,
           Goto(t, here, there), step' = step, created' \in Nat,
           reg' \in [Thread -> Nat], \A u \in Thread \ {t} : reg'[u] = reg[u],
           OnLeg(t)'
    PROVE  RelayInv'
<1>1. tpc' \in [Thread -> Place] /\ \A u \in Thread \ {t} : tpc'[u] = tpc[u]
  BY DEF RelayInv, Goto
<1>2. ASSUME NEW u \in Thread PROVE OnLeg(u)'
  <2>1. CASE u = t
    BY <2>1
  <2>2. CASE u # t
    <3>1. tpc'[u] = tpc[u] /\ reg'[u] = reg[u]
      BY <1>1, <2>2
    <3>2. OnLeg(u)
      BY DEF RelayInv
    <3> QED BY <3>1, <3>2 DEF OnLeg, floor, ceiling
  <2> QED BY <2>1, <2>2
<1> QED BY <1>1, <1>2 DEF RelayInv, leg

(* The store of t: everyone else is before the test or past his leg        *)
LEMMA StoreStep ==
    ASSUME RelayInv, NEW t \in Thread, store_step(t)
    PROVE  RelayInv'
<1> DEFINE end == leg * NumProcs
<1>1. /\ step \in Nat /\ tpc[t] = "store" /\ reg[t] = step
      /\ floor(t) <= step /\ step < ceiling(t)
  BY DEF RelayInv, OnLeg, store_step, Goto
<1>2. floor(t) \in Nat /\ ceiling(t) \in Nat /\ ceiling(t) <= end
  BY LegBounds
<1>3. step' \in Nat /\ step < step' /\ step' <= ceiling(t)
  BY <1>1, <1>2, SMTT(60) DEF store_step
<1>4. end \in Nat
  <2>1. leg \in Nat /\ NumProcs \in Nat
    BY RelayAssumption, SMTT(60) DEF leg
  <2> QED BY <2>1, SMTT(60)
<1>5. step' <= end
  BY <1>2, <1>3, <1>4, SMTT(60)
<1>6. /\ tpc' \in [Thread -> Place] /\ tpc'[t] = "test" /\ reg' = reg /\ created' = created
      /\ \A u \in Thread \ {t} : tpc'[u] = tpc[u]
  BY DEF RelayInv, store_step, Goto, Place
<1>7. ASSUME NEW u \in Thread PROVE OnLeg(u)'
  <2>1. CASE u = t
    BY <1>1, <1>2, <1>3, <1>6, <2>1, SMTT(60) DEF OnLeg, floor, ceiling
  <2>2. CASE u # t
    <3>1. tpc'[u] = tpc[u] /\ OnLeg(u)
      BY <1>6, <2>2 DEF RelayInv
    <3>2. tpc[u] \notin {"load", "store"}
      <4>1. floor(u) \in Nat /\ ceiling(u) \in Nat
        BY LegBounds
      <4>2. t < u \/ u < t
        BY <2>2, RelayAssumption, SMTT(60) DEF Thread
      <4>3. ceiling(t) <= floor(u) \/ ceiling(u) <= floor(t)
        BY <4>2, LegsApart
      <4> QED BY <1>1, <1>2, <3>1, <4>1, <4>3, SMTT(60) DEF OnLeg
    <3>3. floor(u) \in Nat /\ ceiling(u) \in Nat
      BY LegBounds
    <3> QED BY <1>1, <1>3, <1>6, <3>1, <3>2, <3>3, SMTT(60) DEF OnLeg, floor, ceiling
  <2> QED BY <2>1, <2>2
<1> QED BY <1>3, <1>5, <1>6, <1>7 DEF RelayInv, leg

LEMMA RelayInvNext == RelayInv /\ [RelayNext]_relayVars => RelayInv'
<1> SUFFICES ASSUME RelayInv, [RelayNext]_relayVars PROVE RelayInv'
  OBVIOUS
<1>1. CASE create_runner
  <2>1. PICK t \in Thread : t = created
    BY <1>1, RelayAssumption, SMTT(60) DEF create_runner, pthread_create, RelayInv, Thread
  <2>2. OnLeg(t)'
    BY <1>1, <2>1 DEF create_runner, pthread_create, Goto, RelayInv, OnLeg
  <2>3. /\ Goto(t, "new", "arrive") /\ step' = step /\ reg' = reg /\ reg' \in [Thread -> Nat]
        /\ created' \in Nat
    BY <1>1, <2>1, SMTT(60) DEF create_runner, pthread_create, RelayInv
  <2>4. "arrive" \in Place
    BY DEF Place
  <2> QED BY <2>2, <2>3, <2>4, QuietStep
<1>2. ASSUME NEW t \in Thread, ThreadBody(t) PROVE RelayInv'
  <2>1. CASE sync_thread(t)
    <3>1. OnLeg(t)'
      BY <2>1 DEF sync_thread, Goto, RelayInv, OnLeg
    <3> QED BY <2>1, <3>1, QuietStep DEF sync_thread, RelayInv, Place
  <2>2. CASE spin_wait(t)
    <3>1. OnLeg(t)'
      BY <2>2 DEF spin_wait, Goto, RelayInv, OnLeg, floor, ceiling
    <3> QED BY <2>2, <3>1, QuietStep DEF spin_wait, RelayInv, Place
  <2>3. CASE test_step(t)
    <3>1. OnLeg(t)'
      <4>1. ceiling(t) \in Nat
        BY LegBounds
      <4>2. OnLeg(t) /\ step \in Nat /\ tpc \in [Thread -> Place]
        BY DEF RelayInv
      <4> QED BY <2>3, <4>1, <4>2, SMTT(60) DEF test_step, Goto, OnLeg, floor, ceiling
    <3>2. (IF step < ceiling(t) THEN "load" ELSE "done") \in Place
      BY DEF Place
    <3> QED BY <2>3, <3>1, <3>2, QuietStep DEF test_step, RelayInv
  <2>4. CASE load_step(t)
    <3>1. OnLeg(t)'
      BY <2>4 DEF load_step, Goto, RelayInv, OnLeg, floor, ceiling
    <3> QED BY <2>4, <3>1, QuietStep DEF load_step, RelayInv, Place
  <2>5. CASE store_step(t)
    BY <2>5, StoreStep
  <2> QED BY <1>2, <2>1, <2>2, <2>3, <2>4, <2>5 DEF ThreadBody
<1>3. CASE UNCHANGED relayVars
  BY <1>3 DEF relayVars, RelayInv, OnLeg, leg, floor, ceiling
<1> QED BY <1>1, <1>2, <1>3 DEF RelayNext, RelayOver

LEMMA RelayInvAlways == RelaySpec => []RelayInv
BY RelayInvInit, RelayInvNext, PTL DEF RelaySpec

-----------------------------------------------------------------------------
(* For any number of threads: no store of relay.c's step++ overwrites      *)
(* another thread's (ThreadBody's counting loop).                          *)
THEOREM RelayLosesNoStep == RelaySpec => []NoLostStep
<1>1. RelayInv => NoLostStep
  BY DEF RelayInv, OnLeg, NoLostStep
<1> QED BY <1>1, RelayInvAlways, PTL

(* For any number of threads: a thread runs its leg after all legs before  *)
(* it, and all legs have been run when main has joined the threads.        *)
THEOREM RelayLegsInOrder == RelaySpec => []LegsInOrder
<1>1. RelayInv => LegsInOrder
  <2> SUFFICES ASSUME RelayInv PROVE LegsInOrder
    OBVIOUS
  <2>1. \A t \in Thread : tpc[t] \in {"test", "load", "store", "done"} => step >= floor(t)
    BY DEF RelayInv, OnLeg
  <2>2. ASSUME Joined PROVE step = leg * NumProcs
    <3>1. NumProcs - 1 \in Thread
      BY RelayAssumption, SMTT(60) DEF Thread
    <3>2. step >= ceiling(NumProcs - 1)
      BY <2>2, <3>1 DEF Joined, RelayInv, OnLeg
    <3>3. ceiling(NumProcs - 1) = leg * NumProcs
      <4>1. NumProcs - 1 + 1 = NumProcs
        BY RelayAssumption, SMTT(60)
      <4> QED BY <4>1 DEF ceiling
    <3>4. leg * NumProcs \in Nat
      BY <3>1, <3>3, LegBounds
    <3> QED BY <3>2, <3>3, <3>4, SMTT(60) DEF RelayInv
  <2> QED BY <2>1, <2>2 DEF LegsInOrder
<1> QED BY <1>1, RelayInvAlways, PTL

-----------------------------------------------------------------------------
(* racey.c and addcnt.c                                                    *)
Arrived == {t \in Thread : tpc[t] \in {"spin", "run", "done"}}

(* The inductive invariant: flag counts the threads that have arrived,     *)
(* these and the one about to arrive are ready, and none runs before all   *)
(* have arrived.                                                           *)
BarrierInv ==
    /\ created \in Nat
    /\ tpc \in [Thread -> {"new", "init", "arrive", "spin", "run", "done"}]
    /\ ready \subseteq Thread
    /\ flag = Cardinality(Arrived)
    /\ \A t \in Thread : tpc[t] \notin {"new", "init"} => t \in ready
    /\ \A t \in Thread : tpc[t] \in {"run", "done"} => Arrived = Thread

-----------------------------------------------------------------------------
LEMMA ThreadFinite == IsFiniteSet(Thread) /\ Cardinality(Thread) = NumProcs
<1>1. NumProcs \in Nat \ {0}
  BY ProgramAssumption
<1>2. 0 \in Int /\ NumProcs - 1 \in Int /\ ~(0 > NumProcs - 1) /\ NumProcs - 1 - 0 + 1 = NumProcs
  BY <1>1, SMTT(60)
<1> QED BY <1>2, FS_Interval DEF Thread

LEMMA ArrivedFinite ==
    IsFiniteSet(Arrived) /\ (Cardinality(Arrived) = NumProcs => Arrived = Thread)
<1>1. Arrived \in SUBSET Thread
  BY DEF Arrived
<1> QED BY <1>1, ThreadFinite, FS_Subset

(* A process that starts satisfies the invariant: no thread has arrived    *)
LEMMA FreshBarrier ==
    ASSUME NEW cr, NEW fl, NEW jo, NEW rd, NEW tp, NEW pr, NEW md, NEW va, NEW ve,
           Fresh(cr, fl, jo, rd, tp, pr, md, va, ve)
    PROVE  /\ cr = 0 /\ fl = 0 /\ jo = 0 /\ rd = {}
           /\ tp = [t \in Thread |-> "new"]
BY DEF Fresh

LEMMA BarrierInit == ProgInit => BarrierInv
<1> SUFFICES ASSUME ProgInit PROVE BarrierInv
  OBVIOUS
<1>1. created = 0 /\ flag = 0 /\ ready = {} /\ tpc = [t \in Thread |-> "new"]
  BY FreshBarrier DEF ProgInit
<1>2. Arrived = {}
  BY <1>1 DEF Arrived
<1> QED BY <1>1, <1>2, FS_EmptySet DEF BarrierInv

(* A step that moves t and leaves the set of arrived threads alone         *)
LEMMA SameArrived ==
    ASSUME BarrierInv, NEW t \in Thread, NEW here, NEW there, Goto(t, here, there),
           there \in {"new", "init", "arrive", "spin", "run", "done"},
           created' \in Nat, flag' = flag,
           ready \subseteq ready', ready' \subseteq Thread,
           here \in {"spin", "run", "done"} <=> there \in {"spin", "run", "done"},
           there \notin {"new", "init"} => t \in ready',
           there \in {"run", "done"} => Arrived = Thread
    PROVE  BarrierInv'
<1>1. /\ tpc' \in [Thread -> {"new", "init", "arrive", "spin", "run", "done"}]
      /\ tpc[t] = here /\ tpc'[t] = there /\ \A u \in Thread \ {t} : tpc'[u] = tpc[u]
  BY DEF BarrierInv, Goto
<1>2. Arrived' = Arrived
  BY <1>1 DEF Arrived
<1>3. \A u \in Thread : tpc'[u] \notin {"new", "init"} => u \in ready'
  BY <1>1 DEF BarrierInv
<1>4. \A u \in Thread : tpc'[u] \in {"run", "done"} => Arrived' = Thread
  BY <1>1, <1>2 DEF BarrierInv
<1>5. flag' = Cardinality(Arrived')
  BY <1>2 DEF BarrierInv
<1> QED BY <1>1, <1>3, <1>4, <1>5 DEF BarrierInv

LEMMA BarrierNext == BarrierInv /\ [ProgNext]_progVars => BarrierInv'
<1> SUFFICES ASSUME BarrierInv, [ProgNext]_progVars PROVE BarrierInv'
  OBVIOUS
<1>1. CASE create_thread
  <2>1. PICK t \in Thread : t = created
    BY <1>1, ProgramAssumption, SMTT(60) DEF create_thread, pthread_create, BarrierInv, Thread
  <2>2. Goto(t, "new", "init") /\ created' \in Nat /\ flag' = flag /\ ready' = ready
    BY <1>1, <2>1, SMTT(60) DEF create_thread, pthread_create, BarrierInv
  <2>3. ready \subseteq Thread
    BY DEF BarrierInv
  <2> QED BY <2>2, <2>3, SameArrived
<1>2. CASE print_result
  <2>1. CASE pass = "record"
    <3>1. Fresh(created', flag', joined', ready', tpc', prog', made', value', ver')
      BY <1>2, <2>1 DEF print_result
    <3>2. created' = 0 /\ flag' = 0 /\ ready' = {} /\ tpc' = [t \in Thread |-> "new"]
      BY <3>1, FreshBarrier
    <3>3. Arrived' = {}
      BY <3>2 DEF Arrived
    <3> QED BY <3>2, <3>3, FS_EmptySet DEF BarrierInv
  <2>2. CASE pass # "record"
    <3>1. UNCHANGED <<created, flag, ready, tpc>>
      BY <1>2, <2>2 DEF print_result, runVars
    <3> QED BY <3>1 DEF BarrierInv, Arrived
  <2> QED BY <2>1, <2>2
<1>3. ASSUME NEW t \in Thread, ThreadStep(t) PROVE BarrierInv'
  <2>0. ready \subseteq Thread /\ created \in Nat
    BY DEF BarrierInv
  <2>1. CASE mem_init_thr(t)
    <3>1. Goto(t, "init", "arrive") /\ created' = created /\ flag' = flag /\ ready' = ready \cup {t}
      BY <2>1 DEF mem_init_thr
    <3> QED BY <2>0, <3>1, SameArrived
  <2>2. CASE sync_arrive(t)
    <3>1. /\ created' = created /\ flag' = flag + 1 /\ ready' = ready
          /\ tpc[t] = "arrive" /\ tpc' = [tpc EXCEPT ![t] = "spin"]
      BY <2>2 DEF sync_arrive, Goto
    <3>2. /\ tpc' \in [Thread -> {"new", "init", "arrive", "spin", "run", "done"}]
          /\ tpc'[t] = "spin" /\ \A u \in Thread \ {t} : tpc'[u] = tpc[u]
      BY <3>1 DEF BarrierInv
    <3>3. Arrived' = Arrived \cup {t} /\ t \notin Arrived
      BY <3>1, <3>2 DEF Arrived
    <3>4. Cardinality(Arrived') = Cardinality(Arrived) + 1
      BY <3>3, ArrivedFinite, FS_AddElement
    <3>5. flag' = Cardinality(Arrived')
      BY <3>1, <3>4 DEF BarrierInv
    <3>6. \A u \in Thread : tpc'[u] \notin {"new", "init"} => u \in ready'
      BY <3>1, <3>2 DEF BarrierInv
    <3>7. \A u \in Thread : tpc'[u] \in {"run", "done"} => Arrived' = Thread
      BY <3>2, <3>3 DEF BarrierInv
    <3> QED BY <2>0, <3>1, <3>2, <3>5, <3>6, <3>7 DEF BarrierInv
  <2>3. CASE sync_leave(t)
    <3>1. Goto(t, "spin", "run") /\ created' = created /\ flag' = flag /\ ready' = ready /\ flag = NumProcs
      BY <2>3 DEF sync_leave
    <3>2. Arrived = Thread
      BY <3>1, ArrivedFinite DEF BarrierInv
    <3>3. t \in ready
      BY <3>1 DEF BarrierInv, Goto
    <3> QED BY <2>0, <3>1, <3>2, <3>3, SameArrived
  <2>4. CASE mem_access(t)
    <3>1. UNCHANGED <<created, flag, ready, tpc>>
      BY <2>4 DEF mem_access
    <3> QED BY <3>1 DEF BarrierInv, Arrived
  <2>5. CASE mem_finish_thr(t)
    <3>1. Goto(t, "run", "done") /\ created' = created /\ flag' = flag /\ ready' = ready
      BY <2>5 DEF mem_finish_thr
    <3>2. Arrived = Thread /\ t \in ready
      BY <3>1 DEF BarrierInv, Goto
    <3> QED BY <2>0, <3>1, <3>2, SameArrived
  <2> QED BY <1>3, <2>1, <2>2, <2>3, <2>4, <2>5 DEF ThreadStep
<1>4. CASE UNCHANGED progVars \/ pthread_join
  <2>1. UNCHANGED <<created, flag, ready, tpc>>
    BY <1>4 DEF progVars, runVars, pthread_join
  <2> QED BY <2>1 DEF BarrierInv, Arrived
<1> QED BY <1>1, <1>2, <1>3, <1>4 DEF ProgNext, MainStep, ProgOver

(* The threads main has joined have ended.                                 *)
JoinInv ==
    /\ joined \in 0 .. NumProcs
    /\ \A t \in Thread : t < joined => tpc[t] = "done"

LEMMA JoinedAll ==
    ASSUME JoinInv, joined = NumProcs
    PROVE  \A t \in Thread : tpc[t] = "done"
<1>1. \A t \in Thread : t < NumProcs
  BY ProgramAssumption, SMTT(60) DEF Thread
<1> QED BY <1>1 DEF JoinInv

(* A process that starts has joined none.                                  *)
LEMMA NoneJoined ==
    ASSUME NEW jo, jo = 0
    PROVE  jo \in 0 .. NumProcs /\ \A t \in Thread : ~(t < jo)
BY ProgramAssumption, SMTT(60) DEF Thread

LEMMA JoinInit == ProgInit => JoinInv
<1> SUFFICES ASSUME ProgInit PROVE JoinInv
  OBVIOUS
<1>1. joined = 0
  BY FreshBarrier DEF ProgInit
<1> QED BY <1>1, NoneJoined DEF JoinInv

(* A thread that moves has not ended.                                      *)
LEMMA GotoJoins ==
    ASSUME BarrierInv, JoinInv, NEW t \in Thread, NEW here, NEW there, Goto(t, here, there),
           here # "done", joined' = joined
    PROVE  JoinInv'
<1>1. tpc[t] # "done" /\ \A u \in Thread \ {t} : tpc'[u] = tpc[u]
  BY DEF Goto, BarrierInv
<1> QED BY <1>1 DEF JoinInv

LEMMA JoinNext == BarrierInv /\ JoinInv /\ [ProgNext]_progVars => JoinInv'
<1> SUFFICES ASSUME BarrierInv, JoinInv, [ProgNext]_progVars PROVE JoinInv'
  OBVIOUS
<1>1. CASE create_thread
  <2>1. PICK t \in Thread : t = created
    BY <1>1, ProgramAssumption, SMTT(60) DEF create_thread, pthread_create, BarrierInv, Thread
  <2>2. Goto(t, "new", "init") /\ joined' = joined
    BY <1>1, <2>1 DEF create_thread, pthread_create
  <2> QED BY <2>2, GotoJoins
<1>2. CASE pthread_join
  <2>1. joined' = joined + 1 /\ joined < NumProcs /\ tpc[joined] = "done" /\ tpc' = tpc
    BY <1>2 DEF pthread_join
  <2>2. joined \in 0 .. NumProcs /\ \A t \in Thread : t < joined => tpc[t] = "done"
    BY DEF JoinInv
  <2>3. joined' \in 0 .. NumProcs /\ \A t \in Thread : t < joined' => t < joined \/ t = joined
    BY <2>1, <2>2, ProgramAssumption, SMTT(60) DEF Thread
  <2> QED BY <2>1, <2>2, <2>3 DEF JoinInv
<1>3. CASE print_result
  <2>1. CASE pass = "record"
    <3>1. Fresh(created', flag', joined', ready', tpc', prog', made', value', ver')
      BY <1>3, <2>1 DEF print_result
    <3>2. joined' = 0
      BY <3>1, FreshBarrier
    <3> QED BY <3>2, NoneJoined DEF JoinInv
  <2>2. CASE pass # "record"
    <3>1. UNCHANGED <<joined, tpc>>
      BY <1>3, <2>2 DEF print_result, runVars
    <3> QED BY <3>1 DEF JoinInv
  <2> QED BY <2>1, <2>2
<1>4. ASSUME NEW t \in Thread, ThreadStep(t) PROVE JoinInv'
  <2>1. CASE mem_access(t)
    <3>1. UNCHANGED <<joined, tpc>>
      BY <2>1 DEF mem_access
    <3> QED BY <3>1 DEF JoinInv
  <2>2. CASE ~mem_access(t)
    <3>1. joined' = joined /\ \E here \in {"init", "arrive", "spin", "run"} : \E there : Goto(t, here, there)
      BY <1>4, <2>2 DEF ThreadStep, mem_init_thr, sync_arrive, sync_leave, mem_finish_thr
    <3>2. PICK here \in {"init", "arrive", "spin", "run"} : \E there : Goto(t, here, there)
      BY <3>1
    <3> QED BY <3>1, <3>2, GotoJoins
  <2> QED BY <2>1, <2>2
<1>5. CASE UNCHANGED progVars
  <2>1. UNCHANGED <<joined, tpc>>
    BY <1>5 DEF progVars, runVars
  <2> QED BY <2>1 DEF JoinInv
<1> QED BY <1>1, <1>2, <1>3, <1>4, <1>5 DEF ProgNext, MainStep, ProgOver

-----------------------------------------------------------------------------
(* For any number of threads: no access is made, in the recorded run or in *)
(* the replayed one, before all threads have set their memop_cnt           *)
(* (thr_start's barrier, mem-replay.c's mem_init_thr and wait_reader).     *)
THEOREM BarrierProtectsCounters == ProgSpec => []CountersSet
<1>1. BarrierInv => CountersSet
  <2> SUFFICES ASSUME BarrierInv, NEW t \in Thread, tpc[t] \in {"run", "done"} PROVE ready = Thread
    BY DEF CountersSet
  <2>1. Arrived = Thread
    BY DEF BarrierInv
  <2>2. \A u \in Thread : tpc[u] \notin {"new", "init"}
    BY <2>1 DEF Arrived
  <2> QED BY <2>2 DEF BarrierInv
<1> QED BY <1>1, BarrierInit, BarrierNext, PTL DEF ProgSpec

-----------------------------------------------------------------------------
(* What a thread does next, as functions of the program f and of the       *)
(* thread's state p                                                        *)
Functions == {[t \in Thread |-> 0]} \cup [Thread -> 1 .. 4]
RaceyFn(f) == f = [t \in Thread |-> 0]

Progs == [at : Nat, num : Nat, index2 : Nat, loop : Nat]
Accs == [acc : {"R", "W"}, objid : Obj, version : Nat, val : Nat]

AccessOf(f, t, p) ==
    IF RaceyFn(f) THEN racey_access(p)
    ELSE LET a == access_thr_fn(f[t], p.at)
         IN  [acc |-> a.acc, objid |-> a.objid, val |-> (p.num + a.add) % WORD]

AfterOf(f, t, p, val) ==
    IF RaceyFn(f) THEN racey_after(p, val)
    ELSE LET last == p.at + 1 = accesses(f[t])
         IN  [p EXCEPT !.num = IF AccessOf(f, t, p).acc = "R" THEN val ELSE @,
                       !.at = IF last THEN 0 ELSE @ + 1,
                       !.loop = IF last THEN @ + 1 ELSE @]

StartOf(f, t) == [at |-> 0, num |-> IF RaceyFn(f) THEN t ELSE 0, index2 |-> 0, loop |-> 0]
IsOver(f, p) == p.loop = IF RaceyFn(f) THEN MAX_LOOP ELSE NITER
FirstValue(f, o) == IF RaceyFn(f) THEN mix(o, o) ELSE 0
Printed(f, p, v) == IF RaceyFn(f) THEN <<signature(p)>> ELSE [i \in 1 .. NOBJS |-> v[i - 1]]

LEMMA AsFunctions ==
    ASSUME NEW t \in Thread
    PROVE  /\ Access(t) = AccessOf(fn, t, prog[t])
           /\ \A val : After(t, val) = AfterOf(fn, t, prog[t], val)
           /\ Finished(t) <=> IsOver(fn, prog[t])
           /\ Result = Printed(fn, prog, value)
<1>1. Racey <=> RaceyFn(fn)
  BY DEF Racey, RaceyFn
<1>2. Access(t) = AccessOf(fn, t, prog[t])
  BY <1>1 DEF Access, AccessOf, addcnt_access
<1>3. ASSUME NEW val PROVE After(t, val) = AfterOf(fn, t, prog[t], val)
  <2>1. CASE Racey
    BY <1>1, <2>1 DEF After, AfterOf
  <2>2. CASE ~Racey
    <3>1. addcnt_access(t, prog[t]) = AccessOf(fn, t, prog[t])
      BY <1>1, <1>2, <2>2 DEF Access
    <3>2. addcnt_after(t, prog[t], val) = AfterOf(fn, t, prog[t], val)
      BY <1>1, <2>2, <3>1 DEF addcnt_after, AfterOf
    <3> QED BY <2>2, <3>2 DEF After
  <2> QED BY <2>1, <2>2
<1>4. Finished(t) <=> IsOver(fn, prog[t])
  BY <1>1 DEF Finished, IsOver
<1>5. Result = Printed(fn, prog, value)
  BY <1>1 DEF Result, Printed
<1> QED BY <1>2, <1>3, <1>4, <1>5

(* A thread's state is one its program can be in.                          *)
Within(f, t, p) ==
    /\ p \in Progs
    /\ RaceyFn(f) => p.at \in 0 .. 2 /\ p.index2 < MAX_ELEM
    /\ ~RaceyFn(f) => p.at < accesses(f[t])

LEMMA Params ==
    /\ NumProcs \in Nat /\ MAX_ELEM \in Nat /\ MAX_ELEM > 0 /\ PRIME1 \in Nat /\ PRIME1 > 0
    /\ PRIME2 \in Nat /\ WORD \in Nat /\ WORD > 0 /\ NOBJS \in Nat /\ NOBJS > 1
    /\ pairs \in Nat /\ pairs > 0 /\ 2 * pairs <= NOBJS
BY ProgramAssumption, SMTT(60) DEF pairs

LEMMA MixNat ==
    ASSUME NEW i \in Nat, NEW j \in Nat
    PROVE  mix(i, j) \in Nat
<1>1. j * PRIME2 \in Nat
  BY Params, SMTT(60)
<1>2. PICK k \in Nat : k = i + j * PRIME2
  BY <1>1, SMTT(60)
<1>3. (k % WORD) % PRIME1 \in Nat
  BY Params, SMTT(60)
<1> QED BY <1>2, <1>3 DEF mix

LEMMA NotRacey ==
    ASSUME NEW f \in Functions, ~RaceyFn(f), NEW t \in Thread
    PROVE  f[t] \in 1 .. 4
BY DEF Functions, RaceyFn

LEMMA AddcntAccess ==
    ASSUME NEW n \in 1 .. 4, NEW i \in Nat, i < accesses(n)
    PROVE  LET a == access_thr_fn(n, i)
           IN  a.acc \in {"R", "W"} /\ a.objid \in 0 .. NOBJS - 1 /\ a.add \in Nat
<1>1. i \div 2 \in Nat /\ i \div 4 \in Nat /\ i % 2 \in 0 .. 1 /\ i % 4 \in 0 .. 3
  BY SMTT(60)
<1>2. CASE n = 1
  <2>1. i \div 2 \in 0 .. NOBJS - 1
    BY <1>1, <1>2, Params, SMTT(60) DEF accesses
  <2> QED BY <1>1, <1>2, <2>1, SMTT(60) DEF access_thr_fn, A
<1>3. CASE n = 2
  <2>1. NOBJS - 1 - (i \div 2) \in 0 .. NOBJS - 1
    BY <1>1, <1>3, Params, SMTT(60) DEF accesses
  <2> QED BY <1>1, <1>3, <2>1, SMTT(60) DEF access_thr_fn, A
<1>4. CASE n = 3
  <2>1. 2 * (i \div 4) \in 0 .. NOBJS - 1 /\ 2 * (i \div 4) + 1 \in 0 .. NOBJS - 1
    BY <1>1, <1>4, Params, SMTT(60) DEF accesses
  <2> QED BY <1>1, <1>4, <2>1, SMTT(60) DEF access_thr_fn, A
<1>5. CASE n = 4
  <2>1. /\ NOBJS - 1 - 2 * (i \div 4) \in 0 .. NOBJS - 1
        /\ NOBJS - 2 - 2 * (i \div 4) \in 0 .. NOBJS - 1
    BY <1>1, <1>5, Params, SMTT(60) DEF accesses
  <2> QED BY <1>1, <1>5, <2>1, SMTT(60) DEF access_thr_fn, A
<1> QED BY <1>2, <1>3, <1>4, <1>5, SMTT(60)

LEMMA AccessTyped ==
    ASSUME NEW f \in Functions, NEW t \in Thread, NEW p, Within(f, t, p)
    PROVE  /\ AccessOf(f, t, p).acc \in {"R", "W"} /\ AccessOf(f, t, p).objid \in Obj
           /\ AccessOf(f, t, p).val \in Nat
<1>1. p.at \in Nat /\ p.num \in Nat /\ p.index2 \in Nat
  BY DEF Within, Progs
<1>2. CASE RaceyFn(f)
  <2>1. p.at \in 0 .. 2 /\ p.index2 < MAX_ELEM
    BY <1>2 DEF Within
  <2>2. p.num % MAX_ELEM \in 0 .. MAX_ELEM - 1
    BY <1>1, Params, SMTT(60)
  <2>3. p.num % MAX_ELEM \in Obj /\ p.index2 \in Obj
    BY <1>1, <2>1, <2>2, Params, SMTT(60) DEF Obj
  <2>4. racey_access(p).acc \in {"R", "W"} /\ racey_access(p).objid \in Obj /\ racey_access(p).val \in Nat
    BY <1>1, <2>1, <2>3, SMTT(60) DEF racey_access
  <2> QED BY <1>2, <2>4 DEF AccessOf
<1>3. CASE ~RaceyFn(f)
  <2>1. f[t] \in 1 .. 4 /\ p.at < accesses(f[t])
    BY <1>3, NotRacey DEF Within
  <2>2. PICK a : a = access_thr_fn(f[t], p.at)
    OBVIOUS
  <2>3. a.acc \in {"R", "W"} /\ a.objid \in 0 .. NOBJS - 1 /\ a.add \in Nat
    BY <1>1, <2>1, <2>2, AddcntAccess
  <2>4. (p.num + a.add) % WORD \in Nat
    BY <1>1, <2>3, Params, SMTT(60)
  <2>5. AccessOf(f, t, p) = [acc |-> a.acc, objid |-> a.objid, val |-> (p.num + a.add) % WORD]
    BY <1>3, <2>2 DEF AccessOf
  <2> QED BY <2>3, <2>4, <2>5, SMTT(60) DEF Obj
<1> QED BY <1>2, <1>3

LEMMA AfterWithin ==
    ASSUME NEW f \in Functions, NEW t \in Thread, NEW p, Within(f, t, p), NEW val \in Nat
    PROVE  Within(f, t, AfterOf(f, t, p, val))
<1>1. p \in Progs
  BY DEF Within
<1>2. CASE RaceyFn(f)
  <2>1. p.at \in 0 .. 2 /\ p.index2 < MAX_ELEM
    BY <1>2 DEF Within
  <2>2. PICK m \in Nat : m = mix(p.num, val)
    BY <1>1, MixNat DEF Progs
  <2>3. PICK k \in Nat : k = p.num % MAX_ELEM /\ k < MAX_ELEM
    BY <1>1, Params, SMTT(60) DEF Progs
  <2>4. racey_after(p, val) = CASE p.at = 0 -> [p EXCEPT !.num = m, !.at = 1]
                                [] p.at = 1 -> [p EXCEPT !.index2 = k, !.num = m, !.at = 2]
                                [] p.at = 2 -> [p EXCEPT !.at = 0, !.loop = @ + 1]
    BY <2>2, <2>3 DEF racey_after
  <2>5. /\ racey_after(p, val) \in Progs /\ racey_after(p, val).at \in 0 .. 2
        /\ racey_after(p, val).index2 < MAX_ELEM
    <3>1. CASE p.at = 0
      <4>1. PICK a \in Nat : a = 1
        OBVIOUS
      <4>2. racey_after(p, val) = [p EXCEPT !.num = m, !.at = a]
        BY <2>4, <3>1, <4>1, SMTT(60)
      <4>3. /\ racey_after(p, val) \in Progs
            /\ racey_after(p, val).at = a /\ racey_after(p, val).index2 = p.index2
        BY <1>1, <4>2 DEF Progs
      <4> QED BY <2>1, <4>1, <4>3, SMTT(60)
    <3>2. CASE p.at = 1
      <4>1. PICK a \in Nat : a = 2
        OBVIOUS
      <4>2. racey_after(p, val) = [p EXCEPT !.index2 = k, !.num = m, !.at = a]
        BY <2>4, <3>2, <4>1, SMTT(60)
      <4>3. /\ racey_after(p, val) \in Progs
            /\ racey_after(p, val).at = a /\ racey_after(p, val).index2 = k
        BY <1>1, <2>3, <4>2 DEF Progs
      <4> QED BY <2>3, <4>1, <4>3, SMTT(60)
    <3>3. CASE p.at = 2
      <4>1. PICK a \in Nat, l \in Nat : a = 0 /\ l = p.loop + 1
        BY <1>1, SMTT(60) DEF Progs
      <4>2. racey_after(p, val) = [p EXCEPT !.at = a, !.loop = l]
        BY <2>4, <3>3, <4>1, SMTT(60)
      <4>3. /\ racey_after(p, val) \in Progs
            /\ racey_after(p, val).at = a /\ racey_after(p, val).index2 = p.index2
        BY <1>1, <4>2 DEF Progs
      <4> QED BY <2>1, <4>1, <4>3, SMTT(60)
    <3> QED BY <2>1, <3>1, <3>2, <3>3, SMTT(60)
  <2> QED BY <1>2, <2>5 DEF AfterOf, Within
<1>3. CASE ~RaceyFn(f)
  <2>1. f[t] \in 1 .. 4 /\ p.at < accesses(f[t])
    BY <1>3, NotRacey DEF Within
  <2>2. accesses(f[t]) \in Nat
    BY Params, SMTT(60) DEF accesses
  <2>3. PICK n \in Nat : n = accesses(f[t])
    BY <2>2
  <2>4. PICK m \in Nat : m = IF AccessOf(f, t, p).acc = "R" THEN val ELSE p.num
    BY <1>1 DEF Progs
  <2>5. PICK k \in Nat : k = (IF p.at + 1 = n THEN 0 ELSE p.at + 1) /\ k < n
    BY <1>1, <2>1, <2>3, SMTT(60) DEF Progs
  <2>6. PICK l \in Nat : l = IF p.at + 1 = n THEN p.loop + 1 ELSE p.loop
    BY <1>1, SMTT(60) DEF Progs
  <2>7. AfterOf(f, t, p, val) = [p EXCEPT !.num = m, !.at = k, !.loop = l]
    BY <1>3, <2>3, <2>4, <2>5, <2>6 DEF AfterOf
  <2>8. AfterOf(f, t, p, val) \in Progs /\ AfterOf(f, t, p, val).at < n
    BY <1>1, <2>5, <2>7 DEF Progs
  <2> QED BY <1>3, <2>3, <2>8 DEF Within
<1> QED BY <1>2, <1>3

-----------------------------------------------------------------------------
(* The accesses M of a run that has come to the versions ve and the values *)
(* va: what an object holds and what a read returned was stored by the     *)
(* write just below the version, there is one such write, and all writes   *)
(* are below the current version.                                          *)
IsWrite(a, o, v) == a.acc = "W" /\ a.objid = o /\ a.version = v

StoredBy(f, M, o, v, val) ==
    \/ v = 0 /\ val = FirstValue(f, o)
    \/ \E u \in Thread : \E i \in 1 .. Len(M[u]) : IsWrite(M[u][i], o, v - 2) /\ M[u][i].val = val

CurrentStored(f, M, ve, va) == \A o \in Obj : StoredBy(f, M, o, ve[o], va[o])

ReadsStored(f, M) ==
    \A u \in Thread : \A i \in 1 .. Len(M[u]) :
        M[u][i].acc = "R" => StoredBy(f, M, M[u][i].objid, M[u][i].version, M[u][i].val)

WritesBelow(M, ve) ==
    \A u \in Thread : \A i \in 1 .. Len(M[u]) :
        M[u][i].acc = "W" => M[u][i].version + 2 <= ve[M[u][i].objid]

WritesDiffer(M) ==
    \A u, w \in Thread : \A i \in 1 .. Len(M[u]), j \in 1 .. Len(M[w]) :
        \A o, v : IsWrite(M[u][i], o, v) /\ IsWrite(M[w][j], o, v) => u = w /\ i = j

Consistent(f, M, ve, va) ==
    CurrentStored(f, M, ve, va) /\ ReadsStored(f, M) /\ WritesBelow(M, ve) /\ WritesDiffer(M)

Logs == [Thread -> Seq(Accs)]

(* N is M and one more access of t, a.                                     *)
AddsOne(M, N, t, a) ==
    /\ Len(M[t]) \in Nat /\ Len(N[t]) = Len(M[t]) + 1 /\ N[t][Len(M[t]) + 1] = a
    /\ \A i \in 1 .. Len(M[t]) : N[t][i] = M[t][i]
    /\ \A u \in Thread \ {t} : N[u] = M[u]

LEMMA Appended ==
    ASSUME NEW M \in Logs, NEW t \in Thread, NEW a \in Accs, NEW N, N = [M EXCEPT ![t] = Append(@, a)]
    PROVE  N \in Logs /\ AddsOne(M, N, t, a)
<1>1. M[t] \in Seq(Accs) /\ N[t] = Append(M[t], a) /\ \A u \in Thread \ {t} : N[u] = M[u]
  BY DEF Logs
<1>2. Append(M[t], a) \in Seq(Accs)
  BY <1>1, SMTT(60)
<1>3. N \in Logs
  BY <1>2 DEF Logs
<1>4. AddsOne(M, N, t, a)
  BY <1>1, SMTT(60) DEF AddsOne
<1> QED BY <1>3, <1>4

EntriesOf(M, N, t, a) ==
    \A u \in Thread : \A i \in 1 .. Len(N[u]) :
        \/ i \in 1 .. Len(M[u]) /\ N[u][i] = M[u][i]
        \/ u = t /\ i = Len(M[t]) + 1 /\ N[u][i] = a

LEMMA OldOrNew ==
    ASSUME NEW M, NEW N, NEW t \in Thread, NEW a, AddsOne(M, N, t, a)
    PROVE  EntriesOf(M, N, t, a)
<1> SUFFICES ASSUME NEW u \in Thread, NEW i \in 1 .. Len(N[u])
             PROVE  \/ i \in 1 .. Len(M[u]) /\ N[u][i] = M[u][i]
                    \/ u = t /\ i = Len(M[t]) + 1 /\ N[u][i] = a
  BY DEF EntriesOf
<1>1. CASE u = t
  BY <1>1, SMTT(60) DEF AddsOne
<1>2. CASE u # t
  BY <1>2 DEF AddsOne
<1> QED BY <1>1, <1>2

LEMMA EntriesTyped ==
    ASSUME NEW M \in Logs, NEW u \in Thread
    PROVE  Len(M[u]) \in Nat /\ \A i \in 1 .. Len(M[u]) : M[u][i] \in Accs
<1>1. M[u] \in Seq(Accs)
  BY DEF Logs
<1> QED BY <1>1, SMTT(60)

LEMMA OldStays ==
    ASSUME NEW M, NEW N, NEW t \in Thread, NEW a, AddsOne(M, N, t, a),
           NEW u \in Thread, NEW i \in 1 .. Len(M[u])
    PROVE  i \in 1 .. Len(N[u]) /\ N[u][i] = M[u][i]
<1>1. CASE u = t
  BY <1>1, SMTT(60) DEF AddsOne
<1>2. CASE u # t
  BY <1>2 DEF AddsOne
<1> QED BY <1>1, <1>2

LEMMA StaysStored ==
    ASSUME NEW f, NEW M, NEW N, NEW t \in Thread, NEW a, AddsOne(M, N, t, a),
           NEW o, NEW v, NEW val, StoredBy(f, M, o, v, val)
    PROVE  StoredBy(f, N, o, v, val)
<1>1. CASE v = 0 /\ val = FirstValue(f, o)
  BY <1>1 DEF StoredBy
<1>2. CASE \E u \in Thread : \E i \in 1 .. Len(M[u]) : IsWrite(M[u][i], o, v - 2) /\ M[u][i].val = val
  <2>1. PICK u \in Thread : \E i \in 1 .. Len(M[u]) : IsWrite(M[u][i], o, v - 2) /\ M[u][i].val = val
    BY <1>2
  <2>2. PICK i \in 1 .. Len(M[u]) : IsWrite(M[u][i], o, v - 2) /\ M[u][i].val = val
    BY <2>1
  <2>3. i \in 1 .. Len(N[u]) /\ N[u][i] = M[u][i]
    BY OldStays, SMTT(60)
  <2> QED BY <2>2, <2>3 DEF StoredBy
<1> QED BY <1>1, <1>2 DEF StoredBy

(* An access that happens at its object's version, a read of the object's  *)
(* value, leaves a consistent run consistent.                              *)
Accessed(a, ve, va, vn, wn) ==
    /\ a.version = ve[a.objid]
    /\ a.acc = "R" => a.val = va[a.objid] /\ vn = ve /\ wn = va
    /\ a.acc = "W" => vn = [ve EXCEPT ![a.objid] = @ + 2] /\ wn = [va EXCEPT ![a.objid] = a.val]

LEMMA ConsistentStep ==
    ASSUME NEW f, NEW M, NEW N, NEW t \in Thread, NEW a \in Accs, AddsOne(M, N, t, a),
           NEW ve \in [Obj -> Nat], NEW va \in [Obj -> Nat], NEW vn, NEW wn,
           Accessed(a, ve, va, vn, wn), Consistent(f, M, ve, va),
           \A u \in Thread : \A i \in 1 .. Len(M[u]) : M[u][i] \in Accs
    PROVE  Consistent(f, N, vn, wn)
<1>1. a.acc \in {"R", "W"} /\ a.objid \in Obj /\ a.version \in Nat
  BY DEF Accs
<1>2. a.version = ve[a.objid] /\ ve[a.objid] \in Nat
  BY <1>1 DEF Accessed
<1>3. Len(M[t]) + 1 \in 1 .. Len(N[t]) /\ N[t][Len(M[t]) + 1] = a
  BY SMTT(60) DEF AddsOne
<1>4. ASSUME NEW o \in Obj
      PROVE  \/ vn[o] = ve[o] /\ wn[o] = va[o]
             \/ a.acc = "W" /\ o = a.objid /\ vn[o] = ve[o] + 2 /\ wn[o] = a.val
  <2>1. CASE a.acc = "R"
    BY <2>1 DEF Accessed
  <2>2. CASE a.acc = "W"
    BY <1>1, <2>2 DEF Accessed
  <2> QED BY <1>1, <2>1, <2>2
<1>5. EntriesOf(M, N, t, a)
  BY OldOrNew
<1>6. CurrentStored(f, N, vn, wn)
  <2> SUFFICES ASSUME NEW o \in Obj PROVE StoredBy(f, N, o, vn[o], wn[o])
    BY DEF CurrentStored
  <2>1. CASE vn[o] = ve[o] /\ wn[o] = va[o]
    <3>1. StoredBy(f, M, o, ve[o], va[o])
      BY DEF Consistent, CurrentStored
    <3> QED BY <2>1, <3>1, StaysStored
  <2>2. CASE a.acc = "W" /\ o = a.objid /\ vn[o] = ve[o] + 2 /\ wn[o] = a.val
    <3>1. vn[o] - 2 = a.version
      BY <1>2, <2>2, SMTT(60)
    <3>2. IsWrite(N[t][Len(M[t]) + 1], o, vn[o] - 2) /\ N[t][Len(M[t]) + 1].val = wn[o]
      BY <1>3, <2>2, <3>1 DEF IsWrite
    <3> QED BY <1>3, <3>2 DEF StoredBy
  <2> QED BY <1>4, <2>1, <2>2
<1>7. ReadsStored(f, N)
  <2> SUFFICES ASSUME NEW u \in Thread, NEW i \in 1 .. Len(N[u]), N[u][i].acc = "R"
               PROVE  StoredBy(f, N, N[u][i].objid, N[u][i].version, N[u][i].val)
    BY DEF ReadsStored
  <2>1. CASE i \in 1 .. Len(M[u]) /\ N[u][i] = M[u][i]
    <3>1. StoredBy(f, M, M[u][i].objid, M[u][i].version, M[u][i].val)
      BY <2>1 DEF Consistent, ReadsStored
    <3> QED BY <2>1, <3>1, StaysStored
  <2>2. CASE N[u][i] = a
    <3>1. StoredBy(f, M, a.objid, ve[a.objid], va[a.objid])
      BY <1>1 DEF Consistent, CurrentStored
    <3>2. a.val = va[a.objid] /\ a.version = ve[a.objid]
      BY <2>2 DEF Accessed
    <3> QED BY <2>2, <3>1, <3>2, StaysStored
  <2>3. (i \in 1 .. Len(M[u]) /\ N[u][i] = M[u][i]) \/ N[u][i] = a
    BY <1>5 DEF EntriesOf
  <2> QED BY <2>1, <2>2, <2>3
<1>8. WritesBelow(N, vn)
  <2> SUFFICES ASSUME NEW u \in Thread, NEW i \in 1 .. Len(N[u]), N[u][i].acc = "W"
               PROVE  N[u][i].version + 2 <= vn[N[u][i].objid]
    BY DEF WritesBelow
  <2>1. CASE i \in 1 .. Len(M[u]) /\ N[u][i] = M[u][i]
    <3>1. PICK b \in Accs : b = M[u][i]
      BY <2>1
    <3>2. b.version + 2 <= ve[b.objid]
      BY <2>1, <3>1 DEF Consistent, WritesBelow
    <3>3. b.objid \in Obj /\ b.version \in Nat /\ ve[b.objid] \in Nat
      BY DEF Accs
    <3>4. b.version + 2 <= vn[b.objid]
      BY <1>4, <3>2, <3>3, SMTT(60)
    <3> QED BY <2>1, <3>1, <3>4
  <2>2. CASE N[u][i] = a
    <3>1. a.acc = "W"
      BY <2>2
    <3>2. vn[a.objid] = ve[a.objid] + 2
      BY <1>1, <3>1 DEF Accessed
    <3> QED BY <1>2, <2>2, <3>2, SMTT(60)
  <2>3. (i \in 1 .. Len(M[u]) /\ N[u][i] = M[u][i]) \/ N[u][i] = a
    BY <1>5 DEF EntriesOf
  <2> QED BY <2>1, <2>2, <2>3
<1>9. \A w \in Thread : \A j \in 1 .. Len(M[w]) : ~IsWrite(M[w][j], a.objid, a.version)
  <2> SUFFICES ASSUME NEW w \in Thread, NEW j \in 1 .. Len(M[w]), IsWrite(M[w][j], a.objid, a.version)
               PROVE  FALSE
    OBVIOUS
  <2>1. M[w][j].version = a.version /\ M[w][j].acc = "W" /\ M[w][j].objid = a.objid
    BY DEF IsWrite
  <2>2. a.version + 2 <= ve[a.objid]
    BY <2>1 DEF Consistent, WritesBelow
  <2> QED BY <1>1, <1>2, <2>2, SMTT(60)
<1>10. WritesDiffer(N)
  <2> SUFFICES ASSUME NEW u \in Thread, NEW w \in Thread, NEW i \in 1 .. Len(N[u]), NEW j \in 1 .. Len(N[w]),
                      NEW o, NEW v, IsWrite(N[u][i], o, v), IsWrite(N[w][j], o, v)
               PROVE  u = w /\ i = j
    BY DEF WritesDiffer
  <2>1. CASE i \in 1 .. Len(M[u]) /\ N[u][i] = M[u][i] /\ j \in 1 .. Len(M[w]) /\ N[w][j] = M[w][j]
    BY <2>1 DEF Consistent, WritesDiffer
  <2>2. CASE i \in 1 .. Len(M[u]) /\ N[u][i] = M[u][i] /\ N[w][j] = a
    BY <1>9, <2>2 DEF IsWrite
  <2>3. CASE N[u][i] = a /\ j \in 1 .. Len(M[w]) /\ N[w][j] = M[w][j]
    BY <1>9, <2>3 DEF IsWrite
  <2>4. CASE u = t /\ i = Len(M[t]) + 1 /\ w = t /\ j = Len(M[t]) + 1
    BY <2>4
  <2>5. \/ i \in 1 .. Len(M[u]) /\ N[u][i] = M[u][i]
        \/ u = t /\ i = Len(M[t]) + 1 /\ N[u][i] = a
    BY <1>5 DEF EntriesOf
  <2>6. \/ j \in 1 .. Len(M[w]) /\ N[w][j] = M[w][j]
        \/ w = t /\ j = Len(M[t]) + 1 /\ N[w][j] = a
    BY <1>5 DEF EntriesOf
  <2> QED BY <2>1, <2>2, <2>3, <2>4, <2>5, <2>6
<1> QED BY <1>6, <1>7, <1>8, <1>10 DEF Consistent

-----------------------------------------------------------------------------
(* M is the beginning of L.                                                *)
Follows(M, L) ==
    \A u \in Thread : /\ Len(M[u]) \in Nat /\ Len(L[u]) \in Nat /\ Len(M[u]) <= Len(L[u])
                      /\ \A i \in 1 .. Len(M[u]) : M[u][i] = L[u][i]

(* A version means the same value in both.                                 *)
LEMMA SameStored ==
    ASSUME NEW f, NEW L, NEW M, Follows(M, L), WritesDiffer(L), NEW o, NEW v \in Nat, NEW x, NEW y,
           \A u \in Thread : \A i \in 1 .. Len(L[u]) : L[u][i].version \in Nat,
           StoredBy(f, M, o, v, x), StoredBy(f, L, o, v, y)
    PROVE  x = y
<1>1. ASSUME NEW z, StoredBy(f, M, o, v, z) PROVE StoredBy(f, L, o, v, z)
  <2>1. CASE v = 0 /\ z = FirstValue(f, o)
    BY <2>1 DEF StoredBy
  <2>2. CASE \E u \in Thread : \E i \in 1 .. Len(M[u]) : IsWrite(M[u][i], o, v - 2) /\ M[u][i].val = z
    <3>1. PICK u \in Thread : \E i \in 1 .. Len(M[u]) : IsWrite(M[u][i], o, v - 2) /\ M[u][i].val = z
      BY <2>2
    <3>2. PICK i \in 1 .. Len(M[u]) : IsWrite(M[u][i], o, v - 2) /\ M[u][i].val = z
      BY <3>1
    <3>3. i \in 1 .. Len(L[u]) /\ L[u][i] = M[u][i]
      BY SMTT(60) DEF Follows
    <3> QED BY <3>2, <3>3 DEF StoredBy
  <2> QED BY <1>1, <2>1, <2>2 DEF StoredBy
<1>2. StoredBy(f, L, o, v, x)
  BY <1>1
<1>3. CASE v = 0
  <2>1. \A u \in Thread : \A i \in 1 .. Len(L[u]) : ~IsWrite(L[u][i], o, v - 2)
    BY <1>3, SMTT(60) DEF IsWrite
  <2>2. x = FirstValue(f, o)
    BY <1>2, <2>1 DEF StoredBy
  <2>3. y = FirstValue(f, o)
    BY <2>1 DEF StoredBy
  <2> QED BY <2>2, <2>3
<1>4. CASE v # 0
  <2>1. PICK u \in Thread : \E i \in 1 .. Len(L[u]) : IsWrite(L[u][i], o, v - 2) /\ L[u][i].val = x
    BY <1>2, <1>4 DEF StoredBy
  <2>2. PICK i \in 1 .. Len(L[u]) : IsWrite(L[u][i], o, v - 2) /\ L[u][i].val = x
    BY <2>1
  <2>3. PICK w \in Thread : \E j \in 1 .. Len(L[w]) : IsWrite(L[w][j], o, v - 2) /\ L[w][j].val = y
    BY <1>4 DEF StoredBy
  <2>4. PICK j \in 1 .. Len(L[w]) : IsWrite(L[w][j], o, v - 2) /\ L[w][j].val = y
    BY <2>3
  <2>5. PICK n : n = v - 2
    OBVIOUS
  <2>6. IsWrite(L[u][i], o, n) /\ IsWrite(L[w][j], o, n)
    BY <2>2, <2>4, <2>5
  <2>7. \A k \in 1 .. Len(L[u]), l \in 1 .. Len(L[w]) :
            IsWrite(L[u][k], o, n) /\ IsWrite(L[w][l], o, n) => u = w /\ k = l
    BY DEF WritesDiffer
  <2>8. u = w /\ i = j
    BY <2>6, <2>7
  <2> QED BY <2>2, <2>4, <2>8
<1> QED BY <1>3, <1>4

SameEntries(M, L) ==
    \A u \in Thread : Len(M[u]) = Len(L[u]) /\ \A i \in 1 .. Len(M[u]) : M[u][i] = L[u][i]

(* Of two consistent runs with the same writes, neither has come to a      *)
(* later version.                                                          *)
LEMMA NoLater ==
    ASSUME NEW f, NEW M, NEW L, NEW ve, NEW va, NEW vf, NEW o, ve[o] \in Nat, vf[o] \in Nat,
           StoredBy(f, M, o, ve[o], va[o]), WritesBelow(L, vf),
           SameEntries(M, L)
    PROVE  ve[o] <= vf[o]
<1>1. CASE ve[o] = 0
  BY <1>1, SMTT(60)
<1>2. CASE ve[o] # 0
  <2>1. PICK u \in Thread : \E i \in 1 .. Len(M[u]) : IsWrite(M[u][i], o, ve[o] - 2)
    BY <1>2 DEF StoredBy
  <2>2. PICK i \in 1 .. Len(M[u]) : IsWrite(M[u][i], o, ve[o] - 2)
    BY <2>1
  <2>3. i \in 1 .. Len(L[u]) /\ L[u][i].acc = "W" /\ L[u][i].objid = o /\ L[u][i].version = ve[o] - 2
    BY <2>2 DEF IsWrite, SameEntries
  <2>4. L[u][i].version + 2 <= vf[o]
    BY <2>3 DEF WritesBelow
  <2> QED BY <2>3, <2>4, SMTT(60)
<1> QED BY <1>1, <1>2

LEMMA SameEnd ==
    ASSUME NEW f, NEW L \in Logs, NEW M \in Logs, Follows(M, L), \A u \in Thread : Len(M[u]) = Len(L[u]),
           NEW ve \in [Obj -> Nat], NEW va \in [Obj -> Nat],
           NEW vf \in [Obj -> Nat], NEW vg \in [Obj -> Nat],
           Consistent(f, M, ve, va), Consistent(f, L, vf, vg)
    PROVE  va = vg
<1> SUFFICES ASSUME NEW o \in Obj PROVE va[o] = vg[o]
  BY SMTT(60)
<1>1. ve[o] \in Nat /\ vf[o] \in Nat
  OBVIOUS
<1>2. StoredBy(f, M, o, ve[o], va[o]) /\ StoredBy(f, L, o, vf[o], vg[o])
  BY DEF Consistent, CurrentStored
<1>3. WritesBelow(M, ve) /\ WritesBelow(L, vf) /\ WritesDiffer(L)
  BY DEF Consistent
<1>4. SameEntries(M, L)
  BY DEF Follows, SameEntries
<1>5. SameEntries(L, M)
  BY <1>4 DEF SameEntries
<1>6. ve[o] <= vf[o]
  BY <1>1, <1>2, <1>3, <1>4, NoLater
<1>7. vf[o] <= ve[o]
  BY <1>1, <1>2, <1>3, <1>5, NoLater
<1>8. ve[o] = vf[o]
  BY <1>1, <1>6, <1>7, SMTT(60)
<1>9. \A u \in Thread : \A i \in 1 .. Len(L[u]) : L[u][i].version \in Nat
  BY EntriesTyped DEF Accs
<1>10. StoredBy(f, L, o, ve[o], vg[o])
  BY <1>2, <1>8
<1> QED BY <1>1, <1>2, <1>3, <1>9, <1>10, SameStored

-----------------------------------------------------------------------------
(* H is the history of the program states behind the accesses M, which end *)
(* in the states P: a thread's next access and state follow from its state *)
(* and from the value the access returned.                                 *)
TracedAt(f, t, p, a, q) ==
    /\ ~IsOver(f, p)
    /\ a.acc = AccessOf(f, t, p).acc /\ a.objid = AccessOf(f, t, p).objid
    /\ a.acc = "W" => a.val = AccessOf(f, t, p).val
    /\ q = AfterOf(f, t, p, a.val)

Traced(f, M, P, H) ==
    \A t \in Thread : /\ H[t][0] = StartOf(f, t)
                      /\ P[t] = H[t][Len(M[t])]
                      /\ \A i \in 1 .. Len(M[t]) : TracedAt(f, t, H[t][i - 1], M[t][i], H[t][i])

LEMMA TracedStep ==
    ASSUME NEW f, NEW M, NEW N, NEW P, NEW Q, NEW H, NEW t \in Thread, NEW a, AddsOne(M, N, t, a),
           \A u \in Thread : Len(M[u]) \in Nat,
           TracedAt(f, t, P[t], a, Q[t]), \A u \in Thread \ {t} : Q[u] = P[u], Traced(f, M, P, H)
    PROVE  \E G : Traced(f, N, Q, G)
<1> DEFINE G == [u \in Thread |-> [i \in Nat |-> IF u = t /\ i = Len(M[t]) + 1 THEN Q[t] ELSE H[u][i]]]
<1>1. \A u \in Thread : \A i \in Nat : ~(u = t /\ i = Len(M[t]) + 1) => G[u][i] = H[u][i]
  OBVIOUS
<1>2. Len(M[t]) + 1 \in Nat /\ G[t][Len(M[t]) + 1] = Q[t]
  BY SMTT(60)
<1> HIDE DEF G
<1>3. ASSUME NEW u \in Thread
      PROVE  /\ G[u][0] = StartOf(f, u)
             /\ Q[u] = G[u][Len(N[u])]
             /\ \A i \in 1 .. Len(N[u]) : TracedAt(f, u, G[u][i - 1], N[u][i], G[u][i])
  <2>1. /\ H[u][0] = StartOf(f, u) /\ P[u] = H[u][Len(M[u])]
        /\ \A i \in 1 .. Len(M[u]) : TracedAt(f, u, H[u][i - 1], M[u][i], H[u][i])
    BY DEF Traced
  <2>2. Len(M[u]) \in Nat
    OBVIOUS
  <2>3. G[u][0] = H[u][0]
    BY <1>1, <2>2, SMTT(60)
  <2>4. \A i \in 1 .. Len(M[u]) : G[u][i] = H[u][i] /\ G[u][i - 1] = H[u][i - 1]
    BY <1>1, <2>2, SMTT(60)
  <2>5. G[u][Len(M[u])] = H[u][Len(M[u])]
    BY <1>1, <2>2, SMTT(60)
  <2>6. CASE u # t
    <3>1. N[u] = M[u] /\ Q[u] = P[u]
      BY <2>6 DEF AddsOne
    <3> QED BY <2>1, <2>3, <2>4, <2>5, <3>1
  <2>7. CASE u = t
    <3>1. /\ Len(N[t]) = Len(M[t]) + 1 /\ N[t][Len(M[t]) + 1] = a
          /\ \A i \in 1 .. Len(M[t]) : N[t][i] = M[t][i]
      BY DEF AddsOne
    <3>2. (Len(M[t]) + 1) - 1 = Len(M[t])
      BY <2>2, <2>7, SMTT(60)
    <3>3. TracedAt(f, t, G[t][(Len(M[t]) + 1) - 1], N[t][Len(M[t]) + 1], G[t][Len(M[t]) + 1])
      BY <1>2, <2>1, <2>5, <2>7, <3>1, <3>2
    <3>4. \A i \in 1 .. Len(N[t]) : i \in 1 .. Len(M[t]) \/ i = Len(M[t]) + 1
      BY <2>2, <2>7, <3>1, SMTT(60)
    <3>5. \A i \in 1 .. Len(N[t]) : TracedAt(f, t, G[t][i - 1], N[t][i], G[t][i])
      BY <2>1, <2>4, <2>7, <3>1, <3>3, <3>4
    <3> QED BY <1>2, <2>1, <2>3, <2>7, <3>1, <3>5
  <2> QED BY <2>6, <2>7
<1> QED BY <1>3 DEF Traced

-----------------------------------------------------------------------------
(* The recorded run: the history G of its accesses L led to the final      *)
(* states Q, versions F and values V.                                      *)
Recording(f, L, Q, G, F, V) ==
    /\ Traced(f, L, Q, G) /\ Q \in [Thread -> Progs] /\ \A t \in Thread : IsOver(f, Q[t])
    /\ F \in [Obj -> Nat] /\ V \in [Obj -> Nat] /\ Consistent(f, L, F, V)

(* The replayed run goes through the same history.                         *)
Repeating(M, L, P, G) == Follows(M, L) /\ \A t \in Thread : P[t] = G[t][Len(M[t])]

PlayedBack(f, L, M, P, r) ==
    \E Q, G, F, V : Recording(f, L, Q, G, F, V) /\ Repeating(M, L, P, G) /\ r = Printed(f, Q, V)

(* The inductive invariant.  Of either run, RunInv; of the recorded one,   *)
(* that it has a history; of the replayed one, that it repeats it.         *)
RunInv(f, M, P, ve, va) ==
    /\ M \in Logs /\ ve \in [Obj -> Nat] /\ va \in [Obj -> Nat] /\ Consistent(f, M, ve, va)
    /\ P \in [Thread -> Progs] /\ \A t \in Thread : Within(f, t, P[t])

RepeatInv ==
    /\ fn \in Functions /\ log \in Logs /\ RunInv(fn, made, prog, ver, value)
    /\ \A t \in Thread : tpc[t] = "done" => IsOver(fn, prog[t])
    /\ pass \in {"record", "play", "end"}
    /\ pass = "record" => results = << >> /\ \E H : Traced(fn, made, prog, H)
    /\ pass = "play" => \E r : results = <<r>> /\ PlayedBack(fn, log, made, prog, r)
    /\ pass = "end" => /\ results[1] = results[2] /\ \A t \in Thread : tpc[t] = "done"
                       /\ \E r : PlayedBack(fn, log, made, prog, r)

Starting(f, tp, M, P) ==
    \A t \in Thread : tp[t] = "new" /\ M[t] = << >> /\ P[t] = StartOf(f, t)

LEMMA FreshRun ==
    ASSUME fn \in Functions, NEW cr, NEW fl, NEW jo, NEW rd, NEW tp, NEW pr, NEW md, NEW va, NEW ve,
           Fresh(cr, fl, jo, rd, tp, pr, md, va, ve)
    PROVE  RunInv(fn, md, pr, ve, va) /\ Starting(fn, tp, md, pr)
<1>1. Racey <=> RaceyFn(fn)
  BY DEF Racey, RaceyFn
<1>2. /\ tp = [t \in Thread |-> "new"] /\ md = [t \in Thread |-> << >>] /\ ve = [o \in Obj |-> 0]
      /\ va = [o \in Obj |-> IF Racey THEN mix(o, o) ELSE 0]
      /\ pr = [t \in Thread |-> [at |-> 0, num |-> IF Racey THEN t ELSE 0, index2 |-> 0, loop |-> 0]]
  BY DEF Fresh
<1>3. /\ \A t \in Thread : tp[t] = "new" /\ md[t] = << >> /\ pr[t] = StartOf(fn, t)
      /\ \A o \in Obj : ve[o] = 0 /\ va[o] = FirstValue(fn, o)
  BY <1>1, <1>2 DEF StartOf, FirstValue
<1>4. \A o \in Obj : FirstValue(fn, o) \in Nat
  <2> SUFFICES ASSUME NEW o \in Obj PROVE FirstValue(fn, o) \in Nat
    OBVIOUS
  <2>1. o \in Nat
    BY SMTT(60) DEF Obj
  <2>2. mix(o, o) \in Nat
    BY <2>1, MixNat
  <2> QED BY <2>2 DEF FirstValue
<1>5. ve \in [Obj -> Nat] /\ va \in [Obj -> Nat]
  <2>1. \A o \in Obj : (IF Racey THEN mix(o, o) ELSE 0) \in Nat
    BY <1>1, <1>4 DEF FirstValue
  <2> QED BY <1>2, <2>1
<1>6. md \in Logs
  BY <1>2, SMTT(60) DEF Logs
<1>7. \A t \in Thread : Len(md[t]) = 0
  BY <1>3, SMTT(60)
<1>8. Consistent(fn, md, ve, va)
  <2>1. CurrentStored(fn, md, ve, va)
    BY <1>3 DEF CurrentStored, StoredBy
  <2>2. \A t \in Thread : \A i \in 1 .. Len(md[t]) : FALSE
    BY <1>7, SMTT(60)
  <2> QED BY <2>1, <2>2 DEF Consistent, ReadsStored, WritesBelow, WritesDiffer
<1>9. ASSUME NEW t \in Thread PROVE StartOf(fn, t) \in Progs /\ Within(fn, t, StartOf(fn, t))
  <2>1. t \in Nat
    BY SMTT(60) DEF Thread
  <2>2. PICK n \in Nat : n = IF RaceyFn(fn) THEN t ELSE 0
    BY <2>1
  <2>3. StartOf(fn, t) = [at |-> 0, num |-> n, index2 |-> 0, loop |-> 0]
    BY <2>2 DEF StartOf
  <2>4. StartOf(fn, t) \in Progs /\ StartOf(fn, t).at = 0 /\ StartOf(fn, t).index2 = 0
    BY <2>3, SMTT(60) DEF Progs
  <2>5. ~RaceyFn(fn) => 0 < accesses(fn[t])
    BY NotRacey, Params, SMTT(60) DEF accesses
  <2> QED BY <2>4, <2>5, Params, SMTT(60) DEF Within
<1>10. pr \in [Thread -> Progs]
  <2>1. pr = [t \in Thread |-> StartOf(fn, t)]
    BY <1>1, <1>2 DEF StartOf
  <2> QED BY <1>9, <2>1
<1>11. \A t \in Thread : Within(fn, t, pr[t])
  BY <1>3, <1>9
<1> QED BY <1>3, <1>5, <1>6, <1>8, <1>10, <1>11 DEF RunInv, Starting

LEMMA StartsTraced ==
    ASSUME NEW f, NEW tp, NEW M, NEW P, Starting(f, tp, M, P)
    PROVE  \E H : Traced(f, M, P, H)
<1> DEFINE H == [t \in Thread |-> [i \in Nat |-> StartOf(f, t)]]
<1>1. \A t \in Thread : H[t][0] = StartOf(f, t)
  OBVIOUS
<1> HIDE DEF H
<1>2. \A t \in Thread : Len(M[t]) = 0
  BY SMTT(60) DEF Starting
<1>3. \A t \in Thread : P[t] = H[t][Len(M[t])]
  BY <1>1, <1>2 DEF Starting
<1>4. \A t \in Thread : \A i \in 1 .. Len(M[t]) : FALSE
  BY <1>2, SMTT(60)
<1> QED BY <1>1, <1>3, <1>4 DEF Traced

LEMMA RepeatInit == ProgInit => RepeatInv
<1> SUFFICES ASSUME ProgInit PROVE RepeatInv
  OBVIOUS
<1>1. /\ pass = "record" /\ results = << >> /\ log = [t \in Thread |-> << >>]
      /\ Racey \/ fn \in [Thread -> 1 .. 4]
      /\ Fresh(created, flag, joined, ready, tpc, prog, made, value, ver)
  BY DEF ProgInit
<1>2. fn \in Functions
  BY <1>1 DEF Racey, Functions
<1>3. log \in Logs
  BY <1>1, SMTT(60) DEF Logs
<1>4. RunInv(fn, made, prog, ver, value) /\ Starting(fn, tpc, made, prog)
  BY <1>1, <1>2, FreshRun
<1>5. \E H : Traced(fn, made, prog, H)
  BY <1>4, StartsTraced
<1> QED BY <1>1, <1>2, <1>3, <1>4, <1>5 DEF RepeatInv, Starting

-----------------------------------------------------------------------------
(* What one call of mem_read or mem_write does, the access a               *)
Happened(t, a) ==
    /\ a \in Accs /\ made' = [made EXCEPT ![t] = Append(@, a)]
    /\ Accessed(a, ver, value, ver', value')
    /\ TracedAt(fn, t, prog[t], a, prog'[t]) /\ \A u \in Thread \ {t} : prog'[u] = prog[u]
    /\ prog' \in [Thread -> Progs] /\ Within(fn, t, prog'[t])

(* What of MayHappen keeps replay on the recorded way                      *)
InTurn(t, o) == Len(made[t]) + 1 \in DOMAIN log[t] => ver[o] = log[t][Len(made[t]) + 1].version

LEMMA AccessHappens ==
    ASSUME fn \in Functions, RunInv(fn, made, prog, ver, value), NEW t \in Thread, mem_access(t)
    PROVE  \E a : /\ Happened(t, a)
                  /\ pass = "play" => InTurn(t, a.objid)
<1>1. /\ made \in Logs /\ ver \in [Obj -> Nat] /\ value \in [Obj -> Nat]
      /\ prog \in [Thread -> Progs] /\ Within(fn, t, prog[t])
  BY DEF RunInv
<1>2. PICK c : c = AccessOf(fn, t, prog[t])
  OBVIOUS
<1>3. c.acc \in {"R", "W"} /\ c.objid \in Obj /\ c.val \in Nat
  BY <1>1, <1>2, AccessTyped
<1>4. PICK x \in Nat : x = IF c.acc = "R" THEN value[c.objid] ELSE c.val
  BY <1>1, <1>3
<1>5. PICK a : a = [acc |-> c.acc, objid |-> c.objid, version |-> ver[c.objid], val |-> x]
  OBVIOUS
<1>6. /\ a \in Accs /\ a.acc = c.acc /\ a.objid = c.objid /\ a.version = ver[c.objid] /\ a.val = x
  BY <1>1, <1>3, <1>5 DEF Accs
<1>7. Access(t) = c
  BY <1>2, AsFunctions
<1>8. /\ ~Finished(t)
      /\ pass = "play" => InTurn(t, c.objid)
      /\ made' = [made EXCEPT ![t] = Append(@, a)]
      /\ value' = IF c.acc = "W" THEN [value EXCEPT ![c.objid] = x] ELSE value
      /\ ver' = IF c.acc = "W" THEN [ver EXCEPT ![c.objid] = @ + 2] ELSE ver
      /\ prog' = [prog EXCEPT ![t] = After(t, x)]
  <2> DEFINE d == Access(t)
             y == IF d.acc = "R" THEN value[d.objid] ELSE d.val
  <2>1. d = c /\ y = x
    BY <1>4, <1>7
  <2>2. pass = "play" => Ord!MayHappen(t, d.acc, d.objid)
    BY DEF mem_access
  <2>3. pass = "play" => InTurn(t, d.objid)
    BY <2>2 DEF Ord!MayHappen, InTurn
  <2>4. Ord!Happens(t, d.acc, d.objid, y)
    BY DEF mem_access
  <2>5. /\ value' = IF d.acc = "W" THEN [value EXCEPT ![d.objid] = y] ELSE value
        /\ ver' = IF d.acc = "W" THEN [ver EXCEPT ![d.objid] = @ + 2] ELSE ver
    BY <2>4 DEF Ord!Happens
  <2>6. /\ made' = [made EXCEPT ![t] = Append(@, [acc |-> d.acc, objid |-> d.objid, version |-> ver[d.objid], val |-> y])]
        /\ prog' = [prog EXCEPT ![t] = After(t, y)]
    BY DEF mem_access
  <2>7. ~Finished(t)
    BY DEF mem_access
  <2> HIDE DEF d, y
  <2>8. made' = [made EXCEPT ![t] = Append(@, a)]
    BY <1>5, <2>1, <2>6
  <2>9. prog' = [prog EXCEPT ![t] = After(t, x)]
    BY <2>1, <2>6
  <2>10. pass = "play" => InTurn(t, c.objid)
    BY <2>1, <2>3
  <2>11. /\ value' = IF c.acc = "W" THEN [value EXCEPT ![c.objid] = x] ELSE value
         /\ ver' = IF c.acc = "W" THEN [ver EXCEPT ![c.objid] = @ + 2] ELSE ver
    BY <2>1, <2>5
  <2> QED BY <2>7, <2>8, <2>9, <2>10, <2>11
<1>9. ~IsOver(fn, prog[t]) /\ After(t, x) = AfterOf(fn, t, prog[t], x)
  BY <1>8, AsFunctions
<1>10. Within(fn, t, AfterOf(fn, t, prog[t], x)) /\ AfterOf(fn, t, prog[t], x) \in Progs
  BY <1>1, AfterWithin DEF Within
<1>11. /\ prog' \in [Thread -> Progs] /\ prog'[t] = AfterOf(fn, t, prog[t], x)
       /\ \A u \in Thread \ {t} : prog'[u] = prog[u]
  BY <1>1, <1>8, <1>9, <1>10
<1>12. TracedAt(fn, t, prog[t], a, prog'[t])
  <2>1. a.acc = "W" => a.val = c.val
    BY <1>4, <1>6
  <2> QED BY <1>2, <1>6, <1>9, <1>11, <2>1 DEF TracedAt
<1>13. Accessed(a, ver, value, ver', value')
  <2>1. CASE c.acc = "R"
    BY <1>4, <1>6, <1>8, <2>1 DEF Accessed
  <2>2. CASE c.acc = "W"
    BY <1>4, <1>6, <1>8, <2>2 DEF Accessed
  <2> QED BY <1>3, <2>1, <2>2
<1>14. Within(fn, t, prog'[t])
  BY <1>10, <1>11
<1>15. Happened(t, a)
  BY <1>6, <1>11, <1>12, <1>8, <1>13, <1>14 DEF Happened
<1>16. pass = "play" => InTurn(t, a.objid)
  BY <1>6, <1>8
<1> QED BY <1>15, <1>16

(* Either run stays one that versions describe.                            *)
LEMMA RunStep ==
    ASSUME fn \in Functions, RunInv(fn, made, prog, ver, value), NEW t \in Thread, NEW a, Happened(t, a)
    PROVE  /\ RunInv(fn, made', prog', ver', value')
           /\ AddsOne(made, made', t, a)
<1>1. /\ made \in Logs /\ ver \in [Obj -> Nat] /\ value \in [Obj -> Nat]
      /\ Consistent(fn, made, ver, value) /\ \A u \in Thread : Within(fn, u, prog[u])
  BY DEF RunInv
<1>2. /\ a \in Accs /\ made' = [made EXCEPT ![t] = Append(@, a)]
      /\ Accessed(a, ver, value, ver', value')
      /\ \A u \in Thread \ {t} : prog'[u] = prog[u]
      /\ prog' \in [Thread -> Progs] /\ Within(fn, t, prog'[t])
  BY DEF Happened
<1>3. made' \in Logs /\ AddsOne(made, made', t, a)
  BY <1>1, <1>2, Appended
<1>4. \A u \in Thread : \A i \in 1 .. Len(made[u]) : made[u][i] \in Accs
  BY <1>1, EntriesTyped
<1>5. Consistent(fn, made', ver', value')
  BY <1>1, <1>2, <1>3, <1>4, ConsistentStep
<1>6. ver' \in [Obj -> Nat] /\ value' \in [Obj -> Nat]
  <2>1. a.acc \in {"R", "W"} /\ a.objid \in Obj /\ a.val \in Nat
    BY <1>2 DEF Accs
  <2>2. CASE a.acc = "R"
    BY <1>1, <1>2, <2>2 DEF Accessed
  <2>3. CASE a.acc = "W"
    <3>1. PICK o \in Obj, x \in Nat : o = a.objid /\ x = a.val
      BY <2>1
    <3>2. ver' = [ver EXCEPT ![o] = @ + 2] /\ value' = [value EXCEPT ![o] = x]
      BY <1>2, <2>3, <3>1 DEF Accessed
    <3> QED BY <1>1, <3>2, SMTT(60)
  <2> QED BY <2>1, <2>2, <2>3
<1>7. \A u \in Thread : Within(fn, u, prog'[u])
  <2> SUFFICES ASSUME NEW u \in Thread PROVE Within(fn, u, prog'[u])
    OBVIOUS
  <2>1. CASE u = t
    BY <1>2, <2>1
  <2>2. CASE u # t
    BY <1>1, <1>2, <2>2
  <2> QED BY <2>1, <2>2
<1> QED BY <1>2, <1>3, <1>5, <1>6, <1>7 DEF RunInv

(* A thread has made all its recorded accesses exactly when it is over.    *)
OverThere(f, L, M, P, t) ==
    /\ Len(M[t]) \in Nat /\ Len(L[t]) \in Nat /\ Len(M[t]) <= Len(L[t])
    /\ IsOver(f, P[t]) <=> Len(M[t]) = Len(L[t])

LEMMA OverAtEnd ==
    ASSUME NEW f, NEW L, NEW M, NEW P, NEW Q, NEW G, Traced(f, L, Q, G), Repeating(M, L, P, G),
           NEW t \in Thread, IsOver(f, Q[t])
    PROVE  OverThere(f, L, M, P, t)
<1>1. /\ Len(M[t]) \in Nat /\ Len(L[t]) \in Nat /\ Len(M[t]) <= Len(L[t])
      /\ P[t] = G[t][Len(M[t])]
  BY DEF Repeating, Follows
<1>2. /\ Q[t] = G[t][Len(L[t])]
      /\ \A i \in 1 .. Len(L[t]) : TracedAt(f, t, G[t][i - 1], L[t][i], G[t][i])
  BY DEF Traced
<1>3. CASE Len(M[t]) = Len(L[t])
  BY <1>1, <1>2, <1>3 DEF OverThere
<1>4. CASE Len(M[t]) # Len(L[t])
  <2>1. PICK n \in 1 .. Len(L[t]) : n = Len(M[t]) + 1 /\ n - 1 = Len(M[t])
    BY <1>1, <1>4, SMTT(60)
  <2>2. TracedAt(f, t, G[t][n - 1], L[t][n], G[t][n])
    BY <1>2
  <2>3. ~IsOver(f, P[t])
    BY <1>1, <2>1, <2>2 DEF TracedAt
  <2> QED BY <1>1, <1>4, <2>3 DEF OverThere
<1> QED BY <1>1, <1>3, <1>4

(* The heart of it: an access that replay lets happen in its turn is the   *)
(* recorded one, down to the value it returns or stores.                   *)
LEMMA AccessRepeats ==
    ASSUME log \in Logs, RunInv(fn, made, prog, ver, value), NEW t \in Thread, NEW a, Happened(t, a),
           InTurn(t, a.objid), NEW Q, NEW G, NEW F, NEW V,
           Recording(fn, log, Q, G, F, V), Repeating(made, log, prog, G)
    PROVE  /\ Len(made[t]) + 1 \in 1 .. Len(log[t]) /\ a = log[t][Len(made[t]) + 1]
           /\ prog'[t] = G[t][Len(made[t]) + 1]
<1>1. /\ a \in Accs /\ Accessed(a, ver, value, ver', value') /\ TracedAt(fn, t, prog[t], a, prog'[t])
  BY DEF Happened
<1>2. Traced(fn, log, Q, G) /\ IsOver(fn, Q[t]) /\ Consistent(fn, log, F, V)
  BY DEF Recording
<1>3. OverThere(fn, log, made, prog, t)
  BY <1>2, OverAtEnd
<1>4. ~IsOver(fn, prog[t])
  BY <1>1 DEF TracedAt
<1>5. PICK n : n = Len(made[t]) + 1
  OBVIOUS
<1>6. n \in 1 .. Len(log[t]) /\ n - 1 = Len(made[t])
  BY <1>3, <1>4, <1>5, SMTT(60) DEF OverThere
<1>7. PICK b : b = log[t][n]
  OBVIOUS
<1>8. b \in Accs /\ log[t] \in Seq(Accs)
  BY <1>6, <1>7, EntriesTyped DEF Logs
<1>9. TracedAt(fn, t, prog[t], b, G[t][n])
  <2>1. TracedAt(fn, t, G[t][n - 1], log[t][n], G[t][n])
    BY <1>2, <1>6 DEF Traced
  <2>2. G[t][n - 1] = prog[t]
    BY <1>6 DEF Repeating
  <2> QED BY <1>7, <2>1, <2>2
<1>10. a.acc = b.acc /\ a.objid = b.objid
  BY <1>1, <1>9 DEF TracedAt
<1>11. a.version = b.version
  <2>1. n \in DOMAIN log[t]
    BY <1>6, <1>8, SMTT(60)
  <2>2. ver[a.objid] = b.version
    BY <1>5, <1>7, <2>1 DEF InTurn
  <2> QED BY <1>1, <2>2 DEF Accessed
<1>12. a.acc \in {"R", "W"} /\ a.objid \in Obj /\ a.version \in Nat
  BY <1>1 DEF Accs
<1>13. a.val = b.val
  <2>1. CASE a.acc = "W"
    BY <1>1, <1>9, <1>10, <2>1 DEF TracedAt
  <2>2. CASE a.acc = "R"
    <3>1. a.val = value[a.objid] /\ a.version = ver[a.objid]
      BY <1>1, <2>2 DEF Accessed
    <3>2. StoredBy(fn, made, a.objid, ver[a.objid], value[a.objid])
      BY <1>12 DEF RunInv, Consistent, CurrentStored
    <3>3. StoredBy(fn, made, a.objid, a.version, a.val)
      BY <3>1, <3>2
    <3>4. StoredBy(fn, log, b.objid, b.version, b.val)
      BY <1>2, <1>6, <1>7, <1>10, <2>2 DEF Consistent, ReadsStored
    <3>5. StoredBy(fn, log, a.objid, a.version, b.val)
      BY <1>10, <1>11, <3>4
    <3>6. \A u \in Thread : \A i \in 1 .. Len(log[u]) : log[u][i].version \in Nat
      BY EntriesTyped DEF Accs
    <3>7. Follows(made, log) /\ WritesDiffer(log)
      BY <1>2 DEF Repeating, Consistent
    <3> QED BY <1>12, <3>3, <3>5, <3>6, <3>7, SameStored
  <2> QED BY <1>12, <2>1, <2>2
<1>14. a = b
  BY <1>1, <1>8, <1>10, <1>11, <1>13, SMTT(60) DEF Accs
<1>15. prog'[t] = G[t][n]
  BY <1>1, <1>9, <1>13 DEF TracedAt
<1> QED BY <1>5, <1>6, <1>7, <1>14, <1>15

LEMMA RepeatStep ==
    ASSUME fn \in Functions, log \in Logs, RunInv(fn, made, prog, ver, value),
           NEW t \in Thread, NEW a, Happened(t, a), InTurn(t, a.objid),
           NEW r, PlayedBack(fn, log, made, prog, r)
    PROVE  PlayedBack(fn, log, made', prog', r)
<1>1. PICK Q, G, F, V : /\ Recording(fn, log, Q, G, F, V) /\ Repeating(made, log, prog, G)
                        /\ r = Printed(fn, Q, V)
  BY DEF PlayedBack
<1>2. /\ Len(made[t]) + 1 \in 1 .. Len(log[t]) /\ a = log[t][Len(made[t]) + 1]
      /\ prog'[t] = G[t][Len(made[t]) + 1]
  BY <1>1, AccessRepeats
<1>3. AddsOne(made, made', t, a)
  BY RunStep
<1>4. \A u \in Thread \ {t} : prog'[u] = prog[u]
  BY DEF Happened
<1>5. ASSUME NEW u \in Thread
      PROVE  /\ Len(made'[u]) \in Nat /\ Len(log[u]) \in Nat /\ Len(made'[u]) <= Len(log[u])
             /\ \A i \in 1 .. Len(made'[u]) : made'[u][i] = log[u][i]
             /\ prog'[u] = G[u][Len(made'[u])]
  <2>1. /\ Len(made[u]) \in Nat /\ Len(log[u]) \in Nat /\ Len(made[u]) <= Len(log[u])
        /\ \A i \in 1 .. Len(made[u]) : made[u][i] = log[u][i]
        /\ prog[u] = G[u][Len(made[u])]
    BY <1>1 DEF Repeating, Follows
  <2>2. CASE u = t
    <3>1. /\ Len(made'[t]) = Len(made[t]) + 1 /\ made'[t][Len(made[t]) + 1] = a
          /\ \A i \in 1 .. Len(made[t]) : made'[t][i] = made[t][i]
      BY <1>3 DEF AddsOne
    <3>2. \A i \in 1 .. Len(made'[t]) : i \in 1 .. Len(made[t]) \/ i = Len(made[t]) + 1
      BY <2>1, <2>2, <3>1, SMTT(60)
    <3>3. \A i \in 1 .. Len(made'[t]) : made'[t][i] = log[t][i]
      BY <1>2, <2>1, <2>2, <3>1, <3>2
    <3>4. Len(made'[t]) \in Nat /\ Len(made'[t]) <= Len(log[t])
      BY <1>2, <2>1, <2>2, <3>1, SMTT(60)
    <3>5. prog'[t] = G[t][Len(made'[t])]
      BY <1>2, <3>1
    <3> QED BY <2>1, <2>2, <3>3, <3>4, <3>5
  <2>3. CASE u # t
    <3>1. made'[u] = made[u] /\ prog'[u] = prog[u]
      BY <1>3, <1>4, <2>3 DEF AddsOne
    <3> QED BY <2>1, <3>1
  <2> QED BY <2>2, <2>3
<1>6. Repeating(made', log, prog', G)
  BY <1>5 DEF Repeating, Follows
<1> QED BY <1>1, <1>6 DEF PlayedBack

(* When the replayed threads are over, they are where the recorded ones    *)
(* were, and main prints the same.                                         *)
LEMMA SamePrinted ==
    ASSUME fn \in Functions, log \in Logs, RunInv(fn, made, prog, ver, value),
           \A t \in Thread : IsOver(fn, prog[t]), NEW r, PlayedBack(fn, log, made, prog, r)
    PROVE  r = Printed(fn, prog, value)
<1>1. PICK Q, G, F, V : /\ Recording(fn, log, Q, G, F, V) /\ Repeating(made, log, prog, G)
                        /\ r = Printed(fn, Q, V)
  BY DEF PlayedBack
<1>2. /\ Traced(fn, log, Q, G) /\ Q \in [Thread -> Progs] /\ \A t \in Thread : IsOver(fn, Q[t])
      /\ F \in [Obj -> Nat] /\ V \in [Obj -> Nat] /\ Consistent(fn, log, F, V)
  BY <1>1 DEF Recording
<1>3. \A t \in Thread : Len(made[t]) = Len(log[t])
  <2> SUFFICES ASSUME NEW t \in Thread PROVE Len(made[t]) = Len(log[t])
    OBVIOUS
  <2>1. OverThere(fn, log, made, prog, t)
    BY <1>1, <1>2, OverAtEnd
  <2> QED BY <2>1 DEF OverThere
<1>4. \A t \in Thread : prog[t] = Q[t]
  BY <1>1, <1>2, <1>3 DEF Traced, Repeating
<1>5. /\ made \in Logs /\ ver \in [Obj -> Nat] /\ value \in [Obj -> Nat]
      /\ Consistent(fn, made, ver, value) /\ prog \in [Thread -> Progs]
  BY DEF RunInv
<1>6. prog = Q
  BY <1>2, <1>4, <1>5, SMTT(60)
<1>7. Follows(made, log)
  BY <1>1 DEF Repeating
<1>8. value = V
  BY <1>2, <1>3, <1>5, <1>7, SameEnd
<1> QED BY <1>1, <1>6, <1>8

(* The invariant at the next state, by what may have changed               *)
LEMMA OnlyTpc ==
    ASSUME RepeatInv, UNCHANGED <<pass, results, log, fn, prog, made, value, ver>>,
           \A t \in Thread : tpc'[t] = "done" => IsOver(fn, prog[t]),
           pass = "end" => \A t \in Thread : tpc'[t] = "done"
    PROVE  RepeatInv'
BY DEF RepeatInv

LEMMA AccessKeeps ==
    ASSUME BarrierInv, RepeatInv, NEW t \in Thread, mem_access(t)
    PROVE  RepeatInv'
<1>1. /\ fn \in Functions /\ log \in Logs /\ RunInv(fn, made, prog, ver, value)
      /\ pass \in {"record", "play", "end"}
      /\ pass = "record" => results = << >> /\ \E H : Traced(fn, made, prog, H)
      /\ pass = "play" => \E r : results = <<r>> /\ PlayedBack(fn, log, made, prog, r)
      /\ pass = "end" => tpc[t] = "done"
      /\ \A u \in Thread : tpc[u] = "done" => IsOver(fn, prog[u])
  BY DEF RepeatInv
<1>2. tpc[t] = "run" /\ UNCHANGED <<pass, results, log, fn, tpc>>
  BY DEF mem_access
<1>3. pass # "end"
  BY <1>1, <1>2
<1>4. PICK a : Happened(t, a) /\ (pass = "play" => InTurn(t, a.objid))
  BY <1>1, AccessHappens
<1>5. RunInv(fn, made', prog', ver', value') /\ AddsOne(made, made', t, a)
  BY <1>1, <1>4, RunStep
<1>6. ASSUME pass = "record" PROVE \E H : Traced(fn, made', prog', H)
  <2>1. PICK H : Traced(fn, made, prog, H)
    BY <1>1, <1>6
  <2>2. \A u \in Thread : Len(made[u]) \in Nat
    BY <1>1, EntriesTyped DEF RunInv
  <2>3. TracedAt(fn, t, prog[t], a, prog'[t]) /\ \A u \in Thread \ {t} : prog'[u] = prog[u]
    BY <1>4 DEF Happened
  <2> QED BY <1>5, <2>1, <2>2, <2>3, TracedStep
<1>7. ASSUME pass = "play" PROVE \E r : results = <<r>> /\ PlayedBack(fn, log, made', prog', r)
  <2>1. PICK r : results = <<r>> /\ PlayedBack(fn, log, made, prog, r)
    BY <1>1, <1>7
  <2>2. PlayedBack(fn, log, made', prog', r)
    BY <1>1, <1>4, <1>7, <2>1, RepeatStep
  <2> QED BY <2>1, <2>2
<1>8. \A u \in Thread : tpc[u] = "done" => IsOver(fn, prog'[u])
  <2> SUFFICES ASSUME NEW u \in Thread, tpc[u] = "done" PROVE IsOver(fn, prog'[u])
    OBVIOUS
  <2>1. u # t
    BY <1>2
  <2>2. prog'[u] = prog[u]
    BY <1>4, <2>1 DEF Happened
  <2> QED BY <1>1, <2>2
<1> QED BY <1>1, <1>2, <1>3, <1>5, <1>6, <1>7, <1>8 DEF RepeatInv

LEMMA PrintKeeps ==
    ASSUME RepeatInv, JoinInv, print_result
    PROVE  RepeatInv'
<1>1. /\ fn \in Functions /\ log \in Logs /\ RunInv(fn, made, prog, ver, value)
      /\ pass \in {"record", "play", "end"}
      /\ pass = "record" => results = << >> /\ \E H : Traced(fn, made, prog, H)
      /\ pass = "play" => \E r : results = <<r>> /\ PlayedBack(fn, log, made, prog, r)
      /\ \A t \in Thread : tpc[t] = "done" => IsOver(fn, prog[t])
  BY DEF RepeatInv
<1>2. pass # "end" /\ (\A t \in Thread : tpc[t] = "done") /\ results' = Append(results, Result) /\ fn' = fn
  BY JoinedAll DEF print_result
<1>3. Result = Printed(fn, prog, value)
  <2>1. 0 \in Thread
    BY ProgramAssumption, SMTT(60) DEF Thread
  <2> QED BY <2>1, AsFunctions
<1>4. \A t \in Thread : IsOver(fn, prog[t])
  BY <1>1, <1>2
<1>5. CASE pass = "record"
  <2>1. /\ pass' = "play" /\ log' = made
        /\ Fresh(created', flag', joined', ready', tpc', prog', made', value', ver')
    BY <1>5 DEF print_result
  <2>2. RunInv(fn, made', prog', ver', value') /\ Starting(fn, tpc', made', prog')
    BY <1>1, <2>1, FreshRun
  <2>3. PICK H : Traced(fn, made, prog, H)
    BY <1>1, <1>5
  <2>4. PICK r : r = Printed(fn, prog, value)
    OBVIOUS
  <2>5. results' = <<r>>
    <3>1. results' = Append(<< >>, r)
      BY <1>1, <1>2, <1>3, <1>5, <2>4
    <3>2. Append(<< >>, r) = <<r>>
      BY SMTT(60)
    <3> QED BY <3>1, <3>2
  <2>6. Recording(fn, made, prog, H, ver, value)
    BY <1>1, <1>4, <2>3 DEF Recording, RunInv
  <2>7. Repeating(made', made, prog', H)
    <3>1. \A u \in Thread : Len(made[u]) \in Nat
      BY <1>1, EntriesTyped DEF RunInv
    <3>2. \A u \in Thread : Len(made'[u]) = 0
      BY <2>2, SMTT(60) DEF Starting
    <3>3. Follows(made', made)
      BY <3>1, <3>2, SMTT(60) DEF Follows
    <3>4. \A u \in Thread : prog'[u] = H[u][Len(made'[u])]
      BY <2>2, <2>3, <3>2 DEF Starting, Traced
    <3> QED BY <3>3, <3>4 DEF Repeating
  <2>8. PlayedBack(fn, made, made', prog', r)
    BY <2>4, <2>6, <2>7 DEF PlayedBack
  <2>9. made \in Logs
    BY <1>1 DEF RunInv
  <2>10. \A t \in Thread : tpc'[t] # "done"
    BY <2>2 DEF Starting
  <2> QED BY <1>1, <1>2, <2>1, <2>2, <2>5, <2>8, <2>9, <2>10 DEF RepeatInv
<1>6. CASE pass = "play"
  <2>1. pass' = "end" /\ log' = log /\ UNCHANGED <<tpc, prog, made, value, ver>>
    BY <1>6 DEF print_result, runVars
  <2>2. PICK r : results = <<r>> /\ PlayedBack(fn, log, made, prog, r)
    BY <1>1, <1>6
  <2>3. r = Printed(fn, prog, value)
    BY <1>1, <1>4, <2>2, SamePrinted
  <2>4. results' = Append(<<r>>, r)
    BY <1>2, <1>3, <2>2, <2>3
  <2>5. results'[1] = results'[2]
    BY <2>4, SMTT(60)
  <2> QED BY <1>1, <1>2, <1>4, <2>1, <2>2, <2>5 DEF RepeatInv
<1> QED BY <1>1, <1>2, <1>5, <1>6

LEMMA GotoKeeps ==
    ASSUME BarrierInv, RepeatInv, NEW t \in Thread, NEW here, NEW there, Goto(t, here, there),
           here # "done", there = "done" => IsOver(fn, prog[t]),
           UNCHANGED <<pass, results, log, fn, prog, made, value, ver>>
    PROVE  RepeatInv'
<1>1. tpc[t] # "done" /\ tpc'[t] = there /\ \A u \in Thread \ {t} : tpc'[u] = tpc[u]
  BY DEF Goto, BarrierInv
<1>2. /\ \A u \in Thread : tpc[u] = "done" => IsOver(fn, prog[u])
      /\ pass = "end" => \A u \in Thread : tpc[u] = "done"
  BY DEF RepeatInv
<1>3. pass # "end"
  BY <1>1, <1>2
<1>4. \A u \in Thread : tpc'[u] = "done" => IsOver(fn, prog[u])
  BY <1>1, <1>2
<1> QED BY <1>3, <1>4, OnlyTpc

LEMMA RepeatNext == BarrierInv /\ JoinInv /\ RepeatInv /\ [ProgNext]_progVars => RepeatInv'
<1> SUFFICES ASSUME BarrierInv, JoinInv, RepeatInv, [ProgNext]_progVars PROVE RepeatInv'
  OBVIOUS
<1>1. CASE create_thread
  <2>1. created \in Thread
    BY <1>1, ProgramAssumption, SMTT(60) DEF create_thread, pthread_create, BarrierInv, Thread
  <2>2. Goto(created, "new", "init") /\ UNCHANGED <<pass, results, log, fn, prog, made, value, ver>>
    BY <1>1 DEF create_thread, pthread_create
  <2>3. PICK t \in Thread : t = created
    BY <2>1
  <2> QED BY <2>2, <2>3, GotoKeeps
<1>2. CASE print_result
  BY <1>2, PrintKeeps
<1>3. ASSUME NEW t \in Thread, ThreadStep(t) PROVE RepeatInv'
  <2>1. CASE mem_init_thr(t)
    <3>1. Goto(t, "init", "arrive") /\ UNCHANGED <<pass, results, log, fn, prog, made, value, ver>>
      BY <2>1 DEF mem_init_thr
    <3> QED BY <3>1, GotoKeeps
  <2>2. CASE sync_arrive(t)
    <3>1. Goto(t, "arrive", "spin") /\ UNCHANGED <<pass, results, log, fn, prog, made, value, ver>>
      BY <2>2 DEF sync_arrive
    <3> QED BY <3>1, GotoKeeps
  <2>3. CASE sync_leave(t)
    <3>1. Goto(t, "spin", "run") /\ UNCHANGED <<pass, results, log, fn, prog, made, value, ver>>
      BY <2>3 DEF sync_leave
    <3> QED BY <3>1, GotoKeeps
  <2>4. CASE mem_access(t)
    BY <2>4, AccessKeeps
  <2>5. CASE mem_finish_thr(t)
    <3>1. /\ Finished(t) /\ Goto(t, "run", "done")
          /\ UNCHANGED <<pass, results, log, fn, prog, made, value, ver>>
      BY <2>5 DEF mem_finish_thr
    <3>2. IsOver(fn, prog[t])
      BY <3>1, AsFunctions
    <3> QED BY <3>1, <3>2, GotoKeeps
  <2> QED BY <1>3, <2>1, <2>2, <2>3, <2>4, <2>5 DEF ThreadStep
<1>4. CASE UNCHANGED progVars \/ pthread_join
  <2>1. UNCHANGED <<pass, results, log, fn, tpc, prog, made, value, ver>>
    BY <1>4 DEF progVars, runVars, pthread_join
  <2> QED BY <2>1 DEF RepeatInv
<1> QED BY <1>1, <1>2, <1>3, <1>4 DEF ProgNext, MainStep, ProgOver

(* For any number of threads and iterations, objects and constants of      *)
(* racey.c and addcnt.c: replay repeats the recorded run.  Although it     *)
(* only makes every access wait for the version recorded for its number    *)
(* (wait_object_version), each thread makes the recorded accesses with the *)
(* recorded values, and main prints what it printed when recording.        *)
THEOREM ReplayRepeatsProgram == ProgSpec => []ProgramRepeats
<1>1. RepeatInv => ProgramRepeats
  <2> SUFFICES ASSUME RepeatInv PROVE ProgramRepeats
    OBVIOUS
  <2>1. pass = "end" => results[1] = results[2]
    BY DEF RepeatInv
  <2>2. ASSUME pass # "record", NEW t \in Thread PROVE made[t] = SubSeq(log[t], 1, Len(made[t]))
    <3>1. Follows(made, log)
      BY <2>2 DEF RepeatInv, PlayedBack, Repeating
    <3>2. made[t] \in Seq(Accs) /\ log[t] \in Seq(Accs)
      BY DEF RepeatInv, RunInv, Logs
    <3>3. Len(made[t]) <= Len(log[t]) /\ \A i \in 1 .. Len(made[t]) : made[t][i] = log[t][i]
      BY <3>1 DEF Follows
    <3>4. SubSeq(made[t], 1, Len(made[t])) = SubSeq(log[t], 1, Len(made[t]))
      BY <3>2, <3>3, SMTT(60)
    <3>5. SubSeq(made[t], 1, Len(made[t])) = made[t]
      BY <3>2, SMTT(60)
    <3> QED BY <3>4, <3>5
  <2> QED BY <2>1, <2>2 DEF ProgramRepeats
<1> QED BY <1>1, BarrierInit, BarrierNext, JoinInit, JoinNext, RepeatInit, RepeatNext, PTL DEF ProgSpec
=============================================================================
