------------------------------ MODULE MappedLog -----------------------------
(***************************************************************************)
(* log.c and log.h: a log file that is written through a mapping of its    *)
(* last part, enlarged when an entry does not fit, cut to its used length  *)
(* at the end, and read back through a mapping of the whole file.  A log   *)
(* holds entries of one size.                                              *)
(***************************************************************************)
EXTENDS Integers, Sequences

CONSTANTS PAGE_SIZE,
          Buffers,          \* LOG_BUFFER_SIZE in pages: 1, or 1024 as in the comment
          MaxEntries        \* bound: entries written

ASSUME LogAssumption ==
    /\ PAGE_SIZE \in Nat \ {0} /\ Buffers \in Nat \ {0}
    /\ MaxEntries \in Nat \ {0}

LOG_BUFFER_SIZE == Buffers * PAGE_SIZE

VARIABLES file,         \* the file's bytes: the number of the entry there
          off, len,     \* file offset and length of the mapping
          buf,          \* log->buf - log->start
          entry_size,
          written,      \* entries written
          got,          \* entries read back
          mode          \* "write", "closed", "read", "end" or "exit"

logVars == <<file, off, len, buf, entry_size, written, got, mode>>

(* Every variable has its type; next_log_entry hands out no byte beyond    *)
(* the mapping (buf never passes len).                                     *)
LogTypeOK ==
    /\ file \in Seq(0 .. MaxEntries)
    /\ off \in Nat /\ len \in Nat /\ buf \in 0 .. len
    /\ entry_size \in 1 .. PAGE_SIZE /\ written \in 0 .. MaxEntries
    /\ got \in Seq(Nat)
    /\ mode \in {"write", "closed", "read", "end", "exit"}

(* ftruncate to a larger size fills with zeros                             *)
Resized(f, n) == [i \in 1 .. n |-> IF i <= Len(f) THEN f[i] ELSE 0]

(* new_mapped_log_path                                                     *)
LogInit ==
    /\ file = Resized(<< >>, LOG_BUFFER_SIZE)
    /\ off = 0 /\ len = LOG_BUFFER_SIZE /\ buf = 0
    /\ entry_size \in 1 .. PAGE_SIZE
    /\ written = 0 /\ got = << >> /\ mode = "write"

-----------------------------------------------------------------------------
(* Mutant: "start on the new page" is forgotten                            *)
enlarge_mapped_log_same_page(size) ==
    [off |-> size - PAGE_SIZE, len |-> LOG_BUFFER_SIZE + PAGE_SIZE, buf |-> buf % PAGE_SIZE]

(* The new mapping holds the file's last page and LOG_BUFFER_SIZE more.    *)
(* Mappings start on a page, so buf & 0xFFF is buf % PAGE_SIZE.            *)
enlarge_mapped_log(size) ==
    LET page_offset == buf % PAGE_SIZE
    IN  [off |-> size - PAGE_SIZE,
         len |-> LOG_BUFFER_SIZE + PAGE_SIZE,
         buf |-> IF page_offset # 0 THEN page_offset ELSE PAGE_SIZE]

(* next_log_entry, and the caller that fills in the entry                  *)
next_log_entry ==
    LET full == buf + entry_size > len
        m == IF full THEN enlarge_mapped_log(Len(file)) ELSE [off |-> off, len |-> len, buf |-> buf]
        f == IF full THEN Resized(file, Len(file) + LOG_BUFFER_SIZE) ELSE file
        at == m.off + m.buf
    IN  /\ mode = "write" /\ written < MaxEntries
        /\ written' = written + 1
        /\ file' = [i \in DOMAIN f |-> IF i \in at + 1 .. at + entry_size THEN written + 1 ELSE f[i]]
        /\ off' = m.off /\ len' = m.len /\ buf' = m.buf + entry_size
        /\ UNCHANGED <<entry_size, got, mode>>

unmap_truncate_log ==
    /\ mode = "write"
    /\ file' = Resized(file, Len(file) - (len - buf))
    /\ mode' = "closed"
    /\ UNCHANGED <<off, len, buf, entry_size, written, got>>

(* mmap of an empty file fails and the program exits with an error         *)
open_mapped_log_path ==
    /\ mode = "closed"
    /\ IF file = << >>
       THEN mode' = "exit" /\ UNCHANGED <<off, len, buf>>
       ELSE mode' = "read" /\ off' = 0 /\ len' = Len(file) /\ buf' = 0
    /\ UNCHANGED <<file, entry_size, written, got>>

(* Mutant: an entry that ends where the file does is not returned          *)
read_log_entry_strict ==
    /\ mode = "read"
    /\ IF buf + entry_size >= len
       THEN mode' = "end" /\ UNCHANGED <<buf, got>>
       ELSE got' = Append(got, file[off + buf + 1]) /\ buf' = buf + entry_size /\ UNCHANGED mode
    /\ UNCHANGED <<file, off, len, entry_size, written>>

read_log_entry ==
    /\ mode = "read"
    /\ IF buf + entry_size > len
       THEN mode' = "end" /\ UNCHANGED <<buf, got>>
       ELSE got' = Append(got, file[off + buf + 1]) /\ buf' = buf + entry_size /\ UNCHANGED mode
    /\ UNCHANGED <<file, off, len, entry_size, written>>

LogNext == next_log_entry \/ unmap_truncate_log \/ open_mapped_log_path \/ read_log_entry

LogSpec == LogInit /\ [][LogNext]_logVars

-----------------------------------------------------------------------------
(* next_log_entry and enlarge_mapped_log: the file holds the entries       *)
(* written so far one after the other, across page and mapping boundaries; *)
(* buf is the end of the last entry, the mapping ends where the file does, *)
(* and assert(original_size % LOG_BUFFER_SIZE == 0) holds.  No byte beyond *)
(* the mapping is handed out.                                              *)
EntriesContiguous ==
    /\ LogTypeOK
    /\ \A i \in 1 .. written * entry_size : file[i] = ((i - 1) \div entry_size) + 1
    /\ mode = "write" =>
        /\ off + buf = written * entry_size
        /\ off + len = Len(file)
        /\ Len(file) % LOG_BUFFER_SIZE = 0

(* unmap_truncate_log leaves exactly the entries, and read_log_entry       *)
(* returns all of them in order before it returns NULL.  open_mapped_log   *)
(* ends the program for a log without entries, which has no byte to map,   *)
(* and for no other.                                                       *)
ReadBack ==
    /\ mode # "write" => Len(file) = written * entry_size
    /\ \A k \in DOMAIN got : got[k] = k
    /\ mode = "end" => Len(got) = written
    /\ mode = "exit" => written = 0
    /\ mode \in {"read", "end"} => written > 0
=============================================================================
