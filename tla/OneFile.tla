---------------------------- MODULE OneFile ----------------------------
(* The one-file VFS of src/test/test_onefile.c, as far as the program     *)
(* reaches it: the methods that lines 184 and 203-210 install.  xOpen is  *)
(* fs_open and xRead is fs_read, which keep their state in                *)
(* mfs_sqlite_vfs_t and in a sqvfs_rfile_t of each handle; the other      *)
(* methods take the handle for an fs_file.  fsOpen and fsRead of the same *)
(* file are installed nowhere and not modelled.                           *)
(*                                                                        *)
(* Nothing here adds to fs_vfs.pFileList, sets sqvfs_rfile_t.sql_file or  *)
(* raises its sz_ref: a method that calls the parent file dereferences a  *)
(* null pointer, and fsClose counts below zero.  Sizes and offsets are in *)
(* blocks of BLOCKSIZE bytes; the device behind xopen is external.        *)
EXTENDS Integers

CONSTANTS
    BLOBSIZE,   \* the size of the blob
    Sizes       \* the sizes that the first block may hold

File == {"database", "journal"}     \* Pager.fd and Pager.jfd

VARIABLES
    layout,     \* "Win32" or "x64": the platform of the build
    size,       \* the size in the first block of the device
    last,       \* is the last word of the blob nonzero?
    isOpen,     \* by file: are the methods of the handle set?
    real,       \* by file: mfs_sqlite_vfs_t.real_file
    program,    \* "running", or "fault" or "abort" when it has ended
    rc,         \* what the last call returned
    out         \* the *pSize or *pResOut of the last call

vars == <<layout, size, last, isOpen, real, program, rc, out>>

NoReal == [sz_database |-> -1, sz_journal |-> -1]   \* a null pointer

Least(a, b) == IF a < b THEN a ELSE b

\* The pager has zeroed the handles.
Init ==
    /\ layout \in {"Win32", "x64"}
    /\ size \in Sizes
    /\ last \in BOOLEAN
    /\ isOpen = [f \in File |-> FALSE]
    /\ real = [f \in File |-> NoReal]
    /\ program = "running"
    /\ rc = "OK"
    /\ out = 0

--------------------------------------------------------------------------
(* The handle as an fs_file.  Its eType lies where fs_open stored the     *)
(* descriptor, a Windows handle and so a multiple of four.  Its pReal     *)
(* lies where fs_open stored real_file on x64, and on Win32 where it      *)
(* stored etype: the address 1 or 2.                                      *)
isDatabase(f) == FALSE

pRealValid(f) == layout = "x64" /\ real[f] # NoReal

\* A method of an open handle is called.
Call(f) == program = "running" /\ isOpen[f]

Return(code) == rc' = code /\ UNCHANGED program

End(how) == program' = how /\ UNCHANGED rc

Quiet == UNCHANGED <<layout, size, isOpen>>

--------------------------------------------------------------------------
\* What the last word may be after fs_open wrote the byte at the end of a
\* blob without a size.
LastWords == IF size = 0 THEN {last, FALSE} ELSE {last}

\* fs_open sets the methods before anything can fail, and frees nothing.
\* sqlite3OsOpen of a build with SQLITE_DEBUG does not survive an error
\* (os.c:243); without it the pager goes on to close the handle.
fs_open(f) ==
    LET Structure(journal) ==
            [real EXCEPT ![f] = [sz_database |-> size,
                                 sz_journal |-> IF journal THEN BLOBSIZE ELSE 0]]
    IN  /\ program = "running"
        /\ ~isOpen[f]
        /\ f = "journal" => isOpen["database"]
        /\ isOpen' = [isOpen EXCEPT ![f] = TRUE]
        /\ \/ \* no memory, or the device does not open
              Return("ERROR") /\ UNCHANGED <<real, last>>
           \/ \* the first block is not read
              /\ Return("ERROR")
              /\ real' = [real EXCEPT ![f] = [sz_database |-> 0, sz_journal |-> 0]]
              /\ UNCHANGED last
           \/ \* the last byte is not written
              /\ size = 0
              /\ Return("ERROR")
              /\ real' = Structure(FALSE)
              /\ UNCHANGED last
           \/ \* the last word is read, or not
              /\ last' \in LastWords
              /\ \/ Return("OK") /\ real' = Structure(last')
                 \/ Return("ERROR") /\ real' = Structure(FALSE)
        /\ UNCHANGED <<layout, size, out>>

\* A file without a name, of a sub-journal that is spilled or of a
\* temporary database: strlen(zName).
OpenUnnamed ==
    /\ program = "running"
    /\ End("fault")
    /\ Quiet /\ UNCHANGED <<last, real, out>>

\* nRef, which is 0, is decremented and asserted not to be negative.
fsClose(f) ==
    /\ Call(f)
    /\ End(IF pRealValid(f) THEN "abort" ELSE "fault")
    /\ Quiet /\ UNCHANGED <<last, real, out>>

\* fs_read uses the handle as fs_open made it, but pFile is null.
fs_read(f, end) ==
    /\ Call(f)
    /\ IF /\ real[f] # NoReal
          /\ end > (IF f = "database" THEN real[f].sz_database ELSE real[f].sz_journal)
       THEN Return("SHORT_READ")
       ELSE End("fault")
    /\ Quiet /\ UNCHANGED <<last, real, out>>

\* The write of one block.  isDatabase is false, so it goes to the end of
\* the blob, unless the database is there.
fsWrite(f, block) ==
    /\ Call(f)
    /\ IF /\ pRealValid(f)
          /\ ~isDatabase(f)
          /\ BLOBSIZE - (block + 1) < real[f].sz_database + 1
       THEN Return("FULL")
       ELSE End("fault")
    /\ Quiet /\ UNCHANGED <<last, real, out>>

fsTruncate(f, n) ==
    /\ Call(f)
    /\ IF pRealValid(f)
       THEN /\ Return("OK")
            /\ real' = IF isDatabase(f)
                       THEN [real EXCEPT ![f].sz_database = Least(@, n)]
                       ELSE [real EXCEPT ![f].sz_journal = Least(@, n)]
       ELSE End("fault") /\ UNCHANGED real
    /\ Quiet /\ UNCHANGED <<last, out>>

\* The method table of the parent file is looked up at a null pointer.
fsSync(f) ==
    /\ Call(f)
    /\ End("fault")
    /\ Quiet /\ UNCHANGED <<last, real, out>>

fsFileSize(f) ==
    /\ Call(f)
    /\ IF pRealValid(f)
       THEN /\ Return("OK")
            /\ out' = IF isDatabase(f) THEN real[f].sz_database ELSE real[f].sz_journal
       ELSE End("fault") /\ UNCHANGED out
    /\ Quiet /\ UNCHANGED <<last, real>>

\* fs_vfs.pFileList, in which fsAccess and fsDelete look the name up.
pFileList == {}

\* A test for existence, as hasHotJournal makes it.
fsAccess(f) ==
    /\ program = "running"
    /\ Return("OK")
    /\ out' = IF \E r \in pFileList : f = "database" \/ r.nJournal > 0 THEN 1 ELSE 0
    /\ Quiet /\ UNCHANGED <<last, real>>

\* Deletion of the journal.  A file on the list would have the first word
\* of its first journal block cleared; nothing is on the list.
fsDelete ==
    /\ program = "running"
    /\ pFileList = {}
    /\ Return("OK")
    /\ Quiet /\ UNCHANGED <<last, real, out>>

\* The program, or the machine, starts again.
Restart ==
    /\ isOpen' = [f \in File |-> FALSE]
    /\ real' = [f \in File |-> NoReal]
    /\ program' = "running"
    /\ rc' = "OK"
    /\ out' = 0
    /\ UNCHANGED <<layout, size, last>>

Next ==
    \/ \E f \in File :
          \/ fs_open(f) \/ fsClose(f) \/ fsSync(f) \/ fsFileSize(f) \/ fsAccess(f)
          \/ \E n \in 0 .. BLOBSIZE - 1 :
                fs_read(f, n + 1) \/ fsWrite(f, n) \/ fsTruncate(f, n)
    \/ OpenUnnamed
    \/ fsDelete
    \/ Restart

Spec == Init /\ [][Next]_vars

--------------------------------------------------------------------------
(* "assert(pReal->nRef >= 0)" (test_onefile.c:570): a handle that is      *)
(* closed was counted when it was opened.  fs_open counts nothing.        *)
HandlesAreCounted == program # "abort"
=============================================================================
