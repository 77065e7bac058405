---------------------------- MODULE LayerPackager ----------------------------
(***************************************************************************)
(* LayerPackager (src/src/linglong/package/layer_packager.cpp): pack a     *)
(* layer directory into a layer file (magic, the metadata size as written  *)
(* by QDataStream, the metadata JSON, then the erofs image appended with  *)
(* cat), and unpack a layer file by mounting its image with erofsfuse at   *)
(* <workDir>/unpack, copying it out and unmounting it.                    *)
(*                                                                         *)
(* A file is a sequence of segments; the size segment carries its four     *)
(* bytes, the metadata its length (chosen from MetaSizes), the others only *)
(* their kind.  Each external command and each write may fail.             *)
(***************************************************************************)
EXTENDS Naturals, Sequences

CONSTANTS
    MetaSizes,   \* lengths of the metadata JSON of the packed directory
    MaxMounts,   \* bound on the erofsfuse mounts stacked on the unpack dir
    MaxFileLen   \* bound on the segments of the output file

\* A segment of a file: its kind and, for the size, its four bytes, for
\* the metadata, its length.
Seg(kind, data) == [kind |-> kind, data |-> data]
Old   == Seg("old", <<>>)     \* what the output file held before pack
Magic == Seg("magic", <<>>)
Meta(n) == Seg("meta", <<n>>)
Image == Seg("image", <<>>)

\* QDataStream << quint32 (Qt_5_10, default byte order): big-endian.
SizeBytes(n) == <<(n \div 16777216) % 256, (n \div 65536) % 256,
                  (n \div 256) % 256, n % 256>>

VARIABLES
    layerFile,  \* the output file's segments
    mounts,     \* erofsfuse mounts on <workDir>/unpack
    dest,       \* what the unpack destination holds: "none", "image"
    last        \* the last call and its outcome

vars == <<layerFile, mounts, dest, last>>

Segments == {Old, Magic, Image} \cup {Meta(n) : n \in MetaSizes} \cup
            {Seg("size", SizeBytes(n)) : n \in MetaSizes}

TypeOK ==
    /\ layerFile \in Seq(Segments)
    /\ mounts \in 0..MaxMounts
    /\ dest \in {"none", "image"}
    /\ last \in [op : {"none", "pack", "unpack", "drop"}, ok : BOOLEAN]

\* The output path is absent or holds an older file.
Init ==
    /\ layerFile \in {<<>>, <<Old>>}
    /\ mounts = 0
    /\ dest = "none"
    /\ last = [op |-> "none", ok |-> TRUE]

Ret(op, ok) == last' = [op |-> op, ok |-> ok]

(***************************************************************************)
(* pack(dir, layerFilePath): open with WriteOnly | Append, write the       *)
(* magic, read the directory's info.json, write the size and the JSON,     *)
(* close, run mkfs.erofs into <workDir>/tmp.erofs, and append it with      *)
(* "cat ... >> layerFilePath", whose failure is not returned.  An error    *)
(* returns with what was written so far.                                   *)
(***************************************************************************)
\* Mutant: the size taken of the still empty size buffer, not of the JSON.
PackWritesSizeOfBuffer(n, failAt) ==
    LET steps == <<Magic, Seg("size", SizeBytes(0)), Meta(n)>>
        k     == CASE failAt = "open"  -> 0
                   [] failAt = "magic" -> 0
                   [] failAt = "info"  -> 1
                   [] failAt = "size"  -> 1
                   [] failAt = "meta"  -> 2
                   [] OTHER            -> 3
    IN SubSeq(steps, 1, k)

PackWrites(n, failAt) ==
    LET steps == <<Magic, Seg("size", SizeBytes(n)), Meta(n)>>
        k     == CASE failAt = "open"  -> 0
                   [] failAt = "magic" -> 0
                   [] failAt = "info"  -> 1
                   [] failAt = "size"  -> 1
                   [] failAt = "meta"  -> 2
                   [] OTHER            -> 3
    IN SubSeq(steps, 1, k)

pack ==
    /\ Len(layerFile) + 4 <= MaxFileLen
    /\ \E n \in MetaSizes,
          failAt \in {"open", "magic", "info", "size", "meta", "mkfs", "cat", "none"} :
        LET header == layerFile \o PackWrites(n, failAt)
        IN /\ layerFile' = IF failAt = "none" THEN header \o <<Image>> ELSE header
           /\ Ret("pack", failAt \in {"cat", "none"})
    /\ UNCHANGED <<mounts, dest>>

(***************************************************************************)
(* unpack(file, destination): the image offset is read from the file       *)
(* (LayerFile, spec-modelled: a file that does not start with the magic    *)
(* or has no image fails); erofsfuse mounts the image on <workDir>/unpack, *)
(* copyDir copies it to the destination, umount unmounts it.  A failing    *)
(* umount returns an error with the mount in place.                        *)
(***************************************************************************)
Readable(f) == Len(f) = 4 /\ f[1] = Magic /\ f[4] = Image

\* Mutant: the umount error is not checked.
UnpackOutcomeIgnoreUmount(f, mountErr, umountErr) ==
    LET mounted == Readable(f) /\ ~mountErr
    IN [mounts |-> IF mounted /\ umountErr THEN mounts + 1 ELSE mounts,
        dest   |-> IF mounted THEN "image" ELSE dest,
        ok     |-> mounted]

UnpackOutcome(f, mountErr, umountErr) ==
    LET mounted == Readable(f) /\ ~mountErr
    IN [mounts |-> IF mounted /\ umountErr THEN mounts + 1 ELSE mounts,
        dest   |-> IF mounted THEN "image" ELSE dest,
        ok     |-> mounted /\ ~umountErr]

unpack ==
    /\ mounts < MaxMounts
    /\ \E mountErr, umountErr \in BOOLEAN :
        LET out == UnpackOutcome(layerFile, mountErr, umountErr)
        IN /\ mounts' = out.mounts
           /\ dest' = out.dest
           /\ Ret("unpack", out.ok)
    /\ UNCHANGED layerFile

\* The LayerDir that unpack returned goes out of scope with its cleanup
\* flag set (the default): the destination is removed.
DropLayerDir ==
    /\ dest = "image"
    /\ dest' = "none"
    /\ Ret("drop", TRUE)
    /\ UNCHANGED <<layerFile, mounts>>

Next == pack \/ unpack \/ DropLayerDir

Spec == Init /\ [][Next]_vars

-----------------------------------------------------------------------------
(***************************************************************************)
(* Properties                                                              *)
(***************************************************************************)

\* An unpack that reports success has put the image at the destination and
\* left no erofsfuse mount behind on the packager's unpack directory.
UnpackOkLeavesNoMount ==
    [][ last'.op = "unpack" /\ last'.ok => mounts' = mounts /\ dest' = "image" ]_vars

\* A pack that reports success has left a layer file at the output path:
\* the magic, one header and the erofs image, whatever the path held before
\* and whichever step failed.
PackYieldsLayerFile ==
    last.op = "pack" /\ last.ok => Readable(layerFile)
=============================================================================
