----------------------------- MODULE RootfsOpen -----------------------------
(***************************************************************************)
(* From a rootfs path to an open backend: `hyperpod start` detects the     *)
(* format to print it, storage::open detects it again and dispatches, and  *)
(* the backend checks the file once more.  Each of them opens the path     *)
(* afresh, so the file there may be another one each time.                 *)
(* Source: hyperpod/src/commands/start.rs, vmm/common/storage/mod.rs,      *)
(* raw.rs and vhd.rs.                                                      *)
(*                                                                         *)
(* Lengths are in units of which a sector, and a VHD footer, has Sector;   *)
(* u64 arithmetic is modulo Word, as in the release build the README asks  *)
(* for.  What is at the path is a record of what the code looks at.        *)
(***************************************************************************)
EXTENDS Naturals

CONSTANTS
  Sector,          \* SECTOR_SIZE, and FOOTER_LEN
  Word,            \* 2^64
  Lengths,         \* the lengths of the files that may be there
  OriginalSizes    \* the original_size fields that may be in a footer

ASSUME SizeAssumption ==
  /\ Sector \in Nat /\ Sector > 1
  /\ Word \in Nat /\ Word % Sector = 0
  /\ Lengths \subseteq 0..(Word - 1) /\ OriginalSizes \subseteq 0..(Word - 1)

Footers == {"none", "fixed", "dynamic", "unknown"}   \* cookie and disk_type

\* The files: the head magic of a VHDX, a footer with its disk type and size.
\* Magic and footer need room, and do not lie on top of each other.
Images ==
  {f \in [vhdx : BOOLEAN, footer : Footers, size : OriginalSizes \cup {0}, len : Lengths] :
     /\ f.vhdx => f.len > 0
     /\ f.footer # "none" => f.len >= Sector
     /\ f.footer = "none" => f.size = 0
     /\ f.vhdx /\ f.footer # "none" => f.len > Sector}

Extensions == {"raw", "vhd", "vhdx", "other"}   \* raw, img, ext4 are one
Formats == {"Raw", "VhdFixed", "VhdDynamic", "Vhdx"}
Unknown == "unknown"

VARIABLES
  ext,        \* the path's extension
  image,      \* the file at the path
  replaced,   \* another one was put there
  by,         \* who detects: "start", then "open"
  phase,      \* "detect", "classify", "backend", "served", "rejected"
  shown,      \* the format start has printed
  fmt,        \* the format open dispatches on
  opened,     \* the file the backend has open
  sectors     \* its sectors

openVars == <<ext, image, replaced, by, phase, shown, fmt, opened, sectors>>

OpenInit ==
  /\ ext \in Extensions
  /\ image \in Images
  /\ replaced = FALSE
  /\ by = "start"
  /\ phase = "detect"
  /\ shown = Unknown /\ fmt = Unknown
  /\ opened = image
  /\ sectors = 0

-----------------------------------------------------------------------------

\* A detection ends with format f: start prints it and calls open, open goes
\* on to the backend, or rejects the format.
Detected(f) ==
  /\ IF by = "start"
     THEN shown' = f /\ by' = "open" /\ phase' = "detect" /\ UNCHANGED fmt
     ELSE /\ fmt' = f
          /\ phase' = IF f \in {"Raw", "VhdFixed"} THEN "backend" ELSE "rejected"
          /\ UNCHANGED <<by, shown>>
  /\ UNCHANGED <<ext, image, replaced, opened, sectors>>

Goto(label) ==
  /\ phase' = label
  /\ UNCHANGED <<ext, image, replaced, by, shown, fmt, opened, sectors>>

\* detect_format by extension.
ByExtension ==
  /\ phase = "detect"
  /\ \/ ext = "raw"  /\ Detected("Raw")
     \/ ext = "vhd"  /\ Goto("classify")
     \/ ext = "vhdx" /\ Detected("Vhdx")

\* Faulty ByContent: the footer cookie is not looked for.
ByHeadOnly ==
  /\ phase = "detect" /\ ext = "other"
  /\ Detected(IF image.vhdx THEN "Vhdx" ELSE "Raw")

\* detect_format by content, for any other extension.
ByContent ==
  /\ phase = "detect" /\ ext = "other"
  /\ \/ image.vhdx /\ Detected("Vhdx")
     \/ ~image.vhdx /\ image.footer # "none" /\ Goto("classify")
     \/ ~image.vhdx /\ image.footer = "none" /\ Detected("Raw")

\* classify_vhd, which opens the path again.
Classify ==
  /\ phase = "classify"
  /\ \/ image.footer = "fixed" /\ Detected("VhdFixed")
     \/ image.footer = "dynamic" /\ Detected("VhdDynamic")
     \/ image.footer \in {"none", "unknown"} /\ Goto("rejected")

\* RawBackend::open accepts a file of whole sectors.
RawAccepts(f) == f.len # 0 /\ f.len % Sector = 0

\* Faulty FooterFits: the footer's own length is forgotten.
PayloadFits(f) == f.size <= f.len

\* original_size + FOOTER_LEN > total is refused; the sum may wrap.
FooterFits(f) == (f.size + Sector) % Word <= f.len

\* Faulty VhdAccepts: the detection is believed.
VhdAcceptsDetected(f) ==
  /\ f.len >= Sector
  /\ f.size # 0 /\ FooterFits(f) /\ f.size % Sector = 0

\* VhdFixedBackend::open accepts a fixed VHD whose footer makes sense.
VhdAccepts(f) ==
  /\ f.len >= Sector /\ f.footer = "fixed"
  /\ f.size # 0 /\ FooterFits(f) /\ f.size % Sector = 0

\* The payload the backend serves: the whole file, or what the footer says.
Payload(f) == IF fmt = "Raw" THEN f.len ELSE f.size

\* Faulty SectorCount: the payload is not divided.
BytesAsSectors(f) == Payload(f)

PayloadSectors(f) == Payload(f) \div Sector

BackendAccepts == IF fmt = "Raw" THEN RawAccepts(image) ELSE VhdAccepts(image)

\* The backend opens the file that is at the path now.
OpenBackend ==
  /\ phase = "backend" /\ BackendAccepts
  /\ opened' = image
  /\ sectors' = PayloadSectors(image)
  /\ phase' = "served"
  /\ UNCHANGED <<ext, image, replaced, by, shown, fmt>>

BackendRejects ==
  /\ phase = "backend" /\ ~BackendAccepts
  /\ Goto("rejected")

\* Opening or reading fails, in any step that opens the path.
IoError ==
  /\ \/ phase = "detect" /\ ext = "other"
     \/ phase \in {"classify", "backend"}
  /\ Goto("rejected")

\* The host puts another file at the path.
Replace ==
  /\ ~replaced
  /\ image' \in Images \ {image}
  /\ replaced' = TRUE
  /\ UNCHANGED <<ext, by, phase, shown, fmt, opened, sectors>>

OpenNext ==
  ByExtension \/ ByContent \/ Classify \/ OpenBackend \/ BackendRejects \/ IoError \/ Replace

OpenSpec == OpenInit /\ [][OpenNext]_openVars

-----------------------------------------------------------------------------

OpenTypeOK ==
  /\ ext \in Extensions
  /\ image \in Images /\ opened \in Images
  /\ replaced \in BOOLEAN
  /\ by \in {"start", "open"}
  /\ phase \in {"detect", "classify", "backend", "served", "rejected"}
  /\ shown \in Formats \cup {Unknown} /\ fmt \in Formats \cup {Unknown}
  /\ sectors \in Nat /\ sectors * Sector < Word

Served == phase = "served"

\* The one payload with which FooterFits sees the sum of lengths wrap to zero:
\* the last whole sector below 2^64 that leaves no room for a footer.
LargestPayload == Word - Sector

\* The payload lies in the file, and in a VHD before the footer.
PayloadBeforeFooter ==
  sectors * Sector + (IF fmt = "Raw" THEN 0 ELSE Sector) <= opened.len

(***************************************************************************)
(* "the disk image is `original_size` bytes followed by a 512-byte footer  *)
(* at end-of-file ... the footer is untouched" (vhd.rs): what is served    *)
(* has its payload where it should be, unless its footer claims            *)
(* LargestPayload.  No other size gets past the checks, and no raw image.  *)
(* SectorFile builds on it.                                                *)
(***************************************************************************)
SectorsInsideFile ==
  Served => PayloadBeforeFooter \/ (fmt = "VhdFixed" /\ opened.size = LargestPayload)

(***************************************************************************)
(* Between detection and open the file may have become another one; what   *)
(* is served as a fixed VHD is one all the same, because the backend looks *)
(* for itself.                                                             *)
(***************************************************************************)
FixedIsFixed == Served /\ fmt = "VhdFixed" => opened.footer = "fixed"

\* The file holds what the backend takes it for.
ServedAsItIs ==
  IF fmt = "Raw" THEN ~opened.vhdx /\ opened.footer = "none" ELSE opened.footer = "fixed"

(***************************************************************************)
(* "VHDX and dynamic VHD are rejected" (README): a file that nobody        *)
(* replaces is served as what `hyperpod start` printed, and that is what   *)
(* the file holds; under .raw, .img and .ext4 it is raw, whatever the file *)
(* holds.                                                                  *)
(***************************************************************************)
NothingForeign ==
  Served /\ ~replaced =>
    /\ shown = fmt
    /\ IF ext = "raw" THEN fmt = "Raw" ELSE ServedAsItIs

=============================================================================
