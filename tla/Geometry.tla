-------------------------------- MODULE Geometry --------------------------------
(***************************************************************************)
(* Where fat16_format puts the areas of a volume, and where fat16_mount    *)
(* finds them again from the boot sector (kernel/fat16.c).  The numbers    *)
(* are the real ones, at their widths.                                     *)
(*                                                                         *)
(* Next to some definitions stands a variant with a slip in it; nothing    *)
(* uses the variants except the runs that show a property would notice.    *)
(***************************************************************************)
EXTENDS Integers, SequencesExt

SectorSize == 512
PerCluster == 4
Reserved == 1
NumFats == 2
RootEntries == 512
RootSectors == (RootEntries * 32 + SectorSize - 1) \div SectorSize

(* The sectors that a table of two bytes per cluster takes                 *)
RoundedDown(clusters) == ((clusters + 2) * 2) \div SectorSize
FatSize(clusters) == ((clusters + 2) * 2 + SectorSize - 1) \div SectorSize

ClustersBeside(sectors, fat) == (sectors - Reserved - RootSectors - NumFats * fat) \div PerCluster

(* Three correction passes, from a table computed as if it took no room    *)
Passes == <<1, 2, 3>>
SectorsPerFat(sectors) ==
    FoldLeft(LAMBDA fat, pass : FatSize(ClustersBeside(sectors, fat)), FatSize(ClustersBeside(sectors, 0)), Passes)
      % 2 ^ 16

(* fat16_format: the boot sector it writes, and the places it goes on with *)
Total16(sectors) == IF sectors > 65535 THEN 0 ELSE sectors
BootSector(sectors) ==
    [perCluster |-> PerCluster, reserved |-> Reserved, fats |-> NumFats, rootEntries |-> RootEntries,
     total16 |-> Total16(sectors), total32 |-> IF sectors > 65535 THEN sectors ELSE 0,
     perFat |-> SectorsPerFat(sectors)]
FormatPlaces(sectors) ==
    LET root == Reserved + NumFats * SectorsPerFat(sectors)
    IN  [fat |-> Reserved, root |-> root, data |-> root + RootSectors,
         clusters |-> (sectors - root - RootSectors) \div PerCluster]

(* fat16_mount *)
MountPlaces(bpb) ==
    LET root == bpb.reserved + bpb.fats * bpb.perFat
        data == root + (bpb.rootEntries * 32 + SectorSize - 1) \div SectorSize
        total == IF bpb.total16 # 0 THEN bpb.total16 ELSE bpb.total32
    IN  [fat |-> bpb.reserved, root |-> root, data |-> data,
         clusters |-> IF bpb.perCluster = 0 THEN 0 ELSE (total - data) \div bpb.perCluster]

fat16_format(sectors) ==
    [bpb |-> BootSector(sectors), places |-> FormatPlaces(sectors), mounted |-> MountPlaces(BootSector(sectors))]
=============================================================================
