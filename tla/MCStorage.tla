----------------------------- MODULE MCStorage -----------------------------
(***************************************************************************)
(* The parts of the file system and of the disk below it, each on its own  *)
(* and explored in one run: part says which one the behaviour is of.       *)
(***************************************************************************)
EXTENDS Vfs, Fds, Flock, FsNotify, RamFile, Fat, BlockQueue, FileMaps, MCDirectories

CONSTANTS na, nb, p1, p2, b1, b2, nested

VARIABLE part

MCPaths   == {<<>>, <<na>>, <<nb>>, <<na, nb>>}
MCProcs   == {p1, p2}
MCWatched == {<<"/">>, <<"/", "a">>}
MCChanged == {<<"/", "a">>, <<"/", "a", "a">>, <<"/", "a", "/", "a">>}
MCBios    == {b1, b2}
MCGaps    == {<<1, 0>>, <<1, 1>>, <<2, 4>>}

Parts == {"vfs", "fds", "locks", "notify", "ram file", "fat", "block", "file maps", "directories"}

StorageInit ==
    /\ part \in Parts
    /\ FileMapsInit /\ (part # "file maps" => image.format = "resident")
    /\ DirectoriesInit /\ (part # "directories" => folder.format = "udf" /\ folder.entries = <<>>)
    /\ FatInit /\ (part # "fat" => fat_bits = 32)
    /\ VfsInit /\ FdsInit /\ FlockInit /\ NotifyInit /\ RamFileInit /\ BlockInit

StorageNext ==
    /\ UNCHANGED part
    /\ \/ part = "vfs" /\ VfsNext
          /\ UNCHANGED <<fdsVars, flockVars, notifyVars, ramFileVars, fatVars, blockVars, fileMapsVars, directoriesVars>>
       \/ part = "fds" /\ FdsNext
          /\ UNCHANGED <<vfsVars, flockVars, notifyVars, ramFileVars, fatVars, blockVars, fileMapsVars, directoriesVars>>
       \/ part = "locks" /\ FlockNext
          /\ UNCHANGED <<vfsVars, fdsVars, notifyVars, ramFileVars, fatVars, blockVars, fileMapsVars, directoriesVars>>
       \/ part = "notify" /\ NotifyNext
          /\ UNCHANGED <<vfsVars, fdsVars, flockVars, ramFileVars, fatVars, blockVars, fileMapsVars, directoriesVars>>
       \/ part = "ram file" /\ RamFileNext
          /\ UNCHANGED <<vfsVars, fdsVars, flockVars, notifyVars, fatVars, blockVars, fileMapsVars, directoriesVars>>
       \/ part = "fat" /\ FatNext
          /\ UNCHANGED <<vfsVars, fdsVars, flockVars, notifyVars, ramFileVars, blockVars, fileMapsVars, directoriesVars>>
       \/ part = "block" /\ BlockNext
          /\ UNCHANGED <<vfsVars, fdsVars, flockVars, notifyVars, ramFileVars, fatVars, fileMapsVars, directoriesVars>>
       \/ part = "file maps" /\ FileMapsNext
          /\ UNCHANGED <<vfsVars, fdsVars, flockVars, notifyVars, ramFileVars, fatVars, blockVars, directoriesVars>>
       \/ part = "directories" /\ DirectoriesNext
          /\ UNCHANGED <<vfsVars, fdsVars, flockVars, notifyVars, ramFileVars, fatVars, blockVars, fileMapsVars>>

StorageSpec == StorageInit /\ [][StorageNext]_<<part, vfsVars, fdsVars, flockVars, notifyVars,
                                                 ramFileVars, fatVars, blockVars, fileMapsVars, directoriesVars>>
=============================================================================
