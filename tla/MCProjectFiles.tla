--------------------------- MODULE MCProjectFiles ---------------------------
(* A new project, one that tracks a common.toml of its own, one that only   *)
(* has a Dockerfile, and one whose config.toml is no regular file. The go   *)
(* caches of the host overlap each other.                                   *)
EXTENDS ProjectFiles

MCAvailable == <<"go_build", "go_modules", "uv">>
MCClashing == {{"go_build", "go_modules"}}

MCCheckouts ==
  {<<>>,
   "common.toml" :> Regular([image |-> "custom"]),
   ".gitignore" :> Regular([text |-> ".gitignore"]),
   "config.toml" :> Other}

MCCommonEdits ==
  {Absent, Regular([image |-> "custom"]), Regular([mounts |-> "edited"])}
MCConfigEdits ==
  {Absent, Regular([image |-> "own", mounts |-> "edited"]),
   Regular([caches |-> <<"uv", "uv">>]), Regular([colour |-> "blue"])}
=============================================================================
