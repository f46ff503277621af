-------------------------- MODULE MCLaunchSession --------------------------
EXTENDS LaunchSession

usr == <<"usr">>
exe == <<"opt", "service">>
MCFiles == {exe, <<"usr", "service">>, <<"home", "core", "mihomo">>,
            <<"usr", "bin", "mihomo">>, <<"run", "lock">>}
MCSystemDirs == <<usr>>
MCStore == <<"store">>
MCLock == <<"run", "lock">>
MCProc == <<"proc">>
MCDevices == <<>>

Config(executable, resolved, service_, workingDir, safe, dirs_) ==
  [executable |-> executable, resolved |-> resolved,
   readOnlyPaths |-> service_, workingDir |-> workingDir,
   safePaths |-> safe, writableDirs |-> dirs_]

core == <<"home", "core", "mihomo">>

\* The service outside of the core's directory, the working directory above it
\* and a safe path inside a system directory; the service in a system
\* directory, where its executable cannot be mapped; no isolation.
beside ==
  Config(core, core, <<exe>>, <<"home">>, <<<<"usr", "share">>>>, <<<<"home">>>>)
within ==
  Config(core, <<"usr", "bin", "mihomo">>, <<<<"usr", "service">>>>, <<"home", "core">>,
         <<>>, <<>>)
open ==
  Config(core, core, <<exe>>, <<"home", "core">>, <<<<>>>>, <<>>)

Session(mode, conf, cpus) == [mode |-> mode, conf |-> conf, cpus |-> cpus]
MCSessions ==
  {Session("direct", beside, TRUE),
   Session("sandbox", open, FALSE), Session("auto", beside, FALSE),
   Session("sandbox", within, FALSE)}
MCProbeConfig == Config(exe, exe, <<>>, <<"opt">>, <<>>, <<>>)
============================================================================
