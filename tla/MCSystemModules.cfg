CONSTANT
  Installations = {{"systemctl"}, {"initctl", "service"}, {"rc-service"},
                   {"update-rc.d", "service"}, {"insserv"}, {"chkconfig"}, {}}
SPECIFICATION Spec
INVARIANTS ServiceConverges BootSettingFirst DownloadHonest CleansUp
PROPERTIES DestReplaced EveryTaskEnds
CHECK_DEADLOCK FALSE
