CONSTANT FrontPanelUsed = FALSE
SPECIFICATION Spec
PROPERTIES
    StandbyIsOneWay
