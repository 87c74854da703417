SPECIFICATION ButtonFairSpec
PROPERTIES
    LockedPressKept
    AnnouncesState
    FollowsContact
